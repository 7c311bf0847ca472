-------------------------- MODULE LessismoreProofs --------------------------
(***************************************************************************)
(* What the robot keeps to for any prices, shares and bounds: how often it *)
(* orders in one LONG period and what its variables hold, whatever goes    *)
(* wrong; that its journal describes the account, that it sells at a       *)
(* profit and that its plan is paid for, as long as answers come, balances *)
(* are the account's and it dies only where the journal is complete.       *)
(***************************************************************************)
EXTENDS MCLessismoreBoth, TLAPS

\* The shapes of the records and the order of the times they hold.
Times ==
    /\ market = [candle |-> market.candle, dir |-> market.dir, price |-> market.price,
                 first |-> market.first, close |-> market.close]
    /\ market.candle \in Nat /\ market.dir \in Direction
    /\ market.first \in [Direction -> Nat]
    /\ 1 <= market.first["LONG"] /\ market.first["LONG"] <= market.candle
    /\ account = [usdt |-> account.usdt, coins |-> account.coins, basis |-> account.basis,
                  buys |-> account.buys, period |-> account.period,
                  inPeriod |-> account.inPeriod, mishaps |-> account.mishaps]
    /\ account.period \in Nat /\ account.inPeriod \in Nat /\ account.mishaps \in Nat
    /\ journal = [buy |-> journal.buy, sell |-> journal.sell]
    /\ journal.buy.time \in Nat /\ journal.buy.time <= market.candle
    /\ account.period <= market.candle
    /\ pc \in Pc
    /\ pc # "idle" =>
          /\ seen.dir \in Direction
          /\ seen.candle \in Nat /\ seen.candle <= market.candle
          /\ seen.first["LONG"] \in Nat
          /\ 1 <= seen.first["LONG"] /\ seen.first["LONG"] <= seen.candle
          /\ journal.buy.time <= seen.candle
          /\ account.period <= seen.candle

\* Orders that nothing accounts for are mishaps, and the row of the last one
\* that is accounted for lies in its period.
Accounted ==
    /\ account.inPeriod <= 1 + account.mishaps
    /\ (pc \notin {"buyBalance", "buyRecord"} /\ account.period > journal.buy.time)
          => account.inPeriod <= account.mishaps
    /\ (pc = "buy" /\ seen.dir = "LONG" /\ account.period = seen.first["LONG"])
          => account.inPeriod <= account.mishaps

IInv == Times /\ Accounted

\* What a decision of run() comes to, whichever branch it takes: it ends the
\* run or places an order, and buys in a LONG period only if the journal shows
\* no buy in it.
LEMMA Decisions ==
    ASSUME Decide
    PROVE  /\ pc' \in {"idle", "buy", "sell"}
           /\ pc' # "idle" => seen' = seen
           /\ pc' = "buy" /\ seen.dir = "LONG" => ~AlreadyBought
<1>1. PICK b \in Answers(Balance(account)) :
        LET d == Position(OpenRow(b.coins), b)
            m == memory.monitor /\ ~StopsMonitoring(b.coins)
        IN  IF seen.dir = "LONG" THEN Long(d, m) ELSE Short(d, m)
  BY DEF Decide
<1> DEFINE d == Position(OpenRow(b.coins), b)
           m == memory.monitor /\ ~StopsMonitoring(b.coins)
<1>0. IF seen.dir = "LONG" THEN Long(d, m) ELSE Short(d, m)
  BY <1>1
<1> HIDE DEF d, m
<1>2. ASSUME NEW c, NEW e, TryBuy(d, c, e)
      PROVE  pc' \in {"idle", "buy"} /\ (pc' # "idle" => seen' = seen)
  BY <1>2 DEF TryBuy, Escape, Finish, End, Order
<1>3. CASE seen.dir = "LONG"
  <2>1. CASE AlreadyBought
    BY <1>0, <1>3, <2>1 DEF Long, Finish, End
  <2>2. CASE ~AlreadyBought
    <3>1. TryBuy(d, Cheap(d), m)
      BY <1>0, <1>3, <2>2 DEF Long
    <3> QED BY <3>1, <1>2, <2>2
  <2> QED BY <2>1, <2>2
<1>4. CASE seen.dir # "LONG"
  <2>1. Short(d, m)
    BY <1>0, <1>4
  <2>2. \/ Order(d, "sell", m) \/ TryBuy(d, TRUE, m) \/ Finish(TRUE)
    BY <2>1 DEF Short
  <2> QED BY <2>2, <1>2, <1>4 DEF Order, Finish, End
<1> QED BY <1>3, <1>4

\* It starts with nothing on the account and no row.
LEMMA InitKeeps == Init => IInv
  BY MoneyAssumption DEF Init, IInv, Times, Accounted, Direction, Pc, Balance, NoRow

\* The market moves on; what run() saw stays behind it.
LEMMA MarketKeeps == IInv /\ MarketMoves => IInv'
<1> SUFFICES ASSUME IInv, MarketMoves PROVE IInv'
  OBVIOUS
<1> USE DEF IInv, Times, Accounted
<1> DEFINE Shape(m) ==
             /\ m = [candle |-> m.candle, dir |-> m.dir, price |-> m.price,
                     first |-> m.first, close |-> m.close]
             /\ m.candle \in Nat /\ m.dir \in Direction /\ m.first \in [Direction -> Nat]
             /\ 1 <= m.first["LONG"] /\ m.first["LONG"] <= m.candle
             /\ market.candle <= m.candle
<1>1. ASSUME NEW p \in Price, market' = [market EXCEPT !.price = p]
      PROVE  Shape(market')
  BY <1>1
<1>2. ASSUME NEW p \in Price, NEW d \in Direction,
             market' = [(IF d = market.dir THEN market
                         ELSE [market EXCEPT !.first[d] = market.candle + 1,
                                             !.close[d] = market.price])
                          EXCEPT !.candle = market.candle + 1, !.dir = d, !.price = p]
      PROVE  Shape(market')
  <2>1. /\ market' = [candle |-> market'.candle, dir |-> market'.dir,
                      price |-> market'.price, first |-> market'.first,
                      close |-> market'.close]
        /\ market'.candle = market.candle + 1 /\ market'.dir = d
        /\ market'.first = IF d = market.dir THEN market.first
                           ELSE [market.first EXCEPT ![d] = market.candle + 1]
    <3>1. CASE d = market.dir
      BY <1>2, <3>1
    <3>2. CASE d # market.dir
      <4> DEFINE turned == [market EXCEPT !.first[d] = market.candle + 1,
                                          !.close[d] = market.price]
      <4>1. /\ turned = [candle |-> market.candle, dir |-> market.dir,
                         price |-> market.price, first |-> turned.first,
                         close |-> turned.close]
            /\ turned.first = [market.first EXCEPT ![d] = market.candle + 1]
        <5> DEFINE f == [market.first EXCEPT ![d] = market.candle + 1]
                   g == [market.close EXCEPT ![d] = market.price]
        <5>1. turned = [market EXCEPT !.first = f, !.close = g]
          OBVIOUS
        <5> HIDE DEF f, g, turned
        <5>2. turned.first = f
          BY <5>1
        <5>3. turned = [candle |-> market.candle, dir |-> market.dir,
                        price |-> market.price, first |-> turned.first,
                        close |-> turned.close]
          BY <5>1
        <5> QED BY <5>2, <5>3 DEF f
      <4>2. market' = [turned EXCEPT !.candle = market.candle + 1, !.dir = d, !.price = p]
        BY <1>2, <3>2
      <4> HIDE DEF turned
      <4> QED BY <4>1, <4>2, <3>2
    <3> QED BY <3>1, <3>2
  <2>2. market'.first \in [Direction -> Nat]
    BY <2>1
  <2>3. 1 <= market'.first["LONG"] /\ market'.first["LONG"] <= market'.candle
    BY <2>1, "LONG" \in Direction DEF Direction
  <2> QED BY <2>1, <2>2, <2>3
<1>3. Shape(market')
  BY <1>1, <1>2 DEF MarketMoves
<1>4. UNCHANGED <<account, shown, journal, memory, pc, seen, data, trades>>
  BY DEF MarketMoves
<1> QED BY <1>3, <1>4

\* Executing a buy: one order more in its period, which is a mishap when its
\* answer is lost, and else is recorded next.
LEMMA BuyKeeps == IInv /\ ExecuteBuy => IInv'
<1> SUFFICES ASSUME IInv, ExecuteBuy PROVE IInv'
  OBVIOUS
<1> USE DEF IInv, Times, Accounted
<1> DEFINE long == seen.dir = "LONG"
           period == IF long THEN seen.first["LONG"] ELSE account.period
           inPeriod == IF long THEN Orders(account) ELSE account.inPeriod
<1>1. /\ account' = [usdt |-> account'.usdt, coins |-> account'.coins,
                     basis |-> account'.basis, buys |-> account'.buys,
                     period |-> account'.period, inPeriod |-> account'.inPeriod,
                     mishaps |-> account'.mishaps]
      /\ account'.period = period /\ account'.inPeriod = inPeriod
      /\ \/ pc' = "buyBalance" /\ account'.mishaps = account.mishaps
         \/ pc' = pc /\ account'.mishaps = account.mishaps + 1
  BY DEF ExecuteBuy, Execute
<1>2. pc = "buy" /\ UNCHANGED <<market, journal, memory, seen, data>>
  BY DEF ExecuteBuy, Execute
<1>3. Times'
  BY <1>1, <1>2 DEF Orders, Pc
<1>4. inPeriod <= 1 + account.mishaps
  BY <1>2 DEF Orders
<1>5. Accounted'
  BY <1>1, <1>2, <1>3, <1>4
<1> QED BY <1>3, <1>5

\* Every step of run(), of the market and of the owner keeps the invariant.
LEMMA StepKeeps == IInv /\ [Next]_vars => IInv'
<1> SUFFICES ASSUME IInv, [Next]_vars PROVE IInv'
  OBVIOUS
<1> USE DEF IInv, Times, Accounted
<1>1. CASE MarketMoves
  BY <1>1, MarketKeeps
<1>2. CASE Withdraw
  BY <1>2 DEF Withdraw
<1>3. CASE ReadCandles
  BY <1>3 DEF ReadCandles, Pc, Direction
<1>4. CASE Decide
  <2>1. UNCHANGED <<market, account, shown, journal, trades>> /\ pc = "balance"
    BY <1>4 DEF Decide
  <2>2. Times'
    BY <1>4, <2>1, Decisions DEF Pc
  <2>3. ASSUME pc' = "buy", seen'.dir = "LONG", account.period = seen'.first["LONG"]
        PROVE  account.inPeriod <= account.mishaps
    <3>1. seen' = seen /\ ~AlreadyBought
      BY <1>4, <2>3, Decisions
    <3>2. journal.buy.time < seen.first["LONG"]
      BY <3>1, <2>1 DEF AlreadyBought, NoRow
    <3> QED BY <3>1, <3>2, <2>3, <2>1
  <2>4. Accounted'
    BY <1>4, <2>1, <2>2, <2>3, Decisions
  <2> QED BY <2>2, <2>4
<1>5. CASE ExecuteBuy
  BY <1>5, BuyKeeps
<1>6. CASE ExecuteSell
  <2>1. /\ account' = [usdt |-> account'.usdt, coins |-> account'.coins,
                       basis |-> account'.basis, buys |-> account'.buys,
                       period |-> account'.period, inPeriod |-> account'.inPeriod,
                       mishaps |-> account'.mishaps]
        /\ account'.period = account.period /\ account'.inPeriod = account.inPeriod
        /\ account'.mishaps \in {account.mishaps, account.mishaps + 1}
        /\ pc = "sell" /\ pc' \in {"sell", "sellBalance"}
        /\ UNCHANGED <<market, journal, seen>>
    BY <1>6 DEF ExecuteSell, Execute
  <2> QED BY <2>1 DEF Pc
<1>7. CASE Refuse
  BY <1>7 DEF Refuse, Escape, End, Pc
<1>8. CASE BuyBalance
  BY <1>8 DEF BuyBalance, Pc
<1>9. CASE BuyRecord
  BY <1>9 DEF BuyRecord, Finish, End, Pc
<1>10. CASE SellBalance
  BY <1>10 DEF SellBalance, Pc
<1>11. CASE SellRecord
  BY <1>11 DEF SellRecord, Finish, End, Pc
<1>12. CASE Crash
  BY <1>12 DEF Crash, InTrade, Pc
<1>13. CASE UNCHANGED vars
  BY <1>13 DEF vars
<1> QED
  BY <1>1, <1>2, <1>3, <1>4, <1>5, <1>6, <1>7, <1>8, <1>9, <1>10, <1>11, <1>12, <1>13
  DEF Next, Run

\* Whatever crashes, lost answers, refusals, late balances, withdrawals and
\* moves of the market come between its steps, run() repeats an order of a
\* LONG period at most once for each answer lost or row not written.
THEOREM AtMostOnePerMishap == Spec => []RepeatedAtMostOnce
<1>1. IInv => RepeatedAtMostOnce
  BY DEF IInv, Accounted, RepeatedAtMostOnce
<1> QED BY InitKeeps, StepKeeps, <1>1, PTL DEF Spec

\* No mishap happens in an environment without their two causes.
LEMMA NoMishaps ==
    ASSUME "lostAnswer" \notin Fault, "crashInTrade" \notin Fault
    PROVE  IInv /\ account.mishaps = 0 /\ [Next]_vars => account'.mishaps = 0
<1> SUFFICES ASSUME IInv, account.mishaps = 0, [Next]_vars PROVE account'.mishaps = 0
  OBVIOUS
<1> USE DEF IInv, Times
<1>1. CASE MarketMoves \/ Withdraw
  BY <1>1 DEF MarketMoves, Withdraw
<1>2. CASE ReadCandles \/ Decide \/ Refuse
  BY <1>2 DEF ReadCandles, Decide, Refuse
<1>3. CASE ExecuteBuy
  BY <1>3 DEF ExecuteBuy, Execute
<1>4. CASE ExecuteSell
  BY <1>4 DEF ExecuteSell, Execute
<1>5. CASE BuyBalance \/ BuyRecord \/ SellBalance \/ SellRecord
  BY <1>5 DEF BuyBalance, BuyRecord, SellBalance, SellRecord
<1>6. CASE Crash
  BY <1>6 DEF Crash, InTrade
<1>7. CASE UNCHANGED vars
  BY <1>7 DEF vars
<1> QED BY <1>1, <1>2, <1>3, <1>4, <1>5, <1>6, <1>7 DEF Next, Run

\* As long as answers arrive and the process does not die between an order and
\* its row, a LONG period sees at most one order, however often the robot is
\* restarted ("buy only once in each period", lessismore.py:475).
THEOREM BuysOncePerPeriod ==
    ASSUME "lostAnswer" \notin Fault, "crashInTrade" \notin Fault
    PROVE  Spec => []OncePerPeriod
<1>1. IInv /\ account.mishaps = 0 => OncePerPeriod
  BY DEF IInv, Times, Accounted, OncePerPeriod
<1>2. Init => account.mishaps = 0
  BY DEF Init
<1>3. IInv /\ account.mishaps = 0 /\ [Next]_vars => (account.mishaps = 0)'
  BY NoMishaps
<1> QED BY <1>1, <1>2, <1>3, InitKeeps, StepKeeps, PTL DEF Spec

-----------------------------------------------------------------------------
(* The types.                                                              *)

Markets == [candle : Nat, dir : Direction, price : Price,
            first : [Direction -> Nat], close : [Direction -> Price]]
Accounts == [usdt : Nat, coins : Nat, basis : Nat, buys : Nat,
             period : Nat, inPeriod : Nat, mishaps : Nat]
Balances == [usdt : Nat, coins : Nat]
Averages == [used : Nat, coins : Nat]
Rows == [time : Nat \ {0}, dir : Direction, price : Price,
         count : Nat, used : Nat, average : Averages]
Positions == [budget : Nat, coins : Nat, amount : Nat, count : Nat, used : Nat,
              average : Averages, lastPrice : Nat, lastDir : Direction \cup {"NONE"},
              lastTime : Nat]

\* What every variable holds, wherever run() is.
Typed ==
    /\ market \in Markets /\ account \in Accounts /\ shown \in Balances
    /\ memory \in [his : Direction \cup {"INVALID"}, monitor : BOOLEAN]
    /\ pc \in Pc
    /\ journal = [buy |-> journal.buy, sell |-> journal.sell]
    /\ journal.buy \in {NoRow} \cup Rows /\ journal.sell \in [time : Nat]
    /\ journal.buy.time <= market.candle /\ journal.sell.time <= market.candle
    /\ market.candle > 0
    /\ pc # "idle" => /\ seen \in Markets /\ 0 < seen.candle /\ seen.candle <= market.candle
                      /\ journal.sell.time <= seen.candle
    /\ pc \in {"idle", "balance"} => data = NoData
    /\ pc \notin {"idle", "balance"} => data \in Positions
    /\ trades \in 0 .. MaxTrade + 1
    /\ pc \in {"balance", "buy", "sell"} => trades <= MaxTrade

\* Products and quotients of numbers of coins and of money.
LEMMA MulNat ==
    ASSUME NEW a \in Nat, NEW b \in Nat
    PROVE  a * b \in Nat
  OBVIOUS

LEMMA MulLess ==
    ASSUME NEW a \in Nat \ {0}, NEW b \in Nat
    PROVE  b <= a * b
  OBVIOUS

LEMMA DivNat ==
    ASSUME NEW a \in Nat, NEW b \in Nat \ {0}
    PROVE  a \div b \in Nat /\ b * (a \div b) <= a
  OBVIOUS

LEMMA DivPos ==
    ASSUME NEW a \in Nat, NEW b \in Nat \ {0}, b <= a
    PROVE  a \div b \in Nat \ {0}
  OBVIOUS

\* What the robot sees of its money is off by half a Grain at most.
LEMMA RoundedNear ==
    ASSUME NEW usdt \in Nat
    PROVE  /\ Rounded(usdt) \in Nat
           /\ 2 * Rounded(usdt) <= 2 * usdt + Grain /\ 2 * usdt <= 2 * Rounded(usdt) + Grain
           /\ usdt = 0 => Rounded(usdt) = 0
<1> DEFINE n == 2 * usdt + Grain
           w == 2 * Grain
           k == n \div w
<1>1. Grain \in Nat \ {0} /\ n \in Nat /\ w \in Nat \ {0}
  BY MoneyAssumption
<1>2. k \in Nat /\ w * k <= n /\ n < w * k + w
  <2> HIDE DEF n, w
  <2> QED BY <1>1
<1>3. Rounded(usdt) = Grain * k
  BY DEF Rounded
<1>4. Grain * k \in Nat /\ w * k = 2 * (Grain * k)
  <2> HIDE DEF k
  <2> QED BY <1>1, <1>2
<1> HIDE DEF k
<1>5. ASSUME usdt = 0 PROVE Grain * k = 0
  <2>1. 2 * (Grain * k) <= Grain
    BY <1>2, <1>4, <1>5, <1>1
  <2>2. k = 0
    <3>1. k >= 1 => Grain * k >= Grain
      BY <1>1, <1>2
    <3> QED BY <1>1, <1>2, <1>4, <2>1, <3>1
  <2> QED BY <1>1, <2>2
<1> QED BY <1>1, <1>2, <1>3, <1>4, <1>5

\* get_balance answers with two numbers.
LEMMA BalanceTyped ==
    ASSUME NEW a \in Accounts
    PROVE  /\ Balance(a) \in Balances
           /\ Balance(a).usdt = Rounded(a.usdt) /\ Balance(a).coins = a.coins
<1>1. a.usdt \in Nat /\ a.coins \in Nat
  BY DEF Accounts
<1>2. Rounded(a.usdt) \in Nat
  BY <1>1, RoundedNear
<1> QED BY <1>1, <1>2 DEF Balance, Balances

\* get_next_usdt never offers a share of nothing.
LEMMA ShareNat ==
    ASSUME NEW d, d.count \in Nat, d.used \in Nat, d.budget \in Nat, HasShare(d)
    PROVE  Share(d) \in Nat \ {0}
<1> DEFINE D == d.used + d.budget - MaxCount * Base
           P == MaxCount * (MaxCount - 1)
           n == d.count * 2 * D
<1>1. MaxCount \in Nat \ {0} /\ Base \in Nat \ {0} /\ MaxCount > 1
  BY MoneyAssumption DEF HasShare
<1>2. MaxCount * Base \in Nat
  BY <1>1, MulNat
<1>3. D \in Nat
  <2>1. Base * MaxCount < d.used + d.budget /\ Base * MaxCount = MaxCount * Base
    BY <1>1 DEF HasShare
  <2> DEFINE c == MaxCount * Base
  <2>2. c \in Nat /\ c < d.used + d.budget
    BY <1>2, <2>1
  <2> HIDE DEF c
  <2>3. d.used + d.budget - c \in Nat
    BY <2>2
  <2> QED BY <2>3 DEF c
<1>4. d.count * 2 \in Nat
  OBVIOUS
<1>5. P \in Nat \ {0}
  BY <1>1
<1>6. n \in Nat
  <2> HIDE DEF D
  <2> QED BY <1>3, <1>4, MulNat
<1>7. n \div P \in Nat
  <2> HIDE DEF n, P
  <2> QED BY <1>5, <1>6, DivNat
<1>8. Share(d) = Base + n \div P
  BY DEF Share
<1> HIDE DEF n, P
<1> QED BY <1>1, <1>7, <1>8

\* set_running_data, from any row or none.
LEMMA PositionTyped ==
    ASSUME NEW row \in {NoRow} \cup Rows, NEW b \in Balances
    PROVE  Position(row, b) \in Positions
<1>1. CASE row = NoRow
  BY <1>1 DEF Position, Positions, NoRow, Averages, Zero, Balances
<1>2. CASE row # NoRow
  <2>1. row \in Rows /\ Price \subseteq Nat
    BY <1>2, MoneyAssumption
  <2>2. /\ row.time \in Nat /\ row.dir \in Direction /\ row.price \in Nat /\ row.count \in Nat
        /\ row.used \in Nat /\ row.average \in Averages
    BY <2>1 DEF Rows
  <2> QED BY <1>2, <2>2 DEF Position, Positions, Balances
<1> QED BY <1>1, <1>2

\* Whatever run() decides.
LEMMA DecideTyped == Typed /\ Decide => Typed'
<1> SUFFICES ASSUME Typed, Decide PROVE Typed'
  OBVIOUS
<1> USE DEF Typed
<1>1. PICK b \in Answers(Balance(account)) :
        LET d == Position(OpenRow(b.coins), b)
            m == memory.monitor /\ ~StopsMonitoring(b.coins)
        IN  IF seen.dir = "LONG" THEN Long(d, m) ELSE Short(d, m)
  BY DEF Decide
<1> DEFINE d == Position(OpenRow(b.coins), b)
           m == memory.monitor /\ ~StopsMonitoring(b.coins)
<1>0. IF seen.dir = "LONG" THEN Long(d, m) ELSE Short(d, m)
  BY <1>1
<1>2. UNCHANGED <<market, account, shown, journal, trades>> /\ pc = "balance"
  BY DEF Decide
<1>3. b \in Balances
  BY BalanceTyped DEF Answers, Balances
<1>4. OpenRow(b.coins) \in {NoRow} \cup Rows
  BY DEF OpenRow
<1>5. d \in Positions
  BY <1>3, <1>4, PositionTyped
<1>6. m \in BOOLEAN
  OBVIOUS
<1> HIDE DEF d, m
<1>7. ASSUME NEW h \in Direction \cup {"INVALID"}, NEW e \in BOOLEAN, End(h, e)
      PROVE  Typed'
  BY <1>2, <1>7 DEF End, NoData, Pc
<1>8. ASSUME NEW e \in BOOLEAN, Finish(e) \/ Escape(e) PROVE Typed'
  <2>1. seen.dir \in Direction /\ memory.his \in Direction \cup {"INVALID"}
    BY <1>2 DEF Markets
  <2> QED BY <2>1, <1>7, <1>8 DEF Finish, Escape
<1>9. ASSUME NEW x \in Positions, NEW side \in {"buy", "sell"}, NEW e \in BOOLEAN, Order(x, side, e)
      PROVE  Typed'
  BY <1>2, <1>9 DEF Order, Pc
<1>10. ASSUME NEW c \in BOOLEAN, NEW e \in BOOLEAN, TryBuy(d, c, e) PROVE Typed'
  <2>1. CASE HasShare(d) /\ c /\ Amount(d) > 0
    <3>1. Amount(d) \in Nat
      BY <2>1, <1>5, ShareNat DEF Amount, Positions
    <3>2. [d EXCEPT !.amount = Amount(d)] \in Positions
      BY <1>5, <3>1 DEF Positions
    <3> QED BY <1>10, <2>1, <3>2, <1>9 DEF TryBuy
  <2>2. CASE ~HasShare(d)
    BY <1>10, <2>2, <1>8 DEF TryBuy
  <2>3. CASE HasShare(d) /\ ~(c /\ Amount(d) > 0)
    <3>1. (seen.dir = "SHORT" \/ ~c) \in BOOLEAN /\ Finish(seen.dir = "SHORT" \/ ~c)
      BY <1>10, <2>3 DEF TryBuy
    <3> QED BY <3>1, <1>8
  <2> QED BY <2>1, <2>2, <2>3
<1>11. CASE seen.dir = "LONG"
  <2>1. CASE AlreadyBought
    BY <1>0, <1>8, <1>11, <2>1 DEF Long
  <2>2. CASE ~AlreadyBought
    <3>1. TryBuy(d, Cheap(d), m)
      BY <1>0, <1>11, <2>2 DEF Long
    <3>2. Cheap(d) \in BOOLEAN
      <4>1. d.lastPrice \in Nat /\ seen.price \in Nat /\ seen.close["LONG"] \in Nat /\ AddDiff \in Nat
        BY <1>2, <1>5, MoneyAssumption DEF Positions, Markets, Direction
      <4>2. (seen.price < seen.close["LONG"]) \in BOOLEAN /\ (d.lastPrice - seen.price >= AddDiff) \in BOOLEAN
        BY <4>1
      <4> QED BY <4>2 DEF Cheap
    <3> QED BY <3>1, <3>2, <1>10, <1>6
  <2> QED BY <2>1, <2>2
<1>12. CASE seen.dir # "LONG"
  <2>1. Short(d, m)
    BY <1>0, <1>12
  <2>2. \/ Order(d, "sell", m) \/ TryBuy(d, TRUE, m) \/ Finish(TRUE)
    BY <2>1 DEF Short
  <2> QED BY <2>2, <1>5, <1>6, <1>8, <1>9, <1>10
<1> QED BY <1>11, <1>12

\* The types at first.
LEMMA InitTyped == Init => Typed
<1> SUFFICES ASSUME Init PROVE Typed
  OBVIOUS
<1>1. PICK d \in Direction, p \in Price :
        market = [candle |-> 1, dir |-> d, price |-> p,
                  first |-> [e \in Direction |-> 1], close |-> [e \in Direction |-> p]]
  BY DEF Init
<1>2. market \in Markets /\ market.candle = 1
  BY <1>1 DEF Markets
<1>3. account \in Accounts
  BY MoneyAssumption DEF Init, Accounts
<1>4. shown \in Balances
  BY <1>3, BalanceTyped DEF Init
<1> QED
  BY <1>2, <1>3, <1>4, MoneyAssumption
  DEF Init, Typed, NoRow, Fresh, Pc, NoData

\* A new price, or a new candle of either direction.
LEMMA MarketTyped == Typed /\ MarketMoves => Typed'
<1> SUFFICES ASSUME Typed, MarketMoves PROVE Typed'
  OBVIOUS
<1> USE DEF Typed
<1>1. ASSUME NEW p \in Price, market' = [market EXCEPT !.price = p]
      PROVE  market' \in Markets /\ market'.candle = market.candle
  BY <1>1 DEF Markets
<1>2. ASSUME NEW p \in Price, NEW d \in Direction,
             market' = [(IF d = market.dir THEN market
                         ELSE [market EXCEPT !.first[d] = market.candle + 1,
                                             !.close[d] = market.price])
                          EXCEPT !.candle = market.candle + 1, !.dir = d, !.price = p]
      PROVE  market' \in Markets /\ market'.candle = market.candle + 1
  <2> DEFINE f == [market.first EXCEPT ![d] = market.candle + 1]
             g == [market.close EXCEPT ![d] = market.price]
             turned == [market EXCEPT !.first = f, !.close = g]
             start == IF d = market.dir THEN market ELSE turned
  <2>1. f \in [Direction -> Nat] /\ g \in [Direction -> Price]
    BY DEF Markets
  <2>2. market' = [start EXCEPT !.candle = market.candle + 1, !.dir = d, !.price = p]
    BY <1>2
  <2> HIDE DEF f, g
  <2>3. start \in Markets /\ start.candle = market.candle
    BY <2>1 DEF Markets
  <2> HIDE DEF start
  <2>4. market' = [candle |-> market.candle + 1, dir |-> d, price |-> p,
                   first |-> start.first, close |-> start.close]
    BY <2>2, <2>3 DEF Markets
  <2>5. /\ market.candle + 1 \in Nat /\ start.first \in [Direction -> Nat]
        /\ start.close \in [Direction -> Price]
    BY <2>3 DEF Markets
  <2> QED BY <2>4, <2>5 DEF Markets
<1>3. market' \in Markets /\ market.candle <= market'.candle
  <2>1. market.candle \in Nat
    BY DEF Markets
  <2>2. \E p \in Price :
          \/ market' = [market EXCEPT !.price = p]
          \/ \E d \in Direction :
               market' = [(IF d = market.dir THEN market
                           ELSE [market EXCEPT !.first[d] = market.candle + 1,
                                               !.close[d] = market.price])
                            EXCEPT !.candle = market.candle + 1, !.dir = d, !.price = p]
    BY DEF MarketMoves
  <2>3. market' \in Markets /\ market'.candle \in {market.candle, market.candle + 1}
    BY <1>1, <1>2, <2>2
  <2> QED BY <2>1, <2>3
<1>4. UNCHANGED <<account, shown, journal, memory, pc, seen, data, trades>>
  BY DEF MarketMoves
<1>5. /\ market.candle \in Nat /\ market'.candle \in Nat
      /\ journal.buy.time \in Nat /\ journal.sell.time \in Nat
      /\ pc # "idle" => seen.candle \in Nat
  BY <1>3 DEF Markets, Rows, NoRow
<1> QED BY <1>3, <1>4, <1>5

\* The account after a buy, of what it has at most.
LEMMA BuyTyped == Typed /\ ExecuteBuy => Typed'
<1> SUFFICES ASSUME Typed, ExecuteBuy PROVE Typed'
  OBVIOUS
<1> USE DEF Typed
<1> DEFINE spent == IF data.amount <= account.usdt THEN data.amount ELSE account.usdt
           bought == (spent * Scale) \div market.price
           a == [account EXCEPT
                   !.usdt = @ - spent, !.coins = @ + bought, !.basis = @ + spent,
                   !.buys = @ + 1,
                   !.period = IF seen.dir = "LONG" THEN seen.first["LONG"] ELSE @,
                   !.inPeriod = IF seen.dir = "LONG" THEN Orders(account) ELSE @]
<1>1. pc = "buy" /\ Execute(a, "buyBalance")
  BY DEF ExecuteBuy
<1>2. data.amount \in Nat /\ account.usdt \in Nat
  BY <1>1 DEF Positions, Accounts
<1>3. spent \in Nat /\ spent <= account.usdt
  BY <1>2
<1>4. bought \in Nat
  <2>1. market.price \in Nat \ {0} /\ Scale \in Nat
    BY MoneyAssumption DEF Markets
  <2> HIDE DEF spent
  <2> DEFINE n == spent * Scale
  <2>2. n \in Nat
    BY <1>3, <2>1, MulNat
  <2> HIDE DEF n
  <2>3. n \div market.price \in Nat
    BY <2>1, <2>2, DivNat
  <2> QED BY <2>3 DEF n
<1>5. seen.first["LONG"] \in Nat
  BY <1>1 DEF Markets, Direction
<1>6. Orders(account) \in Nat
  BY DEF Orders, Accounts
<1> HIDE DEF spent, bought
<1>7. a \in Accounts
  <2> DEFINE x == a
             period == IF seen.dir = "LONG" THEN seen.first["LONG"] ELSE account.period
             inPeriod == IF seen.dir = "LONG" THEN Orders(account) ELSE account.inPeriod
  <2>1. account \in Accounts
    OBVIOUS
  <2>2. /\ account.coins \in Nat /\ account.basis \in Nat /\ account.buys \in Nat
        /\ account.period \in Nat /\ account.inPeriod \in Nat /\ account.mishaps \in Nat
    BY DEF Accounts
  <2>3. period \in Nat /\ inPeriod \in Nat
    BY <1>5, <1>6, <2>2
  <2>4. x = [account EXCEPT !.usdt = account.usdt - spent, !.coins = account.coins + bought,
                            !.basis = account.basis + spent, !.buys = account.buys + 1,
                            !.period = period, !.inPeriod = inPeriod]
    OBVIOUS
  <2> HIDE DEF period, inPeriod, x, Typed
  <2>5. /\ x = [usdt |-> x.usdt, coins |-> x.coins, basis |-> x.basis, buys |-> x.buys,
                period |-> x.period, inPeriod |-> x.inPeriod, mishaps |-> x.mishaps]
        /\ x.usdt = account.usdt - spent /\ x.coins = account.coins + bought
        /\ x.basis = account.basis + spent /\ x.buys = account.buys + 1
        /\ x.period = period /\ x.inPeriod = inPeriod /\ x.mishaps = account.mishaps
    BY <2>1, <2>4 DEF Accounts
  <2>6. x \in Accounts
    BY <1>2, <1>3, <1>4, <2>2, <2>3, <2>5 DEF Accounts
  <2> QED BY <2>6 DEF x
<1> HIDE DEF a
<1>8. [a EXCEPT !.mishaps = @ + 1] \in Accounts /\ Balance(a) \in Balances
  BY <1>7, BalanceTyped DEF Accounts
<1>9. account' \in Accounts /\ shown' \in Balances
  BY <1>1, <1>7, <1>8 DEF Execute
<1>10. /\ trades' = trades + 1 /\ pc' \in {"buy", "buyBalance"} /\ (pc' = "buy" => trades < MaxTrade)
       /\ UNCHANGED <<market, journal, memory, seen, data>>
  BY <1>1 DEF Execute
<1> QED BY <1>1, <1>9, <1>10, MoneyAssumption DEF Pc

\* The account after a sale of all its coins.
LEMMA SellTyped == Typed /\ ExecuteSell => Typed'
<1> SUFFICES ASSUME Typed, ExecuteSell PROVE Typed'
  OBVIOUS
<1> USE DEF Typed
<1> DEFINE gained == (account.coins * market.price) \div Scale
           a == [account EXCEPT !.usdt = @ + gained, !.coins = 0, !.basis = 0, !.buys = 0]
<1>1. pc = "sell" /\ Execute(a, "sellBalance")
  BY DEF ExecuteSell
<1>2. gained \in Nat
  <2>1. market.price \in Nat /\ Scale \in Nat \ {0} /\ account.coins \in Nat
    BY MoneyAssumption DEF Markets, Accounts
  <2> DEFINE n == account.coins * market.price
  <2>2. n \in Nat
    BY <2>1, MulNat
  <2> HIDE DEF n
  <2>3. n \div Scale \in Nat
    BY <2>1, <2>2, DivNat
  <2> QED BY <2>3 DEF n
<1> HIDE DEF gained
<1>3. a \in Accounts
  <2>1. /\ account.usdt \in Nat /\ account.period \in Nat /\ account.inPeriod \in Nat
        /\ account.mishaps \in Nat /\ account \in Accounts
    BY DEF Accounts
  <2> DEFINE x == a
  <2>2. x = [account EXCEPT !.usdt = account.usdt + gained, !.coins = 0, !.basis = 0, !.buys = 0]
    OBVIOUS
  <2> HIDE DEF x, Typed
  <2>3. /\ x = [usdt |-> x.usdt, coins |-> x.coins, basis |-> x.basis, buys |-> x.buys,
                period |-> x.period, inPeriod |-> x.inPeriod, mishaps |-> x.mishaps]
        /\ x.usdt = account.usdt + gained /\ x.coins = 0 /\ x.basis = 0 /\ x.buys = 0
        /\ x.period = account.period /\ x.inPeriod = account.inPeriod
        /\ x.mishaps = account.mishaps
    BY <2>1, <2>2 DEF Accounts
  <2>4. x \in Accounts
    BY <1>2, <2>1, <2>3 DEF Accounts
  <2> QED BY <2>4 DEF x
<1> HIDE DEF a
<1>4. [a EXCEPT !.mishaps = @ + 1] \in Accounts /\ Balance(a) \in Balances
  BY <1>3, BalanceTyped DEF Accounts
<1>5. account' \in Accounts /\ shown' \in Balances
  BY <1>1, <1>3, <1>4 DEF Execute
<1>6. /\ trades' = trades + 1 /\ pc' \in {"sell", "sellBalance"} /\ (pc' = "sell" => trades < MaxTrade)
      /\ UNCHANGED <<market, journal, memory, seen, data>>
  BY <1>1 DEF Execute
<1> QED BY <1>1, <1>5, <1>6, MoneyAssumption DEF Pc

\* The position and the rows that buy_done and sell_done write.
LEMMA RecordTyped == Typed /\ (BuyBalance \/ BuyRecord \/ SellBalance \/ SellRecord) => Typed'
<1> SUFFICES ASSUME Typed, BuyBalance \/ BuyRecord \/ SellBalance \/ SellRecord PROVE Typed'
  OBVIOUS
<1> USE DEF Typed
<1>1. CASE BuyBalance
  <2>1. PICK b \in Answers(Balance(account)) \cup {shown} :
          data' = [data EXCEPT
                     !.budget = b.usdt, !.coins = b.coins, !.count = @ + 1,
                     !.used = data.used + data.amount,
                     !.average = IF b.coins > 0
                                 THEN [used |-> data.used + data.amount, coins |-> b.coins]
                                 ELSE Zero]
    BY <1>1 DEF BuyBalance
  <2>2. b \in Balances
    BY BalanceTyped DEF Answers, Balances
  <2>3. pc = "buyBalance" /\ pc' = "buyRecord"
        /\ UNCHANGED <<market, account, shown, journal, memory, seen, trades>>
    BY <1>1 DEF BuyBalance
  <2> DEFINE used == data.used + data.amount
             average == IF b.coins > 0 THEN [used |-> used, coins |-> b.coins] ELSE Zero
  <2>4. used \in Nat
    BY <2>3 DEF Positions
  <2>5. average \in Averages
    BY <2>2, <2>4 DEF Averages, Zero, Balances
  <2>6. data' = [data EXCEPT !.budget = b.usdt, !.coins = b.coins, !.count = @ + 1,
                             !.used = used, !.average = average]
    BY <2>1
  <2> HIDE DEF used, average
  <2>7. data' \in Positions
    <3>1. data \in Positions
      BY <2>3
    <3>2. data' = [budget |-> b.usdt, coins |-> b.coins, amount |-> data.amount,
                   count |-> data.count + 1, used |-> used, average |-> average,
                   lastPrice |-> data.lastPrice, lastDir |-> data.lastDir,
                   lastTime |-> data.lastTime]
      BY <2>6, <3>1 DEF Positions
    <3>3. /\ data.amount \in Nat /\ data.count \in Nat /\ data.lastPrice \in Nat
          /\ data.lastDir \in Direction \cup {"NONE"} /\ data.lastTime \in Nat
          /\ b.usdt \in Nat /\ b.coins \in Nat
      BY <2>2, <3>1 DEF Positions, Balances
    <3> QED BY <2>4, <2>5, <3>2, <3>3 DEF Positions
  <2> QED BY <2>3, <2>7 DEF Pc
<1>2. CASE SellBalance
  <2>1. PICK b \in Answers(Balance(account)) \cup {shown} :
          data' = Position(NoRow, [usdt |-> b.usdt, coins |-> 0])
    BY <1>2 DEF SellBalance
  <2>2. [usdt |-> b.usdt, coins |-> 0] \in Balances
    BY BalanceTyped DEF Answers, Balances
  <2>3. data' \in Positions
    BY <2>1, <2>2, PositionTyped
  <2> QED BY <1>2, <2>3 DEF SellBalance, Pc
<1>3. CASE BuyRecord
  <2> DEFINE row == [time |-> seen.candle, dir |-> seen.dir, price |-> seen.price,
                     count |-> data.count, used |-> data.used, average |-> data.average]
  <2>1. /\ pc = "buyRecord" /\ pc' = "idle" /\ data' = NoData
        /\ journal' = [journal EXCEPT !.buy = row]
        /\ memory' = [his |-> seen.dir, monitor |-> seen.dir = "SHORT"]
        /\ UNCHANGED <<market, account, shown, trades>>
    BY <1>3 DEF BuyRecord, Finish, End
  <2>2. row \in Rows /\ row.time = seen.candle
    BY <2>1 DEF Rows, Markets, Positions
  <2> HIDE DEF row
  <2>3. journal' = [buy |-> row, sell |-> journal.sell]
    BY <2>1
  <2>4. seen.dir \in Direction
    BY <2>1 DEF Markets
  <2> QED BY <2>1, <2>2, <2>3, <2>4 DEF Pc
<1>4. CASE SellRecord
  <2>1. /\ pc = "sellRecord" /\ pc' = "idle" /\ data' = NoData
        /\ journal' = [journal EXCEPT !.sell = [time |-> seen.candle]]
        /\ memory' = [his |-> seen.dir, monitor |-> TRUE]
        /\ UNCHANGED <<market, account, shown, trades>>
    BY <1>4 DEF SellRecord, Finish, End
  <2>2. journal' = [buy |-> journal.buy, sell |-> [time |-> seen.candle]]
    BY <2>1
  <2>3. seen.dir \in Direction /\ seen.candle \in Nat
    BY <2>1 DEF Markets
  <2> QED BY <2>1, <2>2, <2>3 DEF Pc
<1> QED BY <1>1, <1>2, <1>3, <1>4

\* Every step.
LEMMA StepTyped == Typed /\ [Next]_vars => Typed'
<1> SUFFICES ASSUME Typed, [Next]_vars PROVE Typed'
  OBVIOUS
<1> USE DEF Typed
<1>1. CASE Withdraw
  <2>1. PICK left \in 0 .. account.usdt - 1 : account' = [account EXCEPT !.usdt = left]
    BY <1>1 DEF Withdraw
  <2>2. account' \in Accounts
    BY <2>1 DEF Accounts
  <2>3. shown' \in Balances
    BY <1>1, <2>2, BalanceTyped DEF Withdraw
  <2> QED BY <1>1, <2>2, <2>3 DEF Withdraw
<1>2. CASE ReadCandles
  <2>1. /\ pc = "idle" /\ pc' = "balance" /\ seen' = market /\ trades < MaxTrade
        /\ shown' = Balance(account)
        /\ UNCHANGED <<market, account, journal, memory, data, trades>>
    BY <1>2 DEF ReadCandles
  <2>2. market.candle \in Nat /\ shown' \in Balances
    BY <2>1, BalanceTyped DEF Markets
  <2> QED BY <2>1, <2>2, MoneyAssumption DEF Pc
<1>3. CASE Refuse
  BY <1>3 DEF Refuse, Escape, End, Pc
<1>4. CASE Crash
  <2>1. account' \in Accounts
    BY <1>4 DEF Crash, Accounts
  <2> QED BY <1>4, <2>1 DEF Crash, Fresh, Pc
<1>5. CASE UNCHANGED vars
  BY <1>5 DEF vars
<1> HIDE DEF Typed
<1> QED
  BY <1>1, <1>2, <1>3, <1>4, <1>5, MarketTyped, DecideTyped, BuyTyped, SellTyped, RecordTyped
  DEF Next, Run

\* The types, whatever goes wrong.
THEOREM TypeCorrect == Spec => []TypeOK
<1>1. Typed => TypeOK
  <2> SUFFICES ASSUME Typed PROVE TypeOK
    OBVIOUS
  <2> USE DEF Typed
  <2>1. /\ market.candle \in Nat /\ journal.buy.time \in Nat /\ journal.sell.time \in Nat
    BY DEF Markets, Rows, NoRow
  <2>2. data.amount \in Nat
    BY DEF NoData, Positions
  <2>3. pc # "idle" => seen.dir \in Direction
    BY DEF Markets
  <2> QED BY <2>1, <2>2, <2>3 DEF TypeOK, Markets, Accounts
<1> QED BY <1>1, InitTyped, StepTyped, PTL DEF Spec

-----------------------------------------------------------------------------
(* The books: the journal and the account.                                 *)

\* The row describes the position the account is in.
Holds(row) ==
    /\ row # NoRow
    /\ row.count = account.buys /\ Booked(row.used)
    /\ row.average = [used |-> row.used, coins |-> account.coins]
Described ==
    IF account.coins = 0
    THEN OpenRow(0) = NoRow /\ account.basis = 0 /\ account.buys = 0
    ELSE Holds(OpenRow(account.coins))

\* The journal describes the position except between an order and its row; there
\* what run() holds in memory does.
Books ==
    /\ shown = Balance(account)
    /\ pc \in {"idle", "balance", "buy", "sell"} => Described
    /\ pc = "buy" => /\ data.amount > 0 /\ data.amount <= Rounded(account.usdt)
                     /\ data.count = account.buys /\ Booked(data.used)
    /\ pc = "sell" => account.coins > 0
    /\ pc \in {"buyBalance", "buyRecord"} => account.coins > 0
    /\ pc = "buyBalance" => /\ data.count + 1 = account.buys
                            /\ Booked(data.used + data.amount)
    /\ pc = "buyRecord" => /\ data.count = account.buys /\ Booked(data.used)
                           /\ data.average = [used |-> data.used, coins |-> account.coins]
    /\ pc \in {"sellBalance", "sellRecord"} =>
          account.coins = 0 /\ account.basis = 0 /\ account.buys = 0

\* The position run() decides by, when the exchange shows the account.
Rebuilt == Position(OpenRow(account.coins), Balance(account))

\* Where the row describes the account, that position is the account's.
LEMMA RebuiltIsTheAccount ==
    ASSUME Typed, Described
    PROVE  /\ Rebuilt \in Positions
           /\ Rebuilt.budget = Rounded(account.usdt) /\ Rebuilt.coins = account.coins
           /\ Rebuilt.count = account.buys /\ Booked(Rebuilt.used)
           /\ account.coins > 0 =>
                Rebuilt.average = [used |-> Rebuilt.used, coins |-> account.coins]
<1> DEFINE row == OpenRow(account.coins)
           b == Balance(account)
<1>1. /\ b \in Balances /\ b.usdt = Rounded(account.usdt) /\ b.coins = account.coins
      /\ account.coins \in Nat /\ Grain \in Nat
  BY BalanceTyped, MoneyAssumption DEF Typed, Accounts
<1>2. row \in {NoRow} \cup Rows
  BY DEF OpenRow, Typed
<1> HIDE DEF row, b
<1>3. Position(row, b) \in Positions
  BY <1>1, <1>2, PositionTyped
<1>4. Rebuilt = Position(row, b)
  BY DEF Rebuilt, row, b
<1>5. CASE account.coins = 0
  <2>1. row = NoRow /\ account.basis = 0 /\ account.buys = 0
    BY <1>5 DEF Described, row
  <2> QED BY <1>1, <1>3, <1>4, <1>5, <2>1 DEF Position, Booked
<1>6. CASE account.coins # 0
  <2>1. Holds(row)
    BY <1>6 DEF Described, row
  <2> QED BY <1>1, <1>3, <1>4, <2>1 DEF Position, Holds
<1> QED BY <1>5, <1>6

\* What a decision by the account itself comes to.
LEMMA Choices ==
    ASSUME "blind" \notin Fault, Decide
    PROVE  \/ pc' = "idle"
           \/ /\ pc' = "sell"
              /\ Rebuilt.coins > 0 /\ Profitable(Rebuilt)
           \/ /\ pc' = "buy" /\ data' = [Rebuilt EXCEPT !.amount = Amount(Rebuilt)]
              /\ HasShare(Rebuilt) /\ Amount(Rebuilt) > 0
<1>1. PICK b \in Answers(Balance(account)) :
        LET d == Position(OpenRow(b.coins), b)
            m == memory.monitor /\ ~StopsMonitoring(b.coins)
        IN  IF seen.dir = "LONG" THEN Long(d, m) ELSE Short(d, m)
  BY DEF Decide
<1>2. b = Balance(account) /\ b.coins = account.coins
  BY DEF Answers, Balance
<1> DEFINE m == memory.monitor /\ ~StopsMonitoring(b.coins)
<1>3. IF seen.dir = "LONG" THEN Long(Rebuilt, m) ELSE Short(Rebuilt, m)
  BY <1>1, <1>2 DEF Rebuilt
<1> DEFINE d == Rebuilt
<1> HIDE DEF d, m
<1>4. IF seen.dir = "LONG" THEN Long(d, m) ELSE Short(d, m)
  BY <1>3 DEF d
<1> DEFINE Outcome == \/ pc' = "idle"
                      \/ pc' = "sell" /\ d.coins > 0 /\ Profitable(d)
                      \/ /\ pc' = "buy" /\ data' = [d EXCEPT !.amount = Amount(d)]
                         /\ HasShare(d) /\ Amount(d) > 0
<1>5. ASSUME NEW c, NEW e, TryBuy(d, c, e) PROVE Outcome
  BY <1>5 DEF TryBuy, Escape, Finish, End, Order
<1>6. ASSUME NEW e, Finish(e) PROVE Outcome
  BY <1>6 DEF Finish, End
<1>7. ASSUME d.coins > 0, Profitable(d), Order(d, "sell", m) PROVE Outcome
  BY <1>7 DEF Order
<1> SUFFICES Outcome
  BY DEF d
<1> HIDE DEF Outcome
<1>8. CASE seen.dir = "LONG"
  <2>1. CASE AlreadyBought
    BY <1>4, <1>6, <1>8, <2>1 DEF Long
  <2>2. CASE ~AlreadyBought
    <3>1. TryBuy(d, Cheap(d), m)
      BY <1>4, <1>8, <2>2 DEF Long
    <3> QED BY <3>1, <1>5
  <2> QED BY <2>1, <2>2
<1>9. CASE seen.dir # "LONG"
  <2>1. Short(d, m)
    BY <1>4, <1>9
  <2>2. \/ d.coins > 0 /\ Profitable(d) /\ Order(d, "sell", m)
        \/ TryBuy(d, TRUE, m)
        \/ Finish(TRUE)
    BY <2>1 DEF Short
  <2> QED BY <2>2, <1>5, <1>6, <1>7
<1> QED BY <1>8, <1>9

\* What an order spends: what it asks for, or all there is.
Spent == IF data.amount <= account.usdt THEN data.amount ELSE account.usdt

\* An order spends money and buys coins.
LEMMA Bought ==
    ASSUME Typed, ExecuteBuy, "lostAnswer" \notin Fault, "lag" \notin Fault,
           data.amount > 0
    PROVE  /\ pc = "buy" /\ pc' = "buyBalance" /\ shown' = Balance(account')
           /\ account.usdt > 0
           /\ account'.usdt = account.usdt - Spent
           /\ account'.basis = account.basis + Spent
           /\ account'.buys = account.buys + 1
           /\ account'.coins > account.coins
           /\ UNCHANGED <<market, journal, memory, seen, data>>
<1> DEFINE spent == IF data.amount <= account.usdt THEN data.amount ELSE account.usdt
           bought == (spent * Scale) \div market.price
           period == IF seen.dir = "LONG" THEN seen.first["LONG"] ELSE account.period
           inPeriod == IF seen.dir = "LONG" THEN Orders(account) ELSE account.inPeriod
           a == [account EXCEPT
                   !.usdt = account.usdt - spent, !.coins = account.coins + bought,
                   !.basis = account.basis + spent, !.buys = account.buys + 1,
                   !.period = period, !.inPeriod = inPeriod]
<1>1. pc = "buy" /\ Execute(a, "buyBalance") /\ account.usdt > 0
  BY DEF ExecuteBuy
<1>2. /\ data.amount \in Nat /\ account.coins \in Nat /\ account.usdt \in Nat
      /\ market.price \in Price /\ account \in Accounts
  BY <1>1 DEF Typed, Positions, Accounts, Markets
<1>3. spent = Spent /\ spent \in Nat \ {0}
  BY <1>1, <1>2 DEF Spent
<1>4. bought \in Nat \ {0}
  <2> DEFINE n == Spent * Scale
  <2>1. market.price \in Nat \ {0} /\ market.price <= Scale /\ Scale \in Nat
    BY <1>2, MoneyAssumption, CoinAssumption
  <2>2. n \in Nat /\ Scale <= n
    BY <1>3, <2>1, MulNat, MulLess
  <2> HIDE DEF n
  <2>3. market.price <= n
    BY <2>1, <2>2
  <2>4. n \div market.price \in Nat \ {0}
    BY <2>1, <2>2, <2>3, DivPos
  <2> QED BY <1>3, <2>4 DEF n
<1> HIDE DEF spent, bought, period, inPeriod
<1>5. /\ a.usdt = account.usdt - spent /\ a.coins = account.coins + bought
      /\ a.basis = account.basis + spent /\ a.buys = account.buys + 1
  BY <1>2 DEF Accounts
<1> HIDE DEF a
<1>6. /\ account' = a /\ pc' = "buyBalance" /\ shown' = Balance(a)
      /\ UNCHANGED <<market, journal, memory, seen, data>>
  BY <1>1 DEF Execute
<1>7. a.coins > account.coins
  BY <1>2, <1>4, <1>5
<1> QED BY <1>1, <1>3, <1>5, <1>6, <1>7

\* A sale leaves no coins, and nothing spent on them.
LEMMA Sold ==
    ASSUME Typed, ExecuteSell, "lostAnswer" \notin Fault, "lag" \notin Fault
    PROVE  /\ pc = "sell" /\ pc' = "sellBalance" /\ shown' = Balance(account')
           /\ account'.coins = 0 /\ account'.basis = 0 /\ account'.buys = 0
           /\ UNCHANGED <<market, journal, memory, seen, data>>
<1> DEFINE a == [account EXCEPT
                   !.usdt = account.usdt + (account.coins * market.price) \div Scale,
                   !.coins = 0, !.basis = 0, !.buys = 0]
<1>1. pc = "sell" /\ Execute(a, "sellBalance")
  BY DEF ExecuteSell
<1>2. a.coins = 0 /\ a.basis = 0 /\ a.buys = 0
  BY DEF Typed, Accounts
<1> HIDE DEF a
<1> QED BY <1>1, <1>2 DEF Execute

\* A decision changes neither the account nor the rows; an order is for money there is.
LEMMA DecideBooks ==
    ASSUME Typed, Books, Decide, "blind" \notin Fault
    PROVE  Books'
<1>1. UNCHANGED <<account, shown, journal>> /\ pc = "balance"
  BY DEF Decide
<1>2. Described /\ shown = Balance(account)
  BY <1>1 DEF Books
<1>3. Described' /\ shown' = Balance(account')
  BY <1>1, <1>2 DEF Described, OpenRow, Holds, Booked, Balance
<1>4. CASE pc' = "idle"
  BY <1>3, <1>4 DEF Books
<1>5. CASE pc' = "sell" /\ Rebuilt.coins > 0
  <2>1. account'.coins > 0
    BY <1>1, <1>2, <1>5, RebuiltIsTheAccount
  <2> QED BY <1>3, <1>5, <2>1 DEF Books
<1>6. CASE /\ pc' = "buy" /\ data' = [Rebuilt EXCEPT !.amount = Amount(Rebuilt)]
           /\ HasShare(Rebuilt) /\ Amount(Rebuilt) > 0
  <2> DEFINE d == Rebuilt
             n == Amount(d)
  <2>1. /\ d \in Positions /\ d.budget = Rounded(account.usdt)
        /\ d.count = account.buys /\ Booked(d.used)
    BY <1>2, RebuiltIsTheAccount
  <2> HIDE DEF d
  <2>2. n <= d.budget
    BY <1>6, <2>1, ShareNat DEF Amount, Positions, d
  <2> HIDE DEF n
  <2>3. data' = [d EXCEPT !.amount = n] /\ n > 0
    BY <1>6 DEF d, n
  <2>4. data'.amount = n /\ data'.count = d.count /\ data'.used = d.used
    BY <2>1, <2>3 DEF Positions
  <2>5. data'.amount <= Rounded(account'.usdt) /\ Booked(data.used)'
    BY <1>1, <2>1, <2>2, <2>4 DEF Booked
  <2> QED BY <1>1, <1>3, <1>6, <2>1, <2>3, <2>4, <2>5 DEF Books
<1> QED BY <1>4, <1>5, <1>6, Choices

\* Between a buy and its row, memory is one order behind the account.
LEMMA BuyBooks ==
    ASSUME Typed, Books, ExecuteBuy, "lostAnswer" \notin Fault, "lag" \notin Fault
    PROVE  Books'
<1>1. pc = "buy" /\ data \in Positions /\ account \in Accounts
  BY DEF ExecuteBuy, Typed
<1>2. /\ data.amount > 0 /\ data.amount <= Rounded(account.usdt)
      /\ data.count = account.buys /\ Booked(data.used)
  BY <1>1 DEF Books
<1>3. /\ pc' = "buyBalance" /\ shown' = Balance(account') /\ account.usdt > 0
      /\ account'.usdt = account.usdt - Spent
      /\ account'.basis = account.basis + Spent /\ account'.buys = account.buys + 1
      /\ account'.coins > account.coins /\ data' = data
  BY <1>2, Bought
<1>4. /\ account.coins \in Nat /\ account.usdt \in Nat /\ account.basis \in Nat
      /\ data.used \in Nat /\ data.amount \in Nat
  BY <1>1 DEF Accounts, Positions
<1>5. account'.coins > 0
  BY <1>3, <1>4, StepTyped DEF Next, Run, Typed, Accounts
<1>6. Booked(data.used + data.amount)'
  <2>1. account.basis <= data.used /\ (data.used > account.basis => account.usdt = 0)
    BY <1>2 DEF Booked
  <2>2. Spent = IF data.amount <= account.usdt THEN data.amount ELSE account.usdt
    BY DEF Spent
  <2>3. /\ account.basis + Spent <= data.used + data.amount
        /\ 2 * ((data.used + data.amount) - (account.basis + Spent)) <= Grain
        /\ data.used + data.amount > account.basis + Spent => account.usdt - Spent = 0
    <3> DEFINE whole == Rounded(account.usdt)
    <3>1. whole \in Nat /\ 2 * whole <= 2 * account.usdt + Grain /\ data.amount <= whole
      BY <1>2, <1>4, RoundedNear
    <3>2. data.used = account.basis /\ Grain \in Nat
      BY <1>3, <1>4, <2>1, MoneyAssumption
    <3> HIDE DEF whole
    <3>3. CASE data.amount <= account.usdt
      BY <1>4, <2>2, <3>2, <3>3
    <3>4. CASE data.amount > account.usdt
      BY <1>4, <2>2, <3>1, <3>2, <3>4
    <3> QED BY <1>4, <3>3, <3>4
  <2> DEFINE booked == data.used + data.amount
  <2>4. /\ account'.basis = account.basis + Spent /\ account'.usdt = account.usdt - Spent
        /\ (data.used + data.amount)' = booked
    BY <1>3
  <2>5. /\ account'.basis <= booked /\ 2 * (booked - account'.basis) <= Grain
        /\ booked > account'.basis => account'.usdt = 0
    BY <2>3, <2>4
  <2> HIDE DEF booked
  <2> QED BY <2>4, <2>5 DEF Booked
<1> QED BY <1>2, <1>3, <1>5, <1>6 DEF Books

\* Between a sale and its row there is nothing to describe.
LEMMA SellBooks ==
    ASSUME Typed, Books, ExecuteSell, "lostAnswer" \notin Fault, "lag" \notin Fault
    PROVE  Books'
<1>1. /\ pc' = "sellBalance" /\ shown' = Balance(account')
      /\ account'.coins = 0 /\ account'.basis = 0 /\ account'.buys = 0
  BY Sold
<1> QED BY <1>1 DEF Books

\* The balance read after an order is the account's, and what run() makes of it
\* is what the row then says.
LEMMA BuyBalanceBooks ==
    ASSUME Typed, Books, BuyBalance, "blind" \notin Fault
    PROVE  Books'
<1>1. /\ pc = "buyBalance" /\ pc' = "buyRecord"
      /\ UNCHANGED <<market, account, shown, journal, memory, seen, trades>>
  BY DEF BuyBalance
<1>2. /\ account.coins > 0 /\ data.count + 1 = account.buys
      /\ Booked(data.used + data.amount) /\ shown = Balance(account)
  BY <1>1 DEF Books
<1>3. PICK b \in Answers(Balance(account)) \cup {shown} :
        data' = [data EXCEPT
                   !.budget = b.usdt, !.coins = b.coins, !.count = @ + 1,
                   !.used = data.used + data.amount,
                   !.average = IF b.coins > 0
                               THEN [used |-> data.used + data.amount, coins |-> b.coins]
                               ELSE Zero]
  BY DEF BuyBalance
<1>4. b.coins = account.coins
  BY <1>2 DEF Answers, Balance
<1> DEFINE used == data.used + data.amount
           average == [used |-> used, coins |-> account.coins]
           count == account.buys
<1>5. data' = [data EXCEPT !.budget = b.usdt, !.coins = b.coins, !.count = count,
                           !.used = used, !.average = average]
  BY <1>2, <1>3, <1>4
<1>6. data \in Positions
  BY <1>1 DEF Typed
<1> HIDE DEF average, used, count
<1>7. data'.count = count /\ data'.used = used /\ data'.average = average
  BY <1>5, <1>6 DEF Positions
<1>8. /\ data'.used = data.used + data.amount
      /\ data'.average = [used |-> data'.used, coins |-> account.coins]
  BY <1>7 DEF average, used
<1>9. Booked(data.used)'
  BY <1>1, <1>2, <1>8 DEF Booked
<1> QED BY <1>1, <1>2, <1>7, <1>8, <1>9 DEF Books, count, Balance

\* The row of a buy is the last one, and describes the account.
LEMMA BuyRecordBooks ==
    ASSUME Typed, Books, BuyRecord
    PROVE  Books'
<1> DEFINE row == [time |-> seen.candle, dir |-> seen.dir, price |-> seen.price,
                   count |-> data.count, used |-> data.used, average |-> data.average]
<1>1. /\ pc = "buyRecord" /\ pc' = "idle" /\ UNCHANGED <<account, shown>>
      /\ journal' = [journal EXCEPT !.buy = row]
  BY DEF BuyRecord, Finish, End
<1>2. journal'.buy = row /\ journal'.sell = journal.sell
  BY <1>1 DEF Typed
<1>3. /\ account.coins > 0 /\ data.count = account.buys /\ Booked(data.used)
      /\ data.average = [used |-> data.used, coins |-> account.coins]
      /\ shown = Balance(account)
  BY <1>1 DEF Books
<1>4. /\ row.time > 0 /\ row.time >= journal.sell.time
      /\ row.count = account.buys /\ Booked(row.used)
      /\ row.average = [used |-> row.used, coins |-> account.coins]
  BY <1>1, <1>3 DEF Typed, Markets
<1> HIDE DEF row
<1>5. row # NoRow
  BY <1>4 DEF NoRow
<1>6. OpenRow(account.coins)' = row
  BY <1>1, <1>2, <1>3, <1>4 DEF OpenRow
<1>7. Described'
  <2>1. Described' = IF account'.coins = 0
                     THEN OpenRow(0)' = NoRow /\ account'.basis = 0 /\ account'.buys = 0
                     ELSE Holds(OpenRow(account.coins))'
    BY DEF Described, NoRow
  <2>2. Holds(OpenRow(account.coins))'
    BY <1>1, <1>4, <1>5, <1>6 DEF Holds, Booked, NoRow
  <2> QED BY <1>1, <1>3, <2>1, <2>2
<1> QED BY <1>1, <1>3, <1>7 DEF Books, Balance

\* The row of a sale closes the row of the buys.
LEMMA SellRecordBooks ==
    ASSUME Typed, Books, SellRecord
    PROVE  Books'
<1>1. /\ pc = "sellRecord" /\ pc' = "idle" /\ UNCHANGED <<account, shown>>
      /\ journal' = [journal EXCEPT !.sell = [time |-> seen.candle]]
  BY DEF SellRecord, Finish, End
<1>2. journal'.sell.time = seen.candle /\ seen.candle > 0
  BY <1>1 DEF Typed
<1>3. account.coins = 0 /\ account.basis = 0 /\ account.buys = 0 /\ shown = Balance(account)
  BY <1>1 DEF Books
<1>4. journal'.sell # NoRow
  BY <1>2 DEF NoRow
<1>5. OpenRow(0)' = NoRow
  BY <1>4 DEF OpenRow, NoRow
<1>6. Described'
  BY <1>1, <1>3, <1>5 DEF Described
<1> QED BY <1>1, <1>3, <1>6 DEF Books, Balance

\* As long as answers come, balances are the account's, and the process dies only
\* where the journal is complete, the books describe the account.
LEMMA StepBooks ==
    ASSUME Fault \cap {"crashInTrade", "lostAnswer", "lag", "blind"} = {},
           Typed, Books, [Next]_vars
    PROVE  Books'
<1>1. /\ "crashInTrade" \notin Fault /\ "lostAnswer" \notin Fault
      /\ "lag" \notin Fault /\ "blind" \notin Fault
  OBVIOUS
<1>2. CASE MarketMoves \/ UNCHANGED vars
  <2>1. UNCHANGED <<account, shown, journal, pc, data>>
    BY <1>2 DEF MarketMoves, vars
  <2> QED BY <2>1 DEF Books, Described, OpenRow, Holds, Booked, Balance
<1>3. CASE Withdraw
  <2>1. PICK left \in 0 .. account.usdt - 1 : account' = [account EXCEPT !.usdt = left]
    BY <1>3 DEF Withdraw
  <2>2. /\ pc = "idle" /\ shown' = Balance(account)' /\ UNCHANGED <<journal, pc, data>>
    BY <1>3 DEF Withdraw, Balance
  <2>3. account'.coins = account.coins /\ account'.basis = account.basis /\ account'.buys = account.buys
    BY <2>1 DEF Typed, Accounts
  <2>4. account.usdt \in Nat /\ account.usdt # 0
    BY <2>1 DEF Typed, Accounts
  <2>5. Described
    BY <2>2 DEF Books
  <2>6. account.coins # 0 => Booked(OpenRow(account.coins).used)'
    BY <2>2, <2>3, <2>4, <2>5 DEF Described, Holds, Booked, OpenRow
  <2>7. Described'
    BY <2>2, <2>3, <2>5, <2>6 DEF Described, OpenRow, Holds
  <2> QED BY <2>2, <2>7 DEF Books
<1>4. CASE ReadCandles
  <2>1. /\ pc = "idle" /\ pc' = "balance" /\ shown' = Balance(account)
        /\ UNCHANGED <<account, journal, data>>
    BY <1>4 DEF ReadCandles
  <2> QED BY <2>1 DEF Books, Described, OpenRow, Holds, Booked, Balance
<1>5. CASE Decide
  BY <1>1, <1>5, DecideBooks
<1>6. CASE ExecuteBuy
  BY <1>1, <1>6, BuyBooks
<1>7. CASE ExecuteSell
  BY <1>1, <1>7, SellBooks
<1>8. CASE Refuse \/ Crash
  <2>1. /\ pc \in {"idle", "balance", "buy", "sell"} /\ pc' = "idle"
        /\ UNCHANGED <<account, shown, journal>>
    BY <1>1, <1>8 DEF Refuse, Escape, End, Crash, InTrade, Typed, Pc
  <2> QED BY <2>1 DEF Books, Described, OpenRow, Holds, Booked, Balance
<1>9. CASE BuyBalance
  BY <1>1, <1>9, BuyBalanceBooks
<1>10. CASE BuyRecord
  BY <1>10, BuyRecordBooks
<1>11. CASE SellBalance
  <2>1. /\ pc = "sellBalance" /\ pc' = "sellRecord" /\ UNCHANGED <<account, shown, journal>>
    BY <1>11 DEF SellBalance
  <2> QED BY <2>1 DEF Books, Balance
<1>12. CASE SellRecord
  BY <1>12, SellRecordBooks
<1> QED
  BY <1>2, <1>3, <1>4, <1>5, <1>6, <1>7, <1>8, <1>9, <1>10, <1>11, <1>12 DEF Next, Run

\* No coins, no rows.
LEMMA InitBooks == Init => Books
  BY DEF Init, Books, Described, OpenRow, Balance, NoRow

-----------------------------------------------------------------------------
(* The pyramid is paid for.                                                *)

\* What has been spent in that many buys leaves enough for the rest of the plan, up
\* to half a Grain.
Pays(used, buys, usdt) ==
    /\ 2 * (used - buys * Base) * (MaxCount * (MaxCount - 1))
         <= (2 * (usdt + used - MaxCount * Base) + Grain) * (buys * (buys - 1))
    /\ used = 0 \/ usdt > 0

\* With `usdt' left, shown as `budget', and `spent' in i buys, the next share is
\* affordable up to half a Grain; any but the last leaves at least its own Base, and
\* after it the plan still pays.
LEMMA NextShare ==
    ASSUME MaxCount > 1,
           NEW spent \in Nat, NEW usdt \in Nat, NEW budget \in Nat,
           2 * budget <= 2 * usdt + Grain,
           NEW i \in Nat, i < MaxCount, budget + spent - MaxCount * Base > 0,
           NEW q \in Nat,
           (MaxCount * (MaxCount - 1)) * q <= i * 2 * (budget + spent - MaxCount * Base),
           2 * (spent - i * Base) * (MaxCount * (MaxCount - 1))
             <= (2 * (usdt + spent - MaxCount * Base) + Grain) * (i * (i - 1))
    PROVE  /\ 2 * (Base + q) <= 2 * usdt + Grain
           /\ i < MaxCount - 1 => 2 * (Base + q) + 2 * Base <= 2 * usdt + Grain
           /\ 2 * (spent + Base + q - (i + 1) * Base) * (MaxCount * (MaxCount - 1))
                <= (2 * (usdt + spent - MaxCount * Base) + Grain) * ((i + 1) * i)
<1>0. MaxCount \in Nat /\ Base \in Nat \ {0} /\ Grain \in Nat
  BY MoneyAssumption
<1> DEFINE P == MaxCount * (MaxCount - 1)
           Q == i * (i - 1)
           R == (i + 1) * i
           k == MaxCount - 1 - i
           m == MaxCount * Base
           t == i * Base
           D == budget + spent - m
           E == 2 * (usdt + spent - m) + Grain
<1>1. P \in Nat \ {0} /\ Q \in Nat /\ R \in Nat /\ k \in Nat /\ m \in Nat /\ t \in Nat
  BY <1>0
<1>2. R = Q + 2 * i /\ R <= P
  BY <1>0
<1>3. D \in Nat \ {0} /\ E \in Nat /\ 2 * D <= E
  <2>1. budget + spent - m > 0
    BY <1>0
  <2> HIDE DEF m
  <2> QED BY <1>0, <1>1, <2>1
<1>4. m = t + Base + k * Base /\ k * Base \in Nat /\ (k > 0 => k * Base >= Base)
  BY <1>0
<1>5. (i + 1) * Base = t + Base
  BY <1>0
<1>6. P * q \in Nat /\ P * q <= i * 2 * D /\ 2 * (spent - t) * P <= E * Q
  BY <1>0
<1>7. 2 * (P * q) <= E * (2 * i)
  <2>1. 2 * (i * 2 * D) = (2 * i) * (2 * D)
    BY <1>0
  <2>2. (2 * i) * (2 * D) <= (2 * i) * E
    <3> DEFINE a == 2 * D
               b == 2 * i
    <3>1. a \in Nat /\ b \in Nat /\ a <= E
      BY <1>0, <1>3
    <3> HIDE DEF a, b, E
    <3> QED BY <1>0, <1>3, <3>1
  <2>3. (2 * i) * E = E * (2 * i)
    <3> HIDE DEF E
    <3> QED BY <1>0, <1>3
  <2> HIDE DEF P, E
  <2> QED BY <1>0, <1>3, <1>6, <2>1, <2>2, <2>3
<1>8. E * R = E * Q + E * (2 * i)
  <2> HIDE DEF E, Q, R
  <2> QED BY <1>0, <1>1, <1>2, <1>3
<1>9. 2 * (spent + q - t) * P <= E * R
  <2>1. 2 * (spent + q - t) * P = 2 * (spent - t) * P + 2 * (P * q)
    <3> HIDE DEF P, t
    <3> QED BY <1>0, <1>1
  <2>2. E * Q \in Int /\ E * (2 * i) \in Int /\ 2 * (spent - t) * P \in Int
    <3> HIDE DEF P, t, E, Q
    <3> QED BY <1>0, <1>1, <1>3
  <2> HIDE DEF P, t, E, Q, R
  <2> QED BY <1>0, <1>6, <1>7, <1>8, <2>1, <2>2
<1>10. 2 * (spent + q - t) <= E
  <2> DEFINE x == 2 * (spent + q - t)
  <2>1. x \in Int /\ x * P <= E * R
    <3> HIDE DEF P, t, E, R
    <3> QED BY <1>0, <1>1, <1>9
  <2>2. E * R <= E * P
    <3> HIDE DEF E, R, P
    <3> QED BY <1>0, <1>1, <1>2, <1>3
  <2> HIDE DEF x, E, P, R
  <2>3. E * R \in Int /\ E * P \in Int /\ x * P \in Int
    BY <1>0, <1>1, <1>3, <2>1
  <2>4. x * P <= E * P
    BY <2>1, <2>2, <2>3
  <2>5. x <= E
    BY <1>0, <1>1, <1>3, <2>1, <2>4
  <2> QED BY <2>5 DEF x
<1>11. /\ 2 * (Base + q) + 2 * (k * Base) <= 2 * usdt + Grain
  <2> DEFINE c == k * Base
  <2>1. m = t + Base + c /\ c \in Nat
    BY <1>4
  <2> HIDE DEF c, m, t
  <2>2. 2 * (Base + q) + 2 * c <= 2 * usdt + Grain
    BY <1>0, <1>1, <1>10, <2>1
  <2> QED BY <2>2 DEF c
<1>12. 2 * (Base + q) <= 2 * usdt + Grain /\ (i < MaxCount - 1 => 2 * (Base + q) + 2 * Base <= 2 * usdt + Grain)
  <2> DEFINE c == k * Base
  <2>1. c \in Nat /\ (i < MaxCount - 1 => c >= Base)
    BY <1>0, <1>1, <1>4
  <2>2. 2 * (Base + q) + 2 * c <= 2 * usdt + Grain
    BY <1>0, <1>11
  <2> HIDE DEF c
  <2> QED BY <1>0, <2>1, <2>2
<1>13. spent + Base + q - (i + 1) * Base = spent + q - t
  <2> HIDE DEF t
  <2> QED BY <1>0, <1>1, <1>5
<1> QED BY <1>0, <1>9, <1>12, <1>13

\* What run() orders next is what the plan makes of the money it sees.
Plan ==
    /\ account.buys < MaxCount => Pays(account.basis, account.buys, account.usdt)
    /\ pc = "buy" => /\ HasShare(data) /\ data.amount = Amount(data)
                     /\ data.budget = Rounded(account.usdt)

\* A position the plan has paid for so far can pay for the next share.
LEMMA Affordable ==
    ASSUME NEW d \in Positions, NEW usdt \in Nat, d.budget = Rounded(usdt),
           HasShare(d), Pays(d.used, d.count, usdt), Base > 11 * Grain
    PROVE  /\ d.count < MaxCount - 1 =>
                /\ Amount(d) = Share(d) /\ Share(d) < usdt
                /\ Pays(d.used + Share(d), d.count + 1, usdt - Share(d))
           /\ Amount(d) > 0 /\ Share(d) - Amount(d) <= Grain
           /\ 2 * (Amount(d) - usdt) <= Grain
<1> DEFINE D == d.budget + d.used - MaxCount * Base
           P == MaxCount * (MaxCount - 1)
           n == d.count * 2 * D
           q == n \div P
<1>1. /\ MaxCount \in Nat /\ MaxCount > 1 /\ Base \in Nat \ {0} /\ Grain \in Nat \ {0}
      /\ d.count < MaxCount
  BY MoneyAssumption DEF HasShare
<1>2. d.count \in Nat /\ d.used \in Nat /\ d.budget \in Nat
  BY DEF Positions
<1>3. D \in Nat \ {0}
  <2>1. Base * MaxCount < d.used + d.budget
    BY DEF HasShare
  <2> QED BY <1>1, <1>2, <2>1
<1>4. P \in Nat \ {0}
  BY <1>1
<1>5. n \in Nat
  <2> HIDE DEF D
  <2> QED BY <1>2, <1>3
<1>6. q \in Nat /\ P * q <= n
  <2> HIDE DEF n, P
  <2> QED BY <1>4, <1>5, DivNat
<1>7. Share(d) = Base + q
  <2>1. d.used + d.budget - MaxCount * Base = D
    BY <1>1, <1>2
  <2>2. Share(d) = Base + ((d.count * 2 * (d.used + d.budget - MaxCount * Base)) \div P)
    BY DEF Share
  <2> HIDE DEF D, P
  <2> QED BY <2>1, <2>2
<1>8. /\ 2 * (d.used - d.count * Base) * P
           <= (2 * (usdt + d.used - MaxCount * Base) + Grain) * (d.count * (d.count - 1))
  BY DEF Pays
<1>9. 2 * d.budget <= 2 * usdt + Grain /\ 2 * usdt <= 2 * d.budget + Grain
  BY RoundedNear
<1> HIDE DEF q
<1>10. /\ 2 * (Base + q) <= 2 * usdt + Grain
       /\ d.count < MaxCount - 1 => 2 * (Base + q) + 2 * Base <= 2 * usdt + Grain
       /\ 2 * (d.used + Base + q - (d.count + 1) * Base) * P
            <= (2 * (usdt + d.used - MaxCount * Base) + Grain) * ((d.count + 1) * d.count)
  <2> DEFINE spent == d.used
             budget == d.budget
             i == d.count
  <2>1. /\ MaxCount > 1 /\ i < MaxCount /\ 2 * budget <= 2 * usdt + Grain
        /\ spent \in Nat /\ budget \in Nat /\ i \in Nat /\ q \in Nat
    BY <1>1, <1>2, <1>6, <1>9
  <2>2. budget + spent - MaxCount * Base > 0
    BY <1>3
  <2>3. (MaxCount * (MaxCount - 1)) * q <= i * 2 * (budget + spent - MaxCount * Base)
    BY <1>6
  <2>4. 2 * (spent - i * Base) * (MaxCount * (MaxCount - 1))
          <= (2 * (usdt + spent - MaxCount * Base) + Grain) * (i * (i - 1))
    BY <1>8
  <2> HIDE DEF spent, budget, i
  <2>5. /\ 2 * (Base + q) <= 2 * usdt + Grain
        /\ i < MaxCount - 1 => 2 * (Base + q) + 2 * Base <= 2 * usdt + Grain
        /\ 2 * (spent + Base + q - (i + 1) * Base) * (MaxCount * (MaxCount - 1))
             <= (2 * (usdt + spent - MaxCount * Base) + Grain) * ((i + 1) * i)
    BY <2>1, <2>2, <2>3, <2>4, NextShare
  <2> QED BY <2>5 DEF spent, budget, i
<1>11. /\ Amount(d) > 0 /\ Share(d) - Amount(d) <= Grain /\ 2 * (Amount(d) - usdt) <= Grain
  <2> DEFINE s == Share(d)
             b == d.budget
  <2>1. s = Base + q /\ 2 * s <= 2 * usdt + Grain
    BY <1>7, <1>10
  <2> HIDE DEF s, b
  <2>2. b > 10 * Grain /\ s - b <= Grain
    BY <1>1, <1>2, <1>6, <1>9, <2>1 DEF b
  <2>3. Amount(d) = IF b > s THEN s ELSE b
    BY <1>2, <1>1, <2>2 DEF Amount, s, b
  <2>4. CASE b > s
    BY <1>1, <1>2, <1>6, <2>1, <2>3, <2>4 DEF b, s
  <2>5. CASE ~(b > s)
    BY <1>1, <1>2, <1>6, <1>9, <2>1, <2>2, <2>3, <2>5 DEF b, s
  <2> QED BY <2>4, <2>5
<1>12. ASSUME d.count < MaxCount - 1
       PROVE  /\ Amount(d) = Share(d) /\ Share(d) < usdt
              /\ Pays(d.used + Share(d), d.count + 1, usdt - Share(d))
  <2> DEFINE s == Share(d)
             c == (d.count + 1) * Base
             t == MaxCount * Base
  <2>1. s = Base + q /\ c \in Nat /\ t \in Nat
    BY <1>1, <1>2, <1>7
  <2>2. 2 * s + 2 * Base <= 2 * usdt + Grain
    BY <1>7, <1>10, <1>12
  <2> HIDE DEF s, c, t, D, P
  <2>3. s < usdt /\ s < d.budget /\ s \in Nat
    BY <1>1, <1>2, <1>6, <1>9, <2>1, <2>2
  <2>4. Amount(d) = s
    BY <1>2, <2>3 DEF Amount, s
  <2>5. /\ d.used + s - c = d.used + Base + q - c
        /\ usdt - s + (d.used + s) - t = usdt + d.used - t
        /\ (d.count + 1) - 1 = d.count
    BY <1>1, <1>2, <1>6, <2>1
  <2>6. 2 * (d.used + s - c) * P
          <= (2 * (usdt - s + (d.used + s) - t) + Grain)
               * ((d.count + 1) * ((d.count + 1) - 1))
    BY <1>10, <2>5 DEF c, t
  <2>7. usdt - s > 0
    BY <2>3
  <2>8. Pays(d.used + s, d.count + 1, usdt - s)
    BY <1>1, <1>2, <1>6, <2>1, <2>6, <2>7 DEF Pays, c, t, P
  <2> QED BY <2>3, <2>4, <2>8 DEF s
<1> QED BY <1>11, <1>12

\* While the plan has a share to order, every order was spent in full.
LEMMA SpentInFull ==
    ASSUME NEW d \in Positions, HasShare(d), d.budget = Rounded(account.usdt),
           account \in Accounts, Booked(d.used), Base > 11 * Grain,
           Pays(account.basis, account.buys, account.usdt)
    PROVE  d.used = account.basis
<1>1. /\ account.usdt \in Nat /\ account.basis \in Nat /\ d.used \in Nat
      /\ Base \in Nat \ {0} /\ Grain \in Nat \ {0} /\ MaxCount \in Nat
  BY MoneyAssumption DEF Accounts, Positions
<1> SUFFICES ASSUME d.used > account.basis PROVE FALSE
  BY <1>1 DEF Booked
<1>2. account.usdt = 0 /\ 2 * (d.used - account.basis) <= Grain
  BY DEF Booked
<1>3. account.basis = 0 /\ d.budget = 0
  BY <1>1, <1>2, RoundedNear DEF Pays
<1>4. Base * MaxCount < d.used /\ MaxCount > 1
  BY <1>1, <1>3 DEF HasShare
<1>5. Base <= Base * MaxCount
  BY <1>1, <1>4
<1> QED BY <1>1, <1>2, <1>3, <1>4, <1>5

\* What is ordered is what the account's position asks for.
LEMMA DecidePlan ==
    ASSUME Typed, Books, Plan, Decide, "blind" \notin Fault
    PROVE  Plan'
<1>1. UNCHANGED account /\ pc = "balance"
  BY DEF Decide
<1>2. (account.buys < MaxCount => Pays(account.basis, account.buys, account.usdt))'
  BY <1>1 DEF Plan, Pays
<1>3. CASE pc' # "buy"
  BY <1>2, <1>3 DEF Plan
<1>4. CASE pc' = "buy"
  <2> DEFINE d == Rebuilt
             n == Amount(d)
  <2>1. HasShare(d) /\ data' = [d EXCEPT !.amount = n]
    BY <1>4, Choices
  <2>2. Described
    BY <1>1 DEF Books
  <2>3. d \in Positions /\ d.budget = Rounded(account.usdt)
    BY <2>2, RebuiltIsTheAccount
  <2> HIDE DEF d
  <2> HIDE DEF n
  <2>4. data'.amount = n /\ data'.count = d.count /\ data'.used = d.used /\ data'.budget = d.budget
    BY <2>1, <2>3 DEF Positions
  <2>5. HasShare(data)' /\ Share(data)' = Share(d)
    BY <2>1, <2>4 DEF HasShare, Share
  <2>6. Amount(data)' = n
    BY <2>4, <2>5 DEF Amount, n
  <2>7. data'.budget = Rounded(account'.usdt)
    BY <1>1, <2>3, <2>4
  <2> QED BY <1>2, <2>4, <2>5, <2>6, <2>7 DEF Plan
<1> QED BY <1>3, <1>4

\* A buy of any share but the last is spent in full, and the plan still pays.
LEMMA BuyPlan ==
    ASSUME Typed, Books, Plan, ExecuteBuy, Base > 11 * Grain,
           "lostAnswer" \notin Fault, "lag" \notin Fault
    PROVE  Plan'
<1>1. pc = "buy" /\ data \in Positions /\ account \in Accounts
  BY DEF ExecuteBuy, Typed
<1>2. /\ account.usdt \in Nat /\ account.basis \in Nat /\ account.buys \in Nat
      /\ MaxCount \in Nat
  BY <1>1, MoneyAssumption DEF Accounts
<1>3. /\ data.amount > 0 /\ data.count = account.buys /\ Booked(data.used)
      /\ HasShare(data) /\ data.amount = Amount(data) /\ data.budget = Rounded(account.usdt)
  BY <1>1 DEF Books, Plan
<1>4. Pays(account.basis, account.buys, account.usdt)
  BY <1>3 DEF Plan, HasShare
<1>5. data.used = account.basis
  BY <1>1, <1>3, <1>4, SpentInFull
<1>6. /\ pc' = "buyBalance" /\ account'.usdt = account.usdt - Spent
      /\ account'.basis = account.basis + Spent
      /\ account'.buys = account.buys + 1
  BY <1>3, Bought
<1>7. ASSUME account'.buys < MaxCount
      PROVE  Pays(account'.basis, account'.buys, account'.usdt)
  <2>1. data.count < MaxCount - 1
    BY <1>2, <1>3, <1>6, <1>7
  <2>2. /\ Amount(data) = Share(data) /\ Share(data) < account.usdt
        /\ Pays(data.used + Share(data), data.count + 1, account.usdt - Share(data))
    BY <1>1, <1>2, <1>3, <1>4, <1>5, <2>1, Affordable
  <2>3. Spent = Share(data)
    BY <1>1, <1>2, <1>3, <2>2 DEF Spent, Positions
  <2> QED BY <1>3, <1>5, <1>6, <2>2, <2>3
<1> QED BY <1>6, <1>7 DEF Plan, Pays

\* As long, too, as nobody takes money away, the plan pays for its shares.
LEMMA StepPlan ==
    ASSUME Fault \cap {"crashInTrade", "lostAnswer", "lag", "blind", "withdraw"} = {},
           Typed, Typed', Books, Plan, [Next]_vars, Base > 11 * Grain
    PROVE  Plan'
<1>1. /\ "crashInTrade" \notin Fault /\ "lostAnswer" \notin Fault /\ "lag" \notin Fault
      /\ "blind" \notin Fault /\ "withdraw" \notin Fault
  OBVIOUS
<1>2. ASSUME UNCHANGED account, pc' # "buy" \/ (pc' = pc /\ data' = data) PROVE Plan'
  BY <1>2 DEF Plan, Pays, HasShare, Share, Amount
<1>3. CASE MarketMoves \/ ReadCandles \/ UNCHANGED vars
  BY <1>2, <1>3 DEF MarketMoves, ReadCandles, vars
<1>4. CASE Withdraw
  BY <1>1, <1>4 DEF Withdraw
<1>5. CASE Decide
  BY <1>1, <1>5, DecidePlan
<1>6. CASE ExecuteBuy
  BY <1>1, <1>6, BuyPlan
<1>7. CASE ExecuteSell
  <2>1. pc' = "sellBalance" /\ account'.basis = 0 /\ account'.buys = 0
    BY <1>1, <1>7, Sold
  <2>2. account'.usdt \in Nat /\ MaxCount \in Nat /\ Base \in Nat /\ Grain \in Nat
    BY MoneyAssumption DEF Typed, Accounts
  <2>3. Pays(0, 0, account'.usdt)
    BY <2>2 DEF Pays
  <2> QED BY <2>1, <2>3 DEF Plan, Pays
<1>8. CASE Refuse \/ BuyBalance \/ BuyRecord \/ SellBalance \/ SellRecord
  BY <1>2, <1>8 DEF Refuse, Escape, End, BuyBalance, BuyRecord, Finish, SellBalance, SellRecord
<1>9. CASE Crash
  BY <1>1, <1>2, <1>9 DEF Crash
<1> QED
  BY <1>3, <1>4, <1>5, <1>6, <1>7, <1>8, <1>9 DEF Next, Run

\* Nothing has been spent.
LEMMA InitPlan == Init => Plan
<1> SUFFICES ASSUME Init PROVE Plan
  OBVIOUS
<1>1. account.basis = 0 /\ account.buys = 0 /\ account.usdt = Deposit /\ pc = "idle"
  BY DEF Init
<1>2. Deposit \in Nat /\ MaxCount \in Nat /\ Base \in Nat /\ Grain \in Nat
  BY MoneyAssumption
<1> QED BY <1>1, <1>2 DEF Plan, Pays

\* The decision to come is for what the plan asks for.
LEMMA PlanPays ==
    ASSUME Base > 11 * Grain
    PROVE  Typed /\ Books /\ Plan => PlanIsAffordable
<1> SUFFICES ASSUME Typed, Books, Plan, pc = "balance", HasShare(Rebuilt)
             PROVE  LET d == Rebuilt
                    IN  /\ d.count < MaxCount - 1 =>
                             Amount(d) = Share(d) /\ Share(d) <= account.usdt
                        /\ Amount(d) > 0 /\ Share(d) - Amount(d) <= Grain
                        /\ 2 * (Amount(d) - account.usdt) <= Grain
  BY DEF PlanIsAffordable, Rebuilt
<1> DEFINE d == Rebuilt
<1>1. Described /\ account \in Accounts /\ account.usdt \in Nat
  BY DEF Books, Typed, Accounts
<1>2. /\ d \in Positions /\ d.budget = Rounded(account.usdt)
      /\ d.count = account.buys /\ Booked(d.used)
  BY <1>1, RebuiltIsTheAccount
<1>3. HasShare(d)
  OBVIOUS
<1> HIDE DEF d
<1>4. Pays(account.basis, account.buys, account.usdt)
  BY <1>2, <1>3 DEF Plan, HasShare
<1>5. d.used = account.basis
  BY <1>1, <1>2, <1>3, <1>4, SpentInFull
<1>6. /\ d.count < MaxCount - 1 => Amount(d) = Share(d) /\ Share(d) < account.usdt
      /\ Amount(d) > 0 /\ Share(d) - Amount(d) <= Grain
      /\ 2 * (Amount(d) - account.usdt) <= Grain
  BY <1>1, <1>2, <1>3, <1>4, <1>5, Affordable
<1>7. Share(d) \in Nat
  BY <1>2, <1>3, ShareNat DEF Positions
<1> QED BY <1>1, <1>6, <1>7 DEF d

\* The books are what is promised between runs.
LEMMA BooksTell == Typed /\ Books => BooksMatch
<1> SUFFICES ASSUME Typed, Books, pc = "idle"
             PROVE  LET row == OpenRow(account.coins) IN
                    IF account.coins = 0 THEN row = NoRow
                    ELSE /\ row # NoRow
                         /\ row.count = account.buys
                         /\ row.average = [used |-> row.used, coins |-> account.coins]
                         /\ Booked(row.used)
  BY DEF BooksMatch
<1> QED BY DEF Books, Described, Holds

\* What the books say the coins cost is what the sale is decided by, and no less than
\* they did cost.
LEMMA Sells ==
    ASSUME Typed, Books, [Next]_vars, "blind" \notin Fault
    PROVE  AtProfit
<1> SUFFICES ASSUME pc = "balance", pc' = "sell"
             PROVE  (seen.price - LeastProfit) * account.coins > account.basis * Scale
  BY DEF AtProfit
<1>1. Decide
  BY DEF Next, MarketMoves, Withdraw, Run, ReadCandles, ExecuteBuy, ExecuteSell, Refuse,
         BuyBalance, BuyRecord, SellBalance, SellRecord, Crash, vars
<1>2. Rebuilt.coins > 0 /\ Profitable(Rebuilt)
  BY <1>1, Choices
<1>3. Described
  BY DEF Books
<1> DEFINE used == Rebuilt.used
           gain == (seen.price - LeastProfit) * account.coins
<1>4. /\ Rebuilt.average = [used |-> used, coins |-> account.coins]
      /\ Booked(used) /\ Rebuilt \in Positions
  BY <1>2, <1>3, RebuiltIsTheAccount
<1>5. used \in Nat /\ account.basis \in Nat /\ account.basis <= used /\ Scale \in Nat
  BY <1>4, MoneyAssumption DEF Booked, Positions, Typed, Accounts
<1>6. gain > used * Scale
  BY <1>2, <1>4 DEF Profitable
<1>7. gain \in Int
  BY MoneyAssumption DEF Typed, Markets, Accounts
<1> HIDE DEF used, gain
<1>8. account.basis * Scale <= used * Scale
  BY <1>5
<1>9. gain > account.basis * Scale
  BY <1>5, <1>6, <1>7, <1>8
<1> QED BY <1>9 DEF gain

-----------------------------------------------------------------------------
(* The mild one of the two worlds of MCLessismoreBoth, for any faults but   *)
(* those a theorem excludes.                                               *)

\* The world does not change: in the mild one, every step is one of this instance.
LEMMA OneWorld ==
    /\ BothInit /\ world = "mild" => Init
    /\ [BothNext]_<<vars, world>> /\ (world = "mild")' => world = "mild" /\ [Next]_vars
<1>1. BothInit /\ world = "mild" => Init
  BY DEF BothInit
<1>2. [BothNext]_<<vars, world>> /\ (world = "mild")' => world = "mild" /\ [Next]_vars
  BY DEF BothNext
<1> QED BY <1>1, <1>2

OnceIfMild == world = "mild" => IInv /\ account.mishaps = 0
BooksIfMild == world = "mild" => Typed /\ Books
PlanIfMild == world = "mild" => Typed /\ Books /\ Plan

\* The books, in every state of the mild world.
LEMMA BooksAreKept ==
    ASSUME Fault \cap {"crashInTrade", "lostAnswer", "lag", "blind"} = {}
    PROVE  BothSpec => []BooksIfMild
<1>1. BothInit => BooksIfMild
  BY OneWorld, InitTyped, InitBooks DEF BooksIfMild
<1>2. BooksIfMild /\ [BothNext]_<<vars, world>> => BooksIfMild'
  BY OneWorld, StepTyped, StepBooks DEF BooksIfMild
<1> QED BY <1>1, <1>2, PTL DEF BothSpec

\* A LONG period sees at most one order, as long as answers arrive and the process
\* does not die between an order and its row (lessismore.py:461, 475).
THEOREM BuysOncePerPeriodWhenMild ==
    ASSUME "lostAnswer" \notin Fault, "crashInTrade" \notin Fault
    PROVE  BothSpec => []OncePerPeriodIfMild
<1>1. BothInit => OnceIfMild
  BY OneWorld, InitKeeps DEF OnceIfMild, Init
<1>2. OnceIfMild /\ [BothNext]_<<vars, world>> => OnceIfMild'
  BY OneWorld, StepKeeps, NoMishaps DEF OnceIfMild
<1>3. OnceIfMild => OncePerPeriodIfMild
  BY DEF OnceIfMild, OncePerPeriodIfMild, IInv, Times, Accounted, OncePerPeriod
<1> QED BY <1>1, <1>2, <1>3, PTL DEF BothSpec

\* Between runs, the row run() would rebuild its position from has the number of
\* buys, the coins the account holds and the money spent, up to half a Grain that a
\* last order was reduced by, through refusals, restarts, withdrawals and moves of the
\* market.
THEOREM BooksMatchWhenMild ==
    ASSUME Fault \cap {"crashInTrade", "lostAnswer", "lag", "blind"} = {}
    PROVE  BothSpec => []BooksMatchIfMild
<1>1. BooksIfMild => BooksMatchIfMild
  BY BooksTell DEF BooksIfMild, BooksMatchIfMild
<1> QED BY <1>1, BooksAreKept, PTL

\* A sale run() decides on gains more than LeastProfit on each coin of the account
\* at the price it decides by (config.xml:17).
THEOREM SellsAtProfitWhenMild ==
    ASSUME Fault \cap {"crashInTrade", "lostAnswer", "lag", "blind"} = {}
    PROVE  BothSpec => SellsAtProfitIfMild
<1>1. BooksIfMild /\ [BothNext]_<<vars, world>> => [world = "mild" => AtProfit]_vars
  <2> SUFFICES ASSUME BooksIfMild, [BothNext]_<<vars, world>>, world = "mild", vars' # vars
               PROVE  AtProfit
    OBVIOUS
  <2>1. Next /\ Typed /\ Books
    BY DEF BothNext, BooksIfMild
  <2> QED BY <2>1, Sells
<1> QED BY <1>1, BooksAreKept, PTL DEF BothSpec, SellsAtProfitIfMild

\* Whatever the prices, the shares and the deposit, the account holds enough for
\* every share of the pyramid but the last, which is short of its share by 0.1 usdt and
\* beyond the account by 0.05 at most; the first share must be more than 1.1 usdt
\* (get_next_usdt, try_buy, float_1f).
THEOREM PlanIsAffordableWhenMild ==
    ASSUME Fault \cap {"crashInTrade", "lostAnswer", "lag", "blind", "withdraw"} = {},
           Base > 11 * Grain
    PROVE  BothSpec => []PlanIsAffordableIfMild
<1>1. Fault \cap {"crashInTrade", "lostAnswer", "lag", "blind"} = {}
  OBVIOUS
<1>2. BothInit => PlanIfMild
  BY OneWorld, InitTyped, InitBooks, InitPlan DEF PlanIfMild
<1>3. PlanIfMild /\ [BothNext]_<<vars, world>> => PlanIfMild'
  BY <1>1, OneWorld, StepTyped, StepBooks, StepPlan DEF PlanIfMild
<1>4. PlanIfMild => PlanIsAffordableIfMild
  BY PlanPays DEF PlanIfMild, PlanIsAffordableIfMild
<1> QED BY <1>2, <1>3, <1>4, PTL DEF BothSpec
=============================================================================
