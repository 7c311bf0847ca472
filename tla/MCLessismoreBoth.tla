-------------------------- MODULE MCLessismoreBoth --------------------------
(***************************************************************************)
(* Two instances of Lessismore, side by side.  In the mild one, the market *)
(* moves, orders are refused and the program is restarted outside a trade; *)
(* in the hard one, everything goes wrong that can, with fewer prices and  *)
(* candles.  `world' says which it is, and does not change.                *)
(***************************************************************************)
EXTENDS MCLessismore

VARIABLE world

Hard == INSTANCE Lessismore
          WITH Price <- Price2, LeastProfit <- 0, Grain <- 1, Base <- 1, Deposit <- 5,
               MaxCandle <- 3, MaxTrade <- 3, Fault <- AllFaults

BothInit == \/ world = "mild" /\ Init
            \/ world = "hard" /\ Hard!Init
BothNext == /\ \/ world = "mild" /\ Next
               \/ world = "hard" /\ Hard!Next
            /\ UNCHANGED world
BothSpec == BothInit /\ [][BothNext]_<<vars, world>>

\* The types and the bound on repeated orders hold in both.  What does not survive a
\* crash within a trade, a lost answer or a balance that is not the account's:
OncePerPeriodIfMild == world = "mild" => OncePerPeriod
BooksMatchIfMild == world = "mild" => BooksMatch
PlanIsAffordableIfMild == world = "mild" => PlanIsAffordable
SellsAtProfitIfMild == [][world = "mild" => AtProfit]_vars
=============================================================================
