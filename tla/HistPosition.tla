---------------------------- MODULE HistPosition ----------------------------
(***************************************************************************)
(* Organized.get_latest_first_hist_position(long): the loops that search   *)
(* the MACD histogram backwards for the candle that opens the latest run   *)
(* of long (or short) candles.  The robot takes the time and the price of  *)
(* that candle for the beginning of the period it trades in.               *)
(***************************************************************************)
EXTENDS Integers

CONSTANTS MaxLast   \* bound on the index of the last complete candle

ASSUME MaxLastAssumption == MaxLast \in Nat

VARIABLES
    hist,  \* the histogram by its sign; 0 also stands for NaN
    last,  \* get_len() - 2, the last complete candle
    long,  \* the parameter
    i,     \* the loop variable
    pc     \* "skip" and "scan": the two loops; "done": i is returned

vars == <<hist, last, long, i, pc>>

Sign == {-1, 0, 1}

\* A candle in the direction that is looked for, and one against it
Own(k) == IF long THEN hist[k] > 0 ELSE hist[k] < 0
Against(k) == IF long THEN hist[k] < 0 ELSE hist[k] > 0

\* run() has returned before it gets here when the last candle is 0.
Init ==
    /\ last \in 0 .. MaxLast
    /\ hist \in [0 .. last -> Sign]
    /\ hist[last] # 0
    /\ long \in BOOLEAN
    /\ i = last
    /\ pc = IF Against(last) THEN "skip" ELSE "scan"

\* The present run goes the other way: it is passed over first.
Skip ==
    /\ pc = "skip"
    /\ IF i > 0 /\ ~Own(i)
       THEN i' = i - 1 /\ pc' = "skip"
       ELSE i' = i /\ pc' = "scan"
    /\ UNCHANGED <<hist, last, long>>

\* Mutants: a definition as a slip in the code would have it.
Scan_From(first, step) ==
    /\ pc = "scan"
    /\ \/ /\ i > first /\ Against(i)
          /\ i' = i + step /\ pc' = "done"
       \/ /\ i > first /\ ~Against(i)
          /\ i' = i - 1 /\ pc' = "scan"
       \/ /\ i <= first
          /\ i' = 0 /\ pc' = "done"
    /\ UNCHANGED <<hist, last, long>>
Scan_NoStep == Scan_From(0, 0)
Scan_MissesOne == Scan_From(1, 1)

\* while i > 0, until a candle against the direction: the one after it
Scan ==
    /\ pc = "scan"
    /\ \/ /\ i > 0 /\ Against(i)
          /\ i' = i + 1 /\ pc' = "done"
       \/ /\ i > 0 /\ ~Against(i)
          /\ i' = i - 1 /\ pc' = "scan"
       \/ /\ i = 0
          /\ i' = 0 /\ pc' = "done"
    /\ UNCHANGED <<hist, last, long>>

Next == Skip \/ Scan
Spec == Init /\ [][Next]_vars

-----------------------------------------------------------------------------
(* What the function promises.                                             *)

TypeOK ==
    /\ last \in 0 .. MaxLast
    /\ hist \in [0 .. last -> Sign]
    /\ long \in BOOLEAN
    /\ i \in 0 .. last
    /\ pc \in {"skip", "scan", "done"}

\* k belongs to the latest run in the direction: a candle of that direction is
\* at k or after it, and between k and that candle none goes against it, and
\* after the candle none goes in it.
InLatestRun(k) ==
    \E e \in k .. last : /\ Own(e)
                         /\ \A m \in e + 1 .. last : ~Own(m)
                         /\ \A m \in k .. e : ~Against(m)

\* The candle that is returned opens the latest run in the direction looked
\* for: it belongs to the run, and the one before it goes against it.
OpensLatestRun ==
    pc = "done" /\ i > 0 => InLatestRun(i) /\ Against(i - 1)

\* Nothing after the first candle goes in the direction looked for, or the latest run
\* goes back to candle 1 at least.
ReachesTheBeginning ==
    (\A k \in 1 .. last : ~Own(k)) \/ (last > 0 /\ InLatestRun(1))

\* 0 is returned then, and then only.  The loops never look at candle 0: when it goes
\* against the direction, the run opens at candle 1 and the answer, still 0, is one
\* short of it.
ZeroMeansBeginning == pc = "done" => (i = 0 <=> ReachesTheBeginning)
=============================================================================
