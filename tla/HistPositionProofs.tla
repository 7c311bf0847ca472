------------------------- MODULE HistPositionProofs -------------------------
(* get_latest_first_hist_position is right for a histogram of any length. *)
EXTENDS HistPosition, TLAPS

\* e is the last candle in the direction looked for.
LastOwn(e) == Own(e) /\ \A m \in e + 1 .. last : ~Own(m)

\* What the loops have established when they are at candle i: it and those
\* before it are all that is left to look at, ...
Passed == \A m \in i + 1 .. last : ~Own(m)
\* ... or e closes the run and nothing from i + 1 to e goes against it.
Found == \E e \in i .. last : LastOwn(e) /\ \A m \in i + 1 .. e : ~Against(m)

IInv ==
    /\ TypeOK
    /\ pc = "skip" => Passed
    /\ pc = "scan" => Found \/ (i = 0 /\ Passed)
    /\ pc = "done" => IF i > 0 THEN i > 1 /\ InLatestRun(i) /\ Against(i - 1)
                      ELSE Found \/ Passed

\* A candle goes one way only.
LEMMA OneWay == ASSUME TypeOK, NEW k \in 0 .. last PROVE ~(Own(k) /\ Against(k))
  BY MaxLastAssumption DEF TypeOK, Own, Against, Sign

LEMMA InitKeeps == Init => IInv
<1> SUFFICES ASSUME Init PROVE IInv
  OBVIOUS
<1> USE MaxLastAssumption DEF Init
<1>1. TypeOK
  BY DEF TypeOK, Sign
<1>2. pc = "scan" => Own(last)
  BY DEF Own, Against, Sign
<1>3. pc = "scan" => Found
  BY <1>2 DEF Found, LastOwn
<1>4. Passed
  BY DEF Passed
<1> QED BY <1>1, <1>3, <1>4 DEF IInv

LEMMA SkipKeeps == IInv /\ Skip => IInv'
<1> SUFFICES ASSUME IInv, Skip PROVE IInv'
  OBVIOUS
<1> USE MaxLastAssumption
<1>1. /\ UNCHANGED <<hist, last, long>> /\ pc = "skip" /\ TypeOK /\ Passed
      /\ last \in Nat /\ i \in 0 .. last
  BY DEF Skip, IInv, TypeOK
<1>2. CASE i > 0 /\ ~Own(i)
  <2>1. i' = i - 1 /\ pc' = "skip"
    BY <1>2 DEF Skip
  <2>2. Passed'
    BY <1>1, <1>2, <2>1 DEF Passed, Own
  <2> QED BY <1>1, <1>2, <2>1, <2>2 DEF IInv, TypeOK
<1>3. CASE ~(i > 0 /\ ~Own(i))
  <2>1. i' = i /\ pc' = "scan"
    BY <1>3 DEF Skip
  <2>2. Found \/ (i = 0 /\ Passed)
    BY <1>1, <1>3 DEF Found, LastOwn, Passed
  <2>3. (Found \/ (i = 0 /\ Passed))'
    BY <1>1, <2>1, <2>2 DEF Found, LastOwn, Passed, Own, Against
  <2> QED BY <1>1, <2>1, <2>3 DEF IInv, TypeOK
<1> QED BY <1>2, <1>3

LEMMA ScanKeeps == IInv /\ Scan => IInv'
<1> SUFFICES ASSUME IInv, Scan PROVE IInv'
  OBVIOUS
<1> USE MaxLastAssumption
<1>1. /\ UNCHANGED <<hist, last, long>> /\ pc = "scan" /\ TypeOK
      /\ last \in Nat /\ i \in 0 .. last
      /\ Found \/ (i = 0 /\ Passed)
  BY DEF Scan, IInv, TypeOK
<1>2. CASE i > 0 /\ Against(i)
  <2>1. i' = i + 1 /\ pc' = "done"
    BY <1>2 DEF Scan
  <2>2. PICK e \in i .. last : LastOwn(e) /\ \A m \in i + 1 .. e : ~Against(m)
    BY <1>1, <1>2 DEF Found
  <2>3. e \in i + 1 .. last
    BY <1>1, <1>2, <2>2, OneWay DEF LastOwn
  <2>4. InLatestRun(i + 1)
    BY <1>1, <2>2, <2>3 DEF InLatestRun, LastOwn
  <2>5. (InLatestRun(i) /\ Against(i - 1))'
    BY <1>1, <1>2, <2>1, <2>4 DEF InLatestRun, Own, Against
  <2>6. i' > 1
    BY <1>1, <1>2, <2>1
  <2> QED BY <1>1, <2>1, <2>3, <2>5, <2>6 DEF IInv, TypeOK
<1>3. CASE i > 0 /\ ~Against(i)
  <2>1. i' = i - 1 /\ pc' = "scan"
    BY <1>3 DEF Scan
  <2>2. PICK e \in i .. last : LastOwn(e) /\ \A m \in i + 1 .. e : ~Against(m)
    BY <1>1, <1>3 DEF Found
  <2>3. Found'
    BY <1>1, <1>3, <2>1, <2>2 DEF Found, LastOwn, Own, Against
  <2> QED BY <1>1, <1>3, <2>1, <2>3 DEF IInv, TypeOK
<1>4. CASE i = 0
  <2>1. i' = 0 /\ pc' = "done"
    BY <1>4 DEF Scan
  <2>2. (Found \/ Passed)'
    BY <1>1, <1>4, <2>1 DEF Found, LastOwn, Passed, Own, Against
  <2> QED BY <1>1, <2>1, <2>2 DEF IInv, TypeOK
<1> QED BY <1>1, <1>2, <1>3, <1>4

LEMMA StepKeeps == IInv /\ [Next]_vars => IInv'
<1> SUFFICES ASSUME IInv, [Next]_vars PROVE IInv'
  OBVIOUS
<1>1. CASE Next
  BY <1>1, SkipKeeps, ScanKeeps DEF Next
<1>2. CASE UNCHANGED vars
  BY <1>2 DEF vars, IInv, TypeOK, Passed, Found, LastOwn, InLatestRun, Own, Against
<1> QED BY <1>1, <1>2

\* The types of the variables: the loops never leave the histogram, at either end.
THEOREM TypeCorrect == Spec => []TypeOK
<1>1. IInv => TypeOK
  BY DEF IInv
<1> QED BY <1>1, InitKeeps, StepKeeps, PTL DEF Spec

\* The candle the function returns, if it is not the first of all, opens the
\* latest run of the direction looked for.
THEOREM ReturnsTheOpening == Spec => []OpensLatestRun
<1>1. IInv => OpensLatestRun
  BY DEF IInv, OpensLatestRun
<1> QED BY <1>1, InitKeeps, StepKeeps, PTL DEF Spec

\* When the function returns 0, and only then, the latest run goes back to candle 1 at
\* least, or there is none after the first candle.
THEOREM ZeroIsTheBeginning == Spec => []ZeroMeansBeginning
<1>1. ASSUME IInv, pc = "done", i = 0 PROVE ReachesTheBeginning
  <2>1. last \in Nat /\ (Found \/ Passed)
    BY <1>1, MaxLastAssumption DEF IInv, TypeOK
  <2>2. CASE Passed
    BY <1>1, <2>1, <2>2 DEF Passed, ReachesTheBeginning
  <2>3. CASE Found
    <3>1. PICK f \in 0 .. last : LastOwn(f) /\ \A m \in 1 .. f : ~Against(m)
      BY <1>1, <2>3 DEF Found
    <3>2. CASE f = 0
      BY <2>1, <3>1, <3>2 DEF LastOwn, ReachesTheBeginning
    <3>3. CASE f > 0
      BY <2>1, <3>1, <3>3 DEF LastOwn, InLatestRun, ReachesTheBeginning
    <3> QED BY <2>1, <3>1, <3>2, <3>3
  <2> QED BY <2>1, <2>2, <2>3
<1>2. ASSUME IInv, pc = "done", ReachesTheBeginning PROVE i = 0
  <2>1. last \in Nat /\ i \in 0 .. last /\ TypeOK
    BY <1>2, MaxLastAssumption DEF IInv, TypeOK
  <2> SUFFICES ASSUME i > 0 PROVE FALSE
    BY <2>1
  <2>2. i > 1 /\ InLatestRun(i) /\ Against(i - 1)
    BY <1>2 DEF IInv
  <2>3. PICK e \in i .. last : Own(e) /\ \A m \in e + 1 .. last : ~Own(m)
    BY <2>2 DEF InLatestRun
  <2>4. InLatestRun(1)
    BY <1>2, <2>1, <2>2, <2>3 DEF ReachesTheBeginning
  <2>5. PICK f \in 1 .. last : /\ Own(f) /\ \A m \in f + 1 .. last : ~Own(m)
                               /\ \A m \in 1 .. f : ~Against(m)
    BY <2>4 DEF InLatestRun
  <2>6. f = e
    BY <2>1, <2>3, <2>5
  <2> QED BY <2>1, <2>2, <2>3, <2>5, <2>6
<1>3. IInv => ZeroMeansBeginning
  BY <1>1, <1>2 DEF ZeroMeansBeginning
<1> QED BY <1>3, InitKeeps, StepKeeps, PTL DEF Spec
=============================================================================
