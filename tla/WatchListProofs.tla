---------------------------- MODULE WatchListProofs ----------------------------
(***************************************************************************)
(* The watchdog's list, its lock and the walks over it, for any number of  *)
(* clients, of their subscriptions and of overlapping jobs.                *)
(***************************************************************************)
EXTENDS WatchList, SequenceTheorems, FiniteSetTheorems, TLAPS

PcOK == pc \in [Client -> UserPc]
IInv == PcOK /\ OneHolder

\* What a step of one client does to its own place in the program.
LEMMA Moves ==
    ASSUME PcOK, NEW u \in Client, NEW p \in UserPc, pc' = [pc EXCEPT ![u] = p]
    PROVE  PcOK' /\ pc'[u] = p /\ \A v \in Client \ {u} : pc'[v] = pc[v]
  BY DEF PcOK

\* A client that moves without the lock, and does not take it, leaves it as it is.
LEMMA MovesOutside ==
    ASSUME IInv, NEW u \in Client, NEW p \in UserPc, pc' = [pc EXCEPT ![u] = p],
           ~Holding(u), p \notin {"appending", "removing", "stuck"}, UNCHANGED mutex
    PROVE  IInv'
<1>1. PcOK' /\ pc'[u] = p /\ \A v \in Client \ {u} : pc'[v] = pc[v]
  BY Moves DEF IInv
<1>2. \A v \in Client : Holding(v)' <=> Holding(v)
  BY <1>1 DEF Holding
<1> QED
  BY <1>1, <1>2 DEF IInv, OneHolder

\* A client that has the lock gives it back on its way.
LEMMA Releases ==
    ASSUME IInv, NEW u \in Client, NEW p \in UserPc, pc' = [pc EXCEPT ![u] = p],
           Holding(u), p \notin {"appending", "removing", "stuck"}, mutex' = Nobody
    PROVE  IInv'
<1>1. PcOK' /\ pc'[u] = p /\ \A v \in Client \ {u} : pc'[v] = pc[v]
  BY Moves DEF IInv
<1>2. mutex = u
  BY DEF IInv, OneHolder
<1>3. \A v \in Client : ~Holding(v)'
  BY <1>1, <1>2 DEF IInv, OneHolder, Holding
<1> QED
  BY <1>1, <1>3, ClientAssumption DEF IInv, OneHolder

LEMMA Start == Init => IInv
  BY ClientAssumption DEF Init, IInv, PcOK, OneHolder, Holding, UserPc

LEMMA Step == IInv /\ [Next]_vars => IInv'
<1> SUFFICES ASSUME IInv, [Next]_vars PROVE IInv'
  OBVIOUS
<1> USE DEF UserPc
<1>1. ASSUME NEW u \in Client, Subscribe(u) PROVE IInv'
  <2>1. pc[u] = "idle" /\ pc' = [pc EXCEPT ![u] = "creating"] /\ UNCHANGED mutex
    BY <1>1 DEF Subscribe
  <2> QED
    BY <2>1, MovesOutside DEF Holding
<1>2. ASSUME NEW u \in Client, Acquire(u) PROVE IInv'
  <2>1. PICK p \in {"appending", "removing"} : pc' = [pc EXCEPT ![u] = p]
    BY <1>2 DEF Acquire
  <2>2. mutex = Nobody /\ mutex' = u
    BY <1>2 DEF Acquire
  <2>3. PcOK' /\ pc'[u] = p /\ \A v \in Client \ {u} : pc'[v] = pc[v]
    BY <2>1, Moves DEF IInv
  <2>4. \A v \in Client : ~Holding(v)
    BY <2>2, ClientAssumption DEF IInv, OneHolder
  <2>5. \A v \in Client : Holding(v)' <=> v = u
    BY <2>1, <2>3, <2>4 DEF Holding
  <2> QED
    BY <2>2, <2>3, <2>5 DEF IInv, OneHolder
<1>3. ASSUME NEW u \in Client, AppendToList(u) PROVE IInv'
  <2>1. pc[u] = "appending" /\ pc' = [pc EXCEPT ![u] = "idle"] /\ mutex' = Nobody
    BY <1>3 DEF AppendToList
  <2> QED
    BY <2>1, Releases DEF Holding
<1>4. ASSUME NEW u \in Client, Unsubscribe(u) PROVE IInv'
  <2>1. pc[u] = "idle" /\ pc' = [pc EXCEPT ![u] = "closing"] /\ UNCHANGED mutex
    BY <1>4 DEF Unsubscribe
  <2> QED
    BY <2>1, MovesOutside DEF Holding
<1>5. ASSUME NEW u \in Client, RemoveFromList(u) PROVE IInv'
  <2>1. CASE Current(u) \in Listed
    <3>1. pc[u] = "removing" /\ pc' = [pc EXCEPT ![u] = "shutting"] /\ mutex' = Nobody
      BY <1>5, <2>1 DEF RemoveFromList
    <3> QED
      BY <3>1, Releases DEF Holding
  <2>2. CASE Current(u) \notin Listed
    <3>1. pc[u] = "removing" /\ pc' = [pc EXCEPT ![u] = "stuck"] /\ UNCHANGED mutex
      BY <1>5, <2>2 DEF RemoveFromList
    <3>2. PcOK' /\ pc'[u] = "stuck" /\ \A v \in Client \ {u} : pc'[v] = pc[v]
      BY <3>1, Moves DEF IInv
    <3>3. \A v \in Client : Holding(v)' <=> Holding(v)
      BY <3>1, <3>2 DEF Holding
    <3> QED
      BY <3>1, <3>2, <3>3 DEF IInv, OneHolder
  <2> QED
    BY <2>1, <2>2
<1>6. ASSUME NEW u \in Client, Close(u) PROVE IInv'
  <2>1. PICK p \in {"idle", "closing"} : pc' = [pc EXCEPT ![u] = p]
    BY <1>6 DEF Close
  <2>2. pc[u] = "shutting" /\ UNCHANGED mutex
    BY <1>6 DEF Close
  <2> QED
    BY <2>1, <2>2, MovesOutside DEF Holding
<1>7. ASSUME NEW m \in Manager, Live(m) PROVE IInv'
  BY <1>7 DEF Live, IInv, PcOK, OneHolder, Holding
<1>8. ASSUME NEW j \in Job, WatchDog(j) PROVE IInv'
  BY <1>8 DEF WatchDog, Begin, Examine, End, IInv, PcOK, OneHolder, Holding
<1>9. CASE UNCHANGED vars
  BY <1>9 DEF vars, IInv, PcOK, OneHolder, Holding
<1> QED
  BY <1>1, <1>2, <1>3, <1>4, <1>5, <1>6, <1>7, <1>8, <1>9 DEF Next, User

\* The lock is held by the one thread between acquire and release, or by none, also
\* when list.remove() has raised and the lock is never given back.
THEOREM LockIsExclusive == Spec => []OneHolder
<1>1. IInv => OneHolder
  BY DEF IInv
<1> QED
  BY <1>1, Start, Step, PTL DEF Spec

-----------------------------------------------------------------------------
(* What the list holds, and what a walk over it passes over.               *)

Walk == [next : Nat, missed : SUBSET Manager, removed : Nat]
Typed ==
    /\ TypeOK
    /\ own \in [Client -> Seq(Manager)]
    /\ created \in [Client -> Nat]
    /\ at \in [Client -> Nat]
    /\ pass \in [Job -> Walk]

NoTwice(s) == \A i, k \in 1 .. Len(s) : s[i] = s[k] => i = k

\* A client numbers its managers upwards, so that the next one is new to every list.
Numbered == \A k \in 1 .. Len(list) : list[k][2] <= created[list[k][1]]

NewIsApart(u) == pc[u] \in {"creating", "appending"} => own[u] # <<>> /\ Last(own[u]) \notin Listed

Own(u) == {own[u][k] : k \in 1 .. Len(own[u])}
Exact(u) == ~aborted[u] => {m \in Listed : m[1] = u} = (Own(u) \ ToCome(u)) \ TakenOff(u)

Contents ==
    /\ NoTwice(list)
    /\ Numbered
    /\ \A u \in Client : NoTwice(own[u]) /\ NewIsApart(u) /\ Exact(u)

\* The managers that a walk has left behind without a look.
Passed(j) == {list[k] : k \in {i \in 1 .. Len(list) : i < pass[j].next}} \cap pass[j].missed
WalkOK(j) ==
    /\ pass[j].missed \subseteq Listed
    /\ IsFiniteSet(Passed(j))
    /\ Cardinality(Passed(j)) <= pass[j].removed

Walks == \A j \in Job : WalkOK(j)

\* Facts about the two operations on the list.
LEMMA AppendFacts ==
    ASSUME NEW S, NEW s \in Seq(S), NEW e \in S
    PROVE  /\ Append(s, e) \in Seq(S)
           /\ Len(Append(s, e)) = Len(s) + 1
           /\ \A k \in 1 .. Len(s) : Append(s, e)[k] = s[k]
           /\ Append(s, e)[Len(s) + 1] = e
           /\ Last(Append(s, e)) = e
  BY AppendProperties DEF Last

\* Without a duplicate there is one place to remove a member from, and what stood
\* behind it moves up by one.
LEMMA RemoveFacts ==
    ASSUME NEW S, NEW s \in Seq(S), NEW p \in 1 .. Len(s),
           \A k \in 1 .. Len(s) : s[k] = s[p] => k = p
    PROVE  /\ RemoveFirst(s, s[p]) \in Seq(S)
           /\ Len(RemoveFirst(s, s[p])) = Len(s) - 1
           /\ \A k \in 1 .. Len(s) - 1 :
                 RemoveFirst(s, s[p])[k] = IF k < p THEN s[k] ELSE s[k + 1]
<1> DEFINE a == SubSeq(s, 1, p - 1)
           b == SubSeq(s, p + 1, Len(s))
<1>1. RemoveFirst(s, s[p]) = a \o b
  <2>1. {k \in 1 .. Len(s) : s[k] = s[p]} = {p}
    OBVIOUS
  <2>2. Min({p}) = p
    BY DEF Min
  <2> QED
    BY <2>1, <2>2 DEF RemoveFirst, RemoveAt, SelectInSeq
<1>2. /\ a \in Seq(S) /\ Len(a) = p - 1
      /\ \A k \in 1 .. p - 1 : a[k] = s[k]
  <2>1. \A k \in 1 .. p - 1 : s[k] \in S
    OBVIOUS
  <2> QED
    BY <2>1, SubSeqProperties
<1>3. /\ b \in Seq(S) /\ Len(b) = Len(s) - p
      /\ \A k \in 1 .. Len(s) - p : b[k] = s[p + k]
  <2>1. \A k \in p + 1 .. Len(s) : s[k] \in S
    OBVIOUS
  <2>2. /\ b \in Seq(S)
        /\ Len(b) = IF p + 1 <= Len(s) THEN Len(s) - (p + 1) + 1 ELSE 0
        /\ \A k \in 1 .. Len(s) - (p + 1) + 1 : b[k] = s[(p + 1) + k - 1]
    BY <2>1, SubSeqProperties
  <2> QED
    BY <2>2
<1>4. /\ a \o b \in Seq(S)
      /\ Len(a \o b) = Len(a) + Len(b)
      /\ \A k \in 1 .. Len(a) + Len(b) : (a \o b)[k] = IF k <= Len(a) THEN a[k] ELSE b[k - Len(a)]
  BY <1>2, <1>3, ConcatProperties
<1> HIDE DEF a, b
<1>5. Len(s) \in Nat /\ p \in Nat
  OBVIOUS
<1>6. \A k \in 1 .. Len(s) - 1 : (a \o b)[k] = IF k < p THEN s[k] ELSE s[k + 1]
  <2> TAKE k \in 1 .. Len(s) - 1
  <2>1. CASE k < p
    BY <2>1, <1>2, <1>3, <1>4, <1>5
  <2>2. CASE ~(k < p)
    <3>1. k - Len(a) \in 1 .. Len(s) - p /\ p + (k - Len(a)) = k + 1
      BY <2>2, <1>2, <1>5
    <3>2. (a \o b)[k] = b[k - Len(a)]
      BY <2>2, <1>2, <1>3, <1>4, <1>5
    <3> QED
      BY <3>1, <3>2, <2>2, <1>3
  <2> QED
    BY <2>1, <2>2
<1> QED
  BY <1>1, <1>2, <1>3, <1>4, <1>5, <1>6

LEMMA ManagerFacts ==
    /\ \A u \in Client : \A n \in 1 .. MaxSub[u] :
          /\ <<u, n>> \in Manager
          /\ <<u, n>>[1] = u /\ <<u, n>>[2] = n
    /\ \A m \in Manager : m[1] \in Client /\ m[2] \in 1 .. MaxSub[m[1]]
    /\ \A u \in Client : MaxSub[u] \in Nat
  BY SubAssumption DEF Manager

\* What a new manager does to the list.
LEMMA ListGrows ==
    ASSUME list \in Seq(Manager), NoTwice(list), NEW m \in Manager, m \notin Listed,
           list' = Append(list, m)
    PROVE  /\ list' \in Seq(Manager)
           /\ Len(list') = Len(list) + 1
           /\ \A k \in 1 .. Len(list) : list'[k] = list[k]
           /\ list'[Len(list) + 1] = m
           /\ NoTwice(list)'
           /\ Listed' = Listed \cup {m}
<1>1. /\ list' \in Seq(Manager)
      /\ Len(list') = Len(list) + 1
      /\ \A k \in 1 .. Len(list) : list'[k] = list[k]
      /\ list'[Len(list) + 1] = m
  BY AppendFacts
<1>2. Len(list) \in Nat
  OBVIOUS
<1>3. Listed = {list[k] : k \in 1 .. Len(list)} /\ Listed' = {list'[k] : k \in 1 .. Len(list) + 1}
  BY <1>1 DEF Listed
<1>4. 1 .. Len(list) + 1 = (1 .. Len(list)) \cup {Len(list) + 1}
  BY <1>2
<1>5. Listed' = Listed \cup {m}
  BY <1>1, <1>3, <1>4
<1>6. NoTwice(list)'
  <2>1. \A k \in 1 .. Len(list) : list[k] # m
    BY <1>3
  <2> QED
    BY <1>1, <1>4, <2>1 DEF NoTwice
<1> QED
  BY <1>1, <1>5, <1>6

\* What a removal does to it.
LEMMA ListShrinks ==
    ASSUME list \in Seq(Manager), NoTwice(list), NEW m \in Listed,
           list' = RemoveFirst(list, m)
    PROVE  /\ list' \in Seq(Manager)
           /\ Len(list') = Len(list) - 1
           /\ \E p \in 1 .. Len(list) : \A k \in 1 .. Len(list) - 1 :
                 list'[k] = IF k < p THEN list[k] ELSE list[k + 1]
           /\ NoTwice(list)'
           /\ Listed' = Listed \ {m}
<1>1. PICK p \in 1 .. Len(list) : list[p] = m
  BY DEF Listed
<1>2. /\ list' \in Seq(Manager)
      /\ Len(list') = Len(list) - 1
      /\ \A k \in 1 .. Len(list) - 1 : list'[k] = IF k < p THEN list[k] ELSE list[k + 1]
  BY <1>1, RemoveFacts DEF NoTwice
<1>3. Len(list) \in Nat /\ p \in Nat
  OBVIOUS
<1>4. Listed = {list[k] : k \in 1 .. Len(list)} /\ Listed' = {list'[k] : k \in 1 .. Len(list) - 1}
  <2>1. DOMAIN list = 1 .. Len(list) /\ DOMAIN list' = 1 .. Len(list) - 1
    BY <1>2, LenProperties
  <2> QED
    BY <2>1 DEF Listed
<1>5. NoTwice(list)'
  <2> DEFINE from(k) == IF k < p THEN k ELSE k + 1
  <2>1. \A k \in 1 .. Len(list) - 1 : from(k) \in 1 .. Len(list) /\ list'[k] = list[from(k)]
    BY <1>2, <1>3
  <2>2. \A i, k \in 1 .. Len(list) - 1 : from(i) = from(k) => i = k
    BY <1>3
  <2> HIDE DEF from
  <2> QED
    BY <1>2, <2>1, <2>2 DEF NoTwice
<1>6. Listed' = Listed \ {m}
  <2>1. ASSUME NEW x \in Listed' PROVE x \in Listed \ {m}
    <3>1. PICK k \in 1 .. Len(list) - 1 : x = list'[k]
      BY <2>1, <1>4
    <3>2. PICK i \in 1 .. Len(list) : i # p /\ x = list[i]
      BY <3>1, <1>2, <1>3
    <3> QED
      BY <3>2, <1>1, <1>4 DEF NoTwice
  <2>2. ASSUME NEW x \in Listed \ {m} PROVE x \in Listed'
    <3>1. PICK i \in 1 .. Len(list) : x = list[i] /\ i # p
      BY <2>2, <1>1, <1>4
    <3>2. CASE i < p
      <4>1. i \in 1 .. Len(list) - 1 /\ list'[i] = list[i]
        BY <3>1, <3>2, <1>2, <1>3
      <4> QED
        BY <4>1, <3>1, <1>4
    <3>3. CASE i > p
      <4>1. i - 1 \in 1 .. Len(list) - 1 /\ list'[i - 1] = list[(i - 1) + 1] /\ (i - 1) + 1 = i
        BY <3>1, <3>3, <1>2, <1>3
      <4> QED
        BY <4>1, <3>1, <1>4
    <3> QED
      BY <3>1, <3>2, <3>3, <1>3
  <2> QED
    BY <2>1, <2>2
<1> QED
  BY <1>2, <1>5, <1>6

LEMMA StartList == Init => Typed /\ Contents /\ StuckOnlyAfterAbort /\ Walks
<1> SUFFICES ASSUME Init PROVE Typed /\ Contents /\ StuckOnlyAfterAbort /\ Walks
  OBVIOUS
<1> USE DEF Init
<1>1. Typed
  BY SubAssumption DEF Typed, TypeOK, UserPc, Conn, Walk, NoPass
<1>2. Len(list) = 0 /\ Listed = {} /\ \A u \in Client : Len(own[u]) = 0 /\ pc[u] = "idle"
  BY DEF Listed
<1>3. Contents
  BY <1>2 DEF Contents, NoTwice, Numbered, NewIsApart, Exact, Own, ToCome, TakenOff
<1>4. Walks
  <2>1. \A j \in Job : pass[j].missed = {} /\ pass[j].removed = 0
    BY DEF NoPass
  <2>2. \A j \in Job : Passed(j) = {}
    BY <2>1 DEF Passed
  <2>3. IsFiniteSet({}) /\ Cardinality({}) = 0
    BY FS_EmptySet
  <2> HIDE DEF Init
  <2>4. ASSUME NEW j \in Job PROVE WalkOK(j)
    BY <2>1, <2>2, <2>3 DEF WalkOK
  <2> QED
    BY <2>4 DEF Walks
<1> QED
  BY <1>1, <1>2, <1>3, <1>4 DEF StuckOnlyAfterAbort

LEMMA StepTyped == Typed /\ Contents /\ [Next]_vars => Typed'
<1> SUFFICES ASSUME Typed, Contents, [Next]_vars PROVE Typed'
  OBVIOUS
<1> USE DEF Typed, TypeOK
<1>1. ASSUME NEW u \in Client, Subscribe(u) PROVE Typed'
  <2> DEFINE n == created[u] + 1
             m == <<u, n>>
  <2>1. n \in 1 .. MaxSub[u] /\ m \in Manager
    BY <1>1, ManagerFacts DEF Subscribe
  <2>2. own' = [own EXCEPT ![u] = Append(own[u], m)] /\ created' = [created EXCEPT ![u] = n]
        /\ conn' = [conn EXCEPT ![m] = "none"] /\ pc' = [pc EXCEPT ![u] = "creating"]
        /\ UNCHANGED <<list, mutex, at, aborted, pass>>
    BY <1>1 DEF Subscribe
  <2>3. own'[u] \in Seq({u} \X (1 .. created'[u]))
    <3>1. {u} \X (1 .. created[u]) \subseteq {u} \X (1 .. n) /\ m \in {u} \X (1 .. n)
      BY <2>1
    <3>2. own[u] \in Seq({u} \X (1 .. n))
      <4>1. own[u] \in Seq({u} \X (1 .. created[u]))
        OBVIOUS
      <4> HIDE DEF n, m, Typed, TypeOK
      <4> QED
        BY <3>1, <4>1, SeqMonotonic
    <3>3. Append(own[u], m) \in Seq({u} \X (1 .. n))
      BY <3>1, <3>2, AppendProperties
    <3>4. own'[u] = Append(own[u], m) /\ created'[u] = n
      BY <2>2
    <3> QED
      BY <3>3, <3>4
  <2>4. \A v \in Client : own'[v] \in Seq({v} \X (1 .. created'[v]))
    BY <2>2, <2>3
  <2>5. own' \in [Client -> Seq(Manager)] /\ created' \in [Client -> Nat]
    BY <2>1, <2>2, AppendProperties
  <2>6. \A v \in Client : created'[v] \in 0 .. MaxSub[v]
    BY <2>1, <2>2
  <2>7. pc' \in [Client -> UserPc] /\ conn' \in [Manager -> Conn]
    BY <2>2 DEF UserPc, Conn
  <2>8. \A v \in Client : pc'[v] \in {"closing", "removing", "shutting", "stuck"} => at'[v] \in DOMAIN own'[v]
    BY <2>2
  <2> HIDE DEF n, m
  <2> QED
    BY <2>2, <2>4, <2>5, <2>6, <2>7, <2>8
<1>2. ASSUME NEW u \in Client, Acquire(u) PROVE Typed'
  BY <1>2 DEF Acquire, UserPc
<1>3. ASSUME NEW u \in Client, AppendToList(u) PROVE Typed'
  <2>1. own[u] # <<>>
    BY <1>3 DEF AppendToList, Contents, NewIsApart
  <2>2. Last(own[u]) \in Manager
    BY <2>1 DEF Last
  <2>3. list' \in Seq(Manager)
    BY <1>3, <2>2, AppendProperties DEF AppendToList
  <2> QED
    BY <1>3, <2>3 DEF AppendToList, UserPc
<1>4. ASSUME NEW u \in Client, Unsubscribe(u) PROVE Typed'
  <2>1. 1 \in DOMAIN own[u]
    BY <1>4 DEF Unsubscribe
  <2> QED
    BY <1>4, <2>1 DEF Unsubscribe, UserPc
<1>5. ASSUME NEW u \in Client, RemoveFromList(u) PROVE Typed'
  <2>1. UNCHANGED <<own, created, at, aborted, conn>>
    BY <1>5 DEF RemoveFromList
  <2>2. CASE Current(u) \in Listed
    <3>1. list' = RemoveFirst(list, Current(u)) /\ mutex' = Nobody /\ pc' = [pc EXCEPT ![u] = "shutting"]
          /\ pass' = [j \in Job |-> IF pass[j] = NoPass THEN NoPass
                                     ELSE [next |-> pass[j].next,
                                           missed |-> pass[j].missed \ {Current(u)},
                                           removed |-> pass[j].removed + 1]]
      BY <1>5, <2>2 DEF RemoveFromList
    <3>2. list' \in Seq(Manager)
      BY <2>2, <3>1, ListShrinks DEF Contents
    <3>3. pass' \in [Job -> Walk]
      <4>1. ASSUME NEW j \in Job PROVE pass'[j] \in Walk
        <5>1. pass[j] \in Walk
          OBVIOUS
        <5>2. CASE pass[j] = NoPass
          BY <3>1, <5>1, <5>2
        <5>3. CASE pass[j] # NoPass
          BY <3>1, <5>1, <5>3 DEF Walk
        <5> QED
          BY <5>2, <5>3
      <4> QED
        BY <3>1, <4>1
    <3>4. \A v \in Client : pc'[v] \in {"closing", "removing", "shutting", "stuck"}
                            => pc[v] \in {"closing", "removing", "shutting", "stuck"}
      BY <1>5, <3>1 DEF RemoveFromList
    <3> QED
      BY <2>1, <3>1, <3>2, <3>3, <3>4 DEF UserPc
  <2>3. CASE Current(u) \notin Listed
    BY <1>5, <2>1, <2>3 DEF RemoveFromList, UserPc
  <2> QED
    BY <2>2, <2>3
<1>6. ASSUME NEW u \in Client, Close(u) PROVE Typed'
  <2>1. pc[u] = "shutting" /\ UNCHANGED <<list, mutex, created, pass>>
    BY <1>6 DEF Close
  <2>2. at[u] \in DOMAIN own[u] /\ Current(u) \in Manager
    BY <2>1 DEF Current
  <2>3. CASE conn[Current(u)] \in Unclosable
    BY <1>6, <2>1, <2>3 DEF Close, UserPc
  <2>4. CASE conn[Current(u)] \notin Unclosable /\ at[u] < Len(own[u])
    <3>1. /\ conn' = [conn EXCEPT ![Current(u)] = "closed"]
          /\ at' = [at EXCEPT ![u] = at[u] + 1]
          /\ pc' = [pc EXCEPT ![u] = "closing"]
          /\ UNCHANGED <<own, aborted>>
      BY <1>6, <2>4 DEF Close
    <3>2. at[u] + 1 \in DOMAIN own[u] /\ at[u] + 1 \in Nat
      BY <2>2, <2>4
    <3>3. conn' \in [Manager -> Conn] /\ pc' \in [Client -> UserPc] /\ at' \in [Client -> Nat]
      BY <3>1, <3>2 DEF Conn, UserPc
    <3>4. \A v \in Client : pc'[v] \in {"closing", "removing", "shutting", "stuck"} => at'[v] \in DOMAIN own'[v]
      BY <3>1, <3>2
    <3> QED
      BY <2>1, <3>1, <3>3, <3>4
  <2>5. CASE conn[Current(u)] \notin Unclosable /\ ~(at[u] < Len(own[u]))
    <3>1. /\ conn' = [conn EXCEPT ![Current(u)] = "closed"]
          /\ own' = [own EXCEPT ![u] = <<>>]
          /\ pc' = [pc EXCEPT ![u] = "idle"]
          /\ UNCHANGED <<at, aborted>>
      BY <1>6, <2>5 DEF Close
    <3>2. conn' \in [Manager -> Conn] /\ pc' \in [Client -> UserPc] /\ own' \in [Client -> Seq(Manager)]
      BY <3>1, EmptySeq DEF Conn, UserPc
    <3>3. \A v \in Client : own'[v] \in Seq({v} \X (1 .. created'[v]))
      BY <2>1, <3>1
    <3>4. \A v \in Client : pc'[v] \in {"closing", "removing", "shutting", "stuck"} => at'[v] \in DOMAIN own'[v]
      BY <3>1
    <3> QED
      BY <2>1, <3>1, <3>2, <3>3, <3>4
  <2> QED
    BY <2>3, <2>4, <2>5
<1>7. ASSUME NEW m \in Manager, Live(m) PROVE Typed'
  BY <1>7 DEF Live, Conn
<1>8. ASSUME NEW j \in Job, Begin(j) PROVE Typed'
  <2>1. Listed \subseteq Manager
    BY DEF Listed
  <2> QED
    BY <1>8, <2>1 DEF Begin, Walk
<1>9. ASSUME NEW j \in Job, Examine(j) PROVE Typed'
  <2> DEFINE m == list[pass[j].next]
  <2>1. m \in Manager /\ pass[j].next \in Nat
    BY <1>9 DEF Examine
  <2>2. pass' \in [Job -> Walk]
    <3> DEFINE r == [next |-> pass[j].next + 1, missed |-> pass[j].missed \ {m},
                     removed |-> pass[j].removed]
    <3>1. pass' = [pass EXCEPT ![j] = r]
      BY <1>9 DEF Examine
    <3>2. r \in Walk
      BY <2>1 DEF Walk
    <3> QED
      BY <3>1, <3>2
  <2>3. conn' \in [Manager -> Conn]
    BY <1>9, <2>1 DEF Examine, Treated, Conn
  <2> QED
    BY <1>9, <2>2, <2>3 DEF Examine
<1>10. ASSUME NEW j \in Job, End(j) PROVE Typed'
  BY <1>10 DEF End, Walk, NoPass
<1>11. CASE UNCHANGED vars
  BY <1>11 DEF vars
<1> QED
  BY <1>1, <1>2, <1>3, <1>4, <1>5, <1>6, <1>7, <1>8, <1>9, <1>10, <1>11 DEF Next, User, WatchDog

LEMMA OwnFacts ==
    ASSUME Typed, NEW u \in Client
    PROVE  /\ Len(own[u]) \in Nat
           /\ DOMAIN own[u] = 1 .. Len(own[u])
           /\ \A k \in 1 .. Len(own[u]) :
                 own[u][k] \in Manager /\ own[u][k][1] = u /\ own[u][k][2] <= created[u]
           /\ own[u] # <<>> => Len(own[u]) \in 1 .. Len(own[u]) /\ Last(own[u]) = own[u][Len(own[u])]
<1>1. own[u] \in Seq({u} \X (1 .. created[u])) /\ own[u] \in Seq(Manager) /\ created[u] \in Nat
  BY DEF Typed, TypeOK
<1>2. Len(own[u]) \in Nat /\ DOMAIN own[u] = 1 .. Len(own[u])
  BY <1>1
<1>3. ASSUME NEW k \in 1 .. Len(own[u])
      PROVE  own[u][k] \in Manager /\ own[u][k][1] = u /\ own[u][k][2] <= created[u]
  <2>1. own[u][k] \in {u} \X (1 .. created[u]) /\ own[u][k] \in Manager
    BY <1>1
  <2> QED
    BY <1>1, <2>1
<1>4. own[u] # <<>> => Len(own[u]) \in 1 .. Len(own[u]) /\ Last(own[u]) = own[u][Len(own[u])]
  BY <1>1 DEF Last
<1> QED
  BY <1>2, <1>3, <1>4

\* What the contents say of one client, which a step that concerns neither its place
\* nor its part of the list leaves as it is.
About(u) == NoTwice(own[u]) /\ NewIsApart(u) /\ Exact(u)

LEMMA Bystander ==
    ASSUME Typed, NEW v \in Client, About(v),
           pc'[v] = pc[v], own'[v] = own[v], at'[v] = at[v], aborted'[v] = aborted[v],
           {m \in Listed' : m[1] = v} = {m \in Listed : m[1] = v}
    PROVE  About(v)'
<1>1. NoTwice(own[v])'
  BY DEF About, NoTwice
<1>2. NewIsApart(v)'
  <2> SUFFICES ASSUME pc[v] \in {"creating", "appending"}, own[v] # <<>>, Last(own[v]) \notin Listed
               PROVE  Last(own[v]) \notin Listed'
    BY DEF About, NewIsApart
  <2>1. Last(own[v])[1] = v
    BY OwnFacts
  <2> QED
    BY <2>1
<1>3. Exact(v)'
  BY DEF About, Exact, Own, ToCome, TakenOff
<1> QED
  BY <1>1, <1>2, <1>3 DEF About

LEMMA AboutSubscribe ==
    ASSUME Typed, Contents, NEW u \in Client, Subscribe(u)
    PROVE  Numbered' /\ About(u)'
<1> DEFINE n == created[u] + 1
           m == <<u, n>>
<1>1. /\ n \in 1 .. MaxSub[u] /\ m \in Manager /\ m[1] = u /\ m[2] = n
      /\ created[u] \in Nat /\ n > created[u] /\ pc[u] = "idle"
  <2>1. n \in 1 .. MaxSub[u] /\ created[u] \in Nat /\ n > created[u] /\ pc[u] = "idle"
    BY ManagerFacts DEF Subscribe, Typed, TypeOK
  <2> QED
    BY <2>1, ManagerFacts
<1>2. /\ own'[u] = Append(own[u], m) /\ created' = [created EXCEPT ![u] = n]
      /\ pc'[u] = "creating" /\ UNCHANGED <<list, at, aborted>>
  BY DEF Subscribe, Typed, TypeOK
<1>3. Listed' = Listed /\ m \notin Listed
  <2>1. \A k \in 1 .. Len(list) : list[k] # m
    BY <1>1 DEF Contents, Numbered
  <2>2. Listed = {list[k] : k \in 1 .. Len(list)}
    BY DEF Listed, Typed, TypeOK
  <2> QED
    BY <1>2, <2>1, <2>2 DEF Listed
<1>4. Numbered'
  <2>1. \A c \in Client : created[c] \in Nat /\ created'[c] \in Nat /\ created[c] <= created'[c]
    BY <1>1, <1>2 DEF Typed, TypeOK
  <2>2. \A k \in 1 .. Len(list) : list[k] \in Manager /\ list[k][1] \in Client /\ list[k][2] \in Nat
    BY ManagerFacts DEF Typed, TypeOK
  <2>3. ASSUME NEW k \in 1 .. Len(list) PROVE list[k][2] <= created'[list[k][1]]
    <3>1. list[k][2] <= created[list[k][1]]
      BY DEF Contents, Numbered
    <3> QED
      BY <2>1, <2>2, <3>1
  <2> QED
    BY <1>2, <2>3 DEF Numbered
<1> HIDE DEF n, m
<1>5. /\ own[u] \in Seq(Manager) /\ Len(own[u]) \in Nat
      /\ \A k \in 1 .. Len(own[u]) : own[u][k] # m
  BY <1>1, OwnFacts DEF Typed, TypeOK
<1>6. /\ Len(own'[u]) = Len(own[u]) + 1 /\ own'[u] # <<>> /\ Last(own'[u]) = m
      /\ \A k \in 1 .. Len(own[u]) : own'[u][k] = own[u][k]
      /\ own'[u][Len(own[u]) + 1] = m
  <2>1. /\ Len(Append(own[u], m)) = Len(own[u]) + 1 /\ Last(Append(own[u], m)) = m
        /\ \A k \in 1 .. Len(own[u]) : Append(own[u], m)[k] = own[u][k]
        /\ Append(own[u], m)[Len(own[u]) + 1] = m
    BY <1>1, <1>5, AppendFacts
  <2>2. Append(own[u], m) # <<>>
    BY <1>1, <1>5, AppendProperties
  <2> QED
    BY <1>2, <2>1, <2>2
<1>7. 1 .. Len(own[u]) + 1 = (1 .. Len(own[u])) \cup {Len(own[u]) + 1}
  BY <1>5
<1>8. NoTwice(own[u])'
  <2>1. \A i, k \in 1 .. Len(own[u]) : own[u][i] = own[u][k] => i = k
    BY DEF Contents, NoTwice
  <2>2. ASSUME NEW i \in 1 .. Len(own[u]) + 1, NEW k \in 1 .. Len(own[u]) + 1, own'[u][i] = own'[u][k]
        PROVE  i = k
    <3>1. CASE i \in 1 .. Len(own[u]) /\ k \in 1 .. Len(own[u])
      BY <1>6, <2>1, <2>2, <3>1
    <3>2. CASE i = Len(own[u]) + 1 \/ k = Len(own[u]) + 1
      BY <1>5, <1>6, <1>7, <2>2, <3>2
    <3> QED
      BY <1>7, <3>1, <3>2
  <2> QED
    BY <1>6, <2>2 DEF NoTwice
<1>9. Exact(u)'
  <2>1. Own(u)' = Own(u) \cup {m} /\ m \notin Own(u)
    BY <1>5, <1>6, <1>7 DEF Own
  <2>2. ToCome(u)' = {m} /\ ToCome(u) = {} /\ TakenOff(u)' = {} /\ TakenOff(u) = {}
    BY <1>1, <1>2, <1>6 DEF ToCome, TakenOff
  <2>3. Exact(u)
    BY DEF Contents
  <2> QED
    BY <1>2, <1>3, <2>1, <2>2, <2>3 DEF Exact
<1> QED
  BY <1>2, <1>3, <1>4, <1>6, <1>8, <1>9 DEF About, NewIsApart

LEMMA AboutAppend ==
    ASSUME Typed, Contents, NEW u \in Client, AppendToList(u)
    PROVE  NoTwice(list)' /\ Numbered' /\ \A v \in Client : About(v)'
<1> DEFINE m == Last(own[u])
<1>1. /\ pc[u] = "appending" /\ pc' = [pc EXCEPT ![u] = "idle"] /\ list' = Append(list, m)
      /\ UNCHANGED <<own, created, at, aborted>>
  BY DEF AppendToList
<1>2. own[u] # <<>> /\ m \notin Listed
  BY <1>1 DEF Contents, NewIsApart
<1>3. /\ m \in Manager /\ m[1] = u /\ m[2] <= created[u]
      /\ m = own[u][Len(own[u])] /\ Len(own[u]) \in 1 .. Len(own[u])
  BY <1>2, OwnFacts
<1> HIDE DEF m
<1>4. list \in Seq(Manager) /\ NoTwice(list) /\ Len(list) \in Nat
  BY DEF Typed, TypeOK, Contents
<1>5. /\ Len(list') = Len(list) + 1
      /\ \A k \in 1 .. Len(list) : list'[k] = list[k]
      /\ list'[Len(list) + 1] = m
      /\ NoTwice(list)'
      /\ Listed' = Listed \cup {m}
  BY <1>1, <1>2, <1>3, <1>4, ListGrows
<1>6. Numbered'
  <2>1. 1 .. Len(list) + 1 = (1 .. Len(list)) \cup {Len(list) + 1}
    BY <1>4
  <2> QED
    BY <1>1, <1>3, <1>5, <2>1 DEF Contents, Numbered
<1>7. ASSUME NEW v \in Client, v # u PROVE About(v)'
  <2>1. {x \in Listed' : x[1] = v} = {x \in Listed : x[1] = v}
    BY <1>3, <1>5, <1>7
  <2>2. pc'[v] = pc[v] /\ About(v)
    BY <1>1, <1>7 DEF Typed, TypeOK, Contents, About
  <2> QED
    BY <1>1, <2>1, <2>2, Bystander
<1>8. About(u)'
  <2>1. pc'[u] = "idle"
    BY <1>1 DEF Typed, TypeOK
  <2>2. {x \in Listed' : x[1] = u} = {x \in Listed : x[1] = u} \cup {m}
    BY <1>3, <1>5
  <2>3. m \in Own(u)
    BY <1>3 DEF Own
  <2>4. Own(u)' = Own(u) /\ ToCome(u) = {m} /\ ToCome(u)' = {} /\ TakenOff(u) = {} /\ TakenOff(u)' = {}
    BY <1>1, <2>1 DEF Own, ToCome, TakenOff, m
  <2>5. Exact(u) /\ NoTwice(own[u])
    BY DEF Contents
  <2>6. Exact(u)'
    BY <1>1, <2>2, <2>3, <2>4, <2>5 DEF Exact
  <2> QED
    BY <1>1, <2>1, <2>5, <2>6 DEF About, NewIsApart, NoTwice
<1> QED
  BY <1>5, <1>6, <1>7, <1>8

\* A removal that finds its manager, as the list and the other clients see it.
LEMMA AboutRemove ==
    ASSUME Typed, Contents, NEW u \in Client, RemoveFromList(u), Current(u) \in Listed
    PROVE  NoTwice(list)' /\ Numbered' /\ \A v \in Client : About(v)'
<1> DEFINE m == Current(u)
<1>1. /\ pc[u] = "removing" /\ pc' = [pc EXCEPT ![u] = "shutting"] /\ list' = RemoveFirst(list, m)
      /\ UNCHANGED <<own, created, at, aborted>>
  BY DEF RemoveFromList
<1>2. at[u] \in 1 .. Len(own[u]) /\ m = own[u][at[u]] /\ m[1] = u /\ Len(own[u]) \in Nat
  BY <1>1, OwnFacts DEF Typed, TypeOK, Current
<1> HIDE DEF m
<1>3. list \in Seq(Manager) /\ NoTwice(list) /\ Len(list) \in Nat
  BY DEF Typed, TypeOK, Contents
<1>4. /\ Len(list') = Len(list) - 1
      /\ \E p \in 1 .. Len(list) : \A k \in 1 .. Len(list) - 1 :
            list'[k] = IF k < p THEN list[k] ELSE list[k + 1]
      /\ NoTwice(list)'
      /\ Listed' = Listed \ {m}
  BY <1>1, <1>3, ListShrinks DEF m
<1>5. Numbered'
  <2>1. \A k \in 1 .. Len(list) - 1 : k \in 1 .. Len(list) /\ k + 1 \in 1 .. Len(list)
    BY <1>3
  <2> QED
    BY <1>1, <1>4, <2>1 DEF Contents, Numbered
<1>6. ASSUME NEW v \in Client, v # u PROVE About(v)'
  <2>1. {x \in Listed' : x[1] = v} = {x \in Listed : x[1] = v}
    BY <1>2, <1>4, <1>6
  <2>2. pc'[v] = pc[v] /\ About(v)
    BY <1>1, <1>6 DEF Typed, TypeOK, Contents, About
  <2> QED
    BY <1>1, <2>1, <2>2, Bystander
<1>7. About(u)'
  <2>1. pc'[u] = "shutting"
    BY <1>1 DEF Typed, TypeOK
  <2>2. {x \in Listed' : x[1] = u} = {x \in Listed : x[1] = u} \ {m}
    BY <1>4
  <2>3. 1 .. at[u] = (1 .. at[u] - 1) \cup {at[u]}
    BY <1>2
  <2>4. TakenOff(u)' = TakenOff(u) \cup {m}
    BY <1>1, <1>2, <2>1, <2>3 DEF TakenOff
  <2>5. Own(u)' = Own(u) /\ ToCome(u) = {} /\ ToCome(u)' = {}
    BY <1>1, <2>1 DEF Own, ToCome
  <2>6. Exact(u) /\ NoTwice(own[u])
    BY DEF Contents
  <2>7. Exact(u)'
    BY <1>1, <2>2, <2>4, <2>5, <2>6 DEF Exact
  <2> QED
    BY <1>1, <2>1, <2>6, <2>7 DEF About, NewIsApart, NoTwice
<1> QED
  BY <1>4, <1>5, <1>6, <1>7

\* A step of a client on its way through its own list, which leaves the shared one alone.
LEMMA AboutMove ==
    ASSUME Typed, Contents, NEW u \in Client,
           Acquire(u) \/ Unsubscribe(u) \/ (RemoveFromList(u) /\ Current(u) \notin Listed) \/ Close(u)
    PROVE  About(u)'
<1>1. Exact(u) /\ NoTwice(own[u]) /\ NewIsApart(u)
  BY DEF Contents
<1>2. Len(own[u]) \in Nat /\ pc \in [Client -> UserPc] /\ at \in [Client -> Nat]
  BY OwnFacts DEF Typed, TypeOK
<1>3. ASSUME Acquire(u) PROVE About(u)'
  <2>1. pc[u] \in {"creating", "closing"} /\ UNCHANGED <<list, own, at, aborted>>
        /\ pc'[u] = IF pc[u] = "creating" THEN "appending" ELSE "removing"
    BY <1>2, <1>3 DEF Acquire
  <2>2. ToCome(u)' = ToCome(u) /\ TakenOff(u)' = TakenOff(u)
    BY <2>1 DEF ToCome, TakenOff
  <2> QED
    BY <1>1, <2>1, <2>2 DEF About, NoTwice, NewIsApart, Exact, Own, Listed
<1>4. ASSUME Unsubscribe(u) PROVE About(u)'
  <2>1. pc[u] = "idle" /\ pc'[u] = "closing" /\ at'[u] = 1 /\ UNCHANGED <<list, own, aborted>>
    BY <1>2, <1>4 DEF Unsubscribe
  <2>2. ToCome(u)' = ToCome(u) /\ TakenOff(u)' = TakenOff(u)
    BY <2>1 DEF ToCome, TakenOff
  <2> QED
    BY <1>1, <2>1, <2>2 DEF About, NoTwice, NewIsApart, Exact, Own, Listed
<1>5. ASSUME RemoveFromList(u), Current(u) \notin Listed PROVE About(u)'
  <2>1. /\ pc[u] = "removing" /\ pc'[u] = "stuck"
        /\ UNCHANGED <<list, own, at, aborted>>
    BY <1>2, <1>5 DEF RemoveFromList
  <2>2. at[u] \in 1 .. Len(own[u]) /\ Current(u) = own[u][at[u]]
    BY <2>1, OwnFacts DEF Typed, TypeOK, Current
  <2>3. aborted[u]
    <3> SUFFICES ASSUME ~aborted[u] PROVE FALSE
      OBVIOUS
    <3>1. Current(u) \in Own(u) /\ Current(u)[1] = u
      BY <2>2, OwnFacts DEF Own
    <3>2. Current(u) \notin ToCome(u) /\ Current(u) \notin TakenOff(u)
      BY <1>1, <1>2, <2>1, <2>2 DEF ToCome, TakenOff, NoTwice
    <3> QED
      BY <1>1, <1>5, <3>1, <3>2 DEF Exact
  <2> QED
    BY <1>1, <2>1, <2>3 DEF About, NoTwice, NewIsApart, Exact
<1>6. ASSUME Close(u) PROVE About(u)'
  <2>1. pc[u] = "shutting" /\ UNCHANGED list
    BY <1>6 DEF Close
  <2>2. at[u] \in 1 .. Len(own[u])
    BY <2>1, OwnFacts DEF Typed, TypeOK
  <2>3. CASE conn[Current(u)] \in Unclosable
    <3>1. pc'[u] = "idle" /\ aborted'[u] /\ UNCHANGED own
      BY <1>2, <1>6, <2>3 DEF Close, Typed, TypeOK
    <3> QED
      BY <1>1, <3>1 DEF About, NoTwice, NewIsApart, Exact
  <2>4. CASE conn[Current(u)] \notin Unclosable /\ at[u] < Len(own[u])
    <3>1. pc'[u] = "closing" /\ at'[u] = at[u] + 1 /\ UNCHANGED <<own, aborted>>
      BY <1>2, <1>6, <2>4 DEF Close
    <3>2. at'[u] - 1 = at[u]
      BY <2>2, <3>1
    <3>3. ToCome(u)' = ToCome(u)
      BY <2>1, <3>1 DEF ToCome
    <3>4. TakenOff(u)' = {own[u][k] : k \in 1 .. at[u]}
      BY <3>1, <3>2 DEF TakenOff
    <3>5. TakenOff(u) = {own[u][k] : k \in 1 .. at[u]}
      BY <2>1 DEF TakenOff
    <3> QED
      BY <1>1, <2>1, <3>1, <3>3, <3>4, <3>5 DEF About, NoTwice, NewIsApart, Exact, Own, Listed
  <2>5. CASE conn[Current(u)] \notin Unclosable /\ ~(at[u] < Len(own[u]))
    <3>1. pc'[u] = "idle" /\ own'[u] = <<>> /\ UNCHANGED aborted
      BY <1>2, <1>6, <2>5 DEF Close, Typed
    <3>2. Own(u)' = {} /\ NoTwice(own[u])'
      BY <3>1 DEF Own, NoTwice
    <3>3. TakenOff(u) = Own(u)
      <4>1. at[u] = Len(own[u])
        BY <1>2, <2>2, <2>5
      <4> QED
        BY <2>1, <4>1 DEF TakenOff, Own
    <3> QED
      BY <1>1, <2>1, <3>1, <3>2, <3>3 DEF About, NewIsApart, Exact, Listed
  <2> QED
    BY <2>3, <2>4, <2>5
<1> QED
  BY <1>3, <1>4, <1>5, <1>6

LEMMA StepContents == Typed /\ Contents /\ [Next]_vars => Contents'
<1> SUFFICES ASSUME Typed, Contents, [Next]_vars PROVE Contents'
  OBVIOUS
<1>1. \A v \in Client : About(v)
  BY DEF Contents, About
<1>2. NoTwice(list) /\ Numbered
  BY DEF Contents
<1>3. ASSUME NEW u \in Client, UNCHANGED list, Numbered', About(u)',
             \A v \in Client \ {u} : /\ pc'[v] = pc[v] /\ own'[v] = own[v]
                                     /\ at'[v] = at[v] /\ aborted'[v] = aborted[v]
      PROVE  Contents'
  <2>1. ASSUME NEW v \in Client \ {u} PROVE About(v)'
    BY <1>1, <1>3, Bystander DEF Listed
  <2>2. NoTwice(list)'
    BY <1>2, <1>3 DEF NoTwice
  <2> QED
    BY <1>3, <2>1, <2>2 DEF Contents, About
<1>4. ASSUME NEW u \in Client, Subscribe(u) PROVE Contents'
  <2>1. UNCHANGED list
    BY <1>4 DEF Subscribe
  <2>2. \A v \in Client \ {u} : /\ pc'[v] = pc[v] /\ own'[v] = own[v]
                                /\ at'[v] = at[v] /\ aborted'[v] = aborted[v]
    BY <1>4 DEF Subscribe, Typed, TypeOK
  <2> QED
    BY <1>3, <1>4, <2>1, <2>2, AboutSubscribe
<1>5. ASSUME NEW u \in Client,
             Acquire(u) \/ Unsubscribe(u) \/ (RemoveFromList(u) /\ Current(u) \notin Listed) \/ Close(u)
      PROVE  Contents'
  <2>1. UNCHANGED <<list, created>>
    BY <1>5 DEF Acquire, Unsubscribe, RemoveFromList, Close
  <2>2. Numbered'
    BY <1>2, <2>1 DEF Numbered
  <2>3. \A v \in Client \ {u} : /\ pc'[v] = pc[v] /\ own'[v] = own[v]
                                /\ at'[v] = at[v] /\ aborted'[v] = aborted[v]
    BY <1>5 DEF Acquire, Unsubscribe, RemoveFromList, Close, Typed, TypeOK
  <2> QED
    BY <1>3, <1>5, <2>1, <2>2, <2>3, AboutMove
<1>6. ASSUME NEW u \in Client, AppendToList(u) PROVE Contents'
  BY <1>6, AboutAppend DEF Contents, About
<1>7. ASSUME NEW u \in Client, RemoveFromList(u), Current(u) \in Listed PROVE Contents'
  BY <1>7, AboutRemove DEF Contents, About
<1>8. ASSUME UNCHANGED <<list, own, created, pc, at, aborted>> PROVE Contents'
  <2>1. \A v \in Client : About(v)'
    BY <1>1, <1>8, Bystander DEF Listed
  <2> QED
    BY <1>2, <1>8, <2>1 DEF Contents, About, NoTwice, Numbered
<1>9. ASSUME NEW m \in Manager, Live(m) PROVE Contents'
  BY <1>8, <1>9 DEF Live
<1>10. ASSUME NEW j \in Job, WatchDog(j) PROVE Contents'
  BY <1>8, <1>10 DEF WatchDog, Begin, Examine, End
<1>11. CASE UNCHANGED vars
  BY <1>8, <1>11 DEF vars
<1> QED
  BY <1>4, <1>5, <1>6, <1>7, <1>9, <1>10, <1>11 DEF Next, User

LEMMA StepStuck == Typed /\ Contents /\ StuckOnlyAfterAbort /\ [Next]_vars => StuckOnlyAfterAbort'
<1> SUFFICES ASSUME Typed, Contents, StuckOnlyAfterAbort, [Next]_vars PROVE StuckOnlyAfterAbort'
  OBVIOUS
<1>1. pc \in [Client -> UserPc] /\ aborted \in [Client -> BOOLEAN]
  BY DEF Typed, TypeOK
<1>2. ASSUME NEW u \in Client, RemoveFromList(u) PROVE StuckOnlyAfterAbort'
  <2>1. CASE Current(u) \in Listed
    BY <1>1, <1>2, <2>1 DEF RemoveFromList, StuckOnlyAfterAbort
  <2>2. CASE Current(u) \notin Listed
    <3>1. pc[u] = "removing" /\ pc' = [pc EXCEPT ![u] = "stuck"] /\ UNCHANGED aborted
      BY <1>2, <2>2 DEF RemoveFromList
    <3>2. at[u] \in 1 .. Len(own[u]) /\ Current(u) = own[u][at[u]] /\ Current(u)[1] = u /\ Len(own[u]) \in Nat
      BY <3>1, OwnFacts DEF Typed, TypeOK, Current
    <3>3. Current(u) \in Own(u) /\ Current(u) \notin ToCome(u) /\ Current(u) \notin TakenOff(u)
      BY <3>1, <3>2 DEF Own, ToCome, TakenOff, Contents, NoTwice
    <3>4. aborted[u]
      BY <2>2, <3>2, <3>3 DEF Contents, Exact
    <3> QED
      BY <1>1, <3>1, <3>4 DEF StuckOnlyAfterAbort
  <2> QED
    BY <2>1, <2>2
<1>3. ASSUME NEW u \in Client, Close(u) PROVE StuckOnlyAfterAbort'
  BY <1>1, <1>3 DEF Close, StuckOnlyAfterAbort
<1>4. ASSUME NEW u \in Client, Subscribe(u) \/ Acquire(u) \/ AppendToList(u) \/ Unsubscribe(u)
      PROVE  StuckOnlyAfterAbort'
  BY <1>1, <1>4 DEF Subscribe, Acquire, AppendToList, Unsubscribe, StuckOnlyAfterAbort
<1>5. ASSUME UNCHANGED <<pc, aborted>> PROVE StuckOnlyAfterAbort'
  BY <1>5 DEF StuckOnlyAfterAbort
<1>6. ASSUME NEW m \in Manager, Live(m) PROVE StuckOnlyAfterAbort'
  BY <1>5, <1>6 DEF Live
<1>7. ASSUME NEW j \in Job, WatchDog(j) PROVE StuckOnlyAfterAbort'
  BY <1>5, <1>7 DEF WatchDog, Begin, Examine, End
<1>8. CASE UNCHANGED vars
  BY <1>5, <1>8 DEF vars
<1> QED
  BY <1>2, <1>3, <1>4, <1>6, <1>7, <1>8 DEF Next, User

\* One more member makes a finite set at most one larger.
LEMMA OneMore ==
    ASSUME NEW A, NEW B, NEW x, NEW n \in Nat, IsFiniteSet(A), Cardinality(A) <= n, B \subseteq A \cup {x}
    PROVE  IsFiniteSet(B) /\ Cardinality(B) \in Nat /\ Cardinality(B) <= n + 1
<1>1. /\ IsFiniteSet(A \cup {x}) /\ Cardinality(A) \in Nat
      /\ Cardinality(A \cup {x}) = IF x \in A THEN Cardinality(A) ELSE Cardinality(A) + 1
  BY FS_AddElement, FS_CardinalityType
<1>2. IsFiniteSet(B) /\ Cardinality(B) <= Cardinality(A \cup {x})
  BY <1>1, FS_Subset
<1>3. Cardinality(B) \in Nat
  BY <1>2, FS_CardinalityType
<1> QED
  BY <1>1, <1>2, <1>3

LEMMA NoneMore ==
    ASSUME NEW A, NEW B, NEW n \in Nat, IsFiniteSet(A), Cardinality(A) <= n, B \subseteq A
    PROVE  IsFiniteSet(B) /\ Cardinality(B) <= n
<1>1. IsFiniteSet(B) /\ Cardinality(B) <= Cardinality(A)
  BY FS_Subset
<1>2. Cardinality(A) \in Nat /\ Cardinality(B) \in Nat
  BY <1>1, FS_CardinalityType
<1> QED
  BY <1>1, <1>2

LEMMA StepWalks == Typed /\ Contents /\ Walks /\ [Next]_vars => Walks'
<1> SUFFICES ASSUME Typed, Contents, Walks, [Next]_vars PROVE Walks'
  OBVIOUS
<1>1. /\ list \in Seq(Manager) /\ NoTwice(list) /\ Len(list) \in Nat
      /\ Listed = {list[k] : k \in 1 .. Len(list)}
  <2>1. list \in Seq(Manager) /\ NoTwice(list)
    BY DEF Typed, TypeOK, Contents
  <2>2. DOMAIN list = 1 .. Len(list) /\ Len(list) \in Nat
    BY <2>1, LenProperties
  <2> QED
    BY <2>1, <2>2 DEF Listed
<1>2. /\ pass \in [Job -> Walk]
      /\ \A j \in Job : pass[j].next \in Nat /\ pass[j].removed \in Nat
  BY DEF Typed, Walk
<1>3. ASSUME UNCHANGED <<list, pass>> PROVE Walks'
  BY <1>3 DEF Walks, WalkOK, Passed, Listed
<1>4. ASSUME NEW u \in Client, AppendToList(u) PROVE Walks'
  <2> DEFINE m == Last(own[u])
  <2>1. /\ pc[u] = "appending" /\ list' = Append(list, m) /\ UNCHANGED pass
    BY <1>4 DEF AppendToList
  <2>2. m \in Manager /\ m \notin Listed
    BY <2>1, OwnFacts DEF Contents, NewIsApart
  <2> HIDE DEF m
  <2>3. /\ Len(list') = Len(list) + 1
        /\ \A k \in 1 .. Len(list) : list'[k] = list[k]
        /\ list'[Len(list) + 1] = m
        /\ Listed' = Listed \cup {m}
    BY <1>1, <2>1, <2>2, ListGrows
  <2>4. 1 .. Len(list) + 1 = (1 .. Len(list)) \cup {Len(list) + 1}
    BY <1>1
  <2>5. ASSUME NEW j \in Job PROVE WalkOK(j)'
    <3>1. WalkOK(j)
      BY DEF Walks
    <3>2. Passed(j)' \subseteq Passed(j)
      BY <2>1, <2>2, <2>3, <2>4, <3>1 DEF Passed, WalkOK
    <3> QED
      BY <1>2, <2>1, <2>3, <3>1, <3>2, NoneMore DEF WalkOK
  <2> QED
    BY <2>5 DEF Walks
<1>5. ASSUME NEW u \in Client, RemoveFromList(u), Current(u) \in Listed PROVE Walks'
  <2> DEFINE m == Current(u)
  <2>1. /\ list' = RemoveFirst(list, m)
        /\ pass' = [j \in Job |-> IF pass[j] = NoPass THEN NoPass
                                   ELSE [next |-> pass[j].next, missed |-> pass[j].missed \ {m},
                                         removed |-> pass[j].removed + 1]]
    BY <1>5 DEF RemoveFromList
  <2>2. m \in Listed
    BY <1>5
  <2> HIDE DEF m
  <2>3. /\ Len(list') = Len(list) - 1
        /\ \E p \in 1 .. Len(list) : \A k \in 1 .. Len(list) - 1 :
              list'[k] = IF k < p THEN list[k] ELSE list[k + 1]
        /\ Listed' = Listed \ {m}
    BY <1>1, <2>1, <2>2, ListShrinks
  <2>4. ASSUME NEW j \in Job PROVE WalkOK(j)'
    <3>1. WalkOK(j)
      BY DEF Walks
    <3>2. CASE pass[j] = NoPass
      <4>1. pass'[j].missed = {} /\ pass'[j].removed = 0
        BY <2>1, <3>2 DEF NoPass
      <4>2. Passed(j)' = {}
        BY <4>1 DEF Passed
      <4>3. IsFiniteSet({}) /\ Cardinality({}) = 0
        BY FS_EmptySet
      <4> QED
        BY <4>1, <4>2, <4>3 DEF WalkOK
    <3>3. CASE pass[j] # NoPass
      <4>1. /\ pass'[j].next = pass[j].next
            /\ pass'[j].missed = pass[j].missed \ {m}
            /\ pass'[j].removed = pass[j].removed + 1
        BY <2>1, <3>3
      <4>2. ASSUME NEW x \in Passed(j)' PROVE x \in Passed(j) \cup {list[pass[j].next]}
        <5>1. PICK k \in 1 .. Len(list) - 1 : k < pass[j].next /\ x = list'[k]
          BY <2>3, <4>1, <4>2 DEF Passed
        <5>2. x \in pass[j].missed
          BY <4>1, <4>2 DEF Passed
        <5>3. k \in 1 .. Len(list) /\ k + 1 \in 1 .. Len(list)
              /\ (k + 1 < pass[j].next \/ k + 1 = pass[j].next)
          BY <1>1, <1>2, <5>1
        <5>4. x = list[k] \/ x = list[k + 1]
          BY <2>3, <5>1
        <5> QED
          BY <5>1, <5>2, <5>3, <5>4 DEF Passed
      <4>3. IsFiniteSet(Passed(j)') /\ Cardinality(Passed(j)') <= pass[j].removed + 1
        <5>1. Passed(j)' \subseteq Passed(j) \cup {list[pass[j].next]}
          BY <4>2
        <5>2. IsFiniteSet(Passed(j)) /\ Cardinality(Passed(j)) <= pass[j].removed /\ pass[j].removed \in Nat
          BY <1>2, <3>1 DEF WalkOK
        <5> DEFINE A == Passed(j)
                   B == Passed(j)'
                   x == list[pass[j].next]
                   n == pass[j].removed
        <5>3. n \in Nat /\ IsFiniteSet(A) /\ Cardinality(A) <= n /\ B \subseteq A \cup {x}
          BY <5>1, <5>2
        <5> HIDE DEF A, B, x, n
        <5>4. IsFiniteSet(B) /\ Cardinality(B) <= n + 1
          BY <5>3, OneMore
        <5> QED
          BY <5>4 DEF B, n
      <4>4. pass'[j].missed \subseteq Listed'
        BY <2>3, <3>1, <4>1 DEF WalkOK
      <4> QED
        BY <4>1, <4>3, <4>4 DEF WalkOK
    <3> QED
      BY <3>2, <3>3
  <2> QED
    BY <2>4 DEF Walks
<1>6. ASSUME NEW j \in Job, UNCHANGED list, NEW r \in Walk, pass' = [pass EXCEPT ![j] = r],
             WalkOK(j)'
      PROVE  Walks'
  <2>1. ASSUME NEW i \in Job, i # j PROVE WalkOK(i)'
    <3>1. pass'[i] = pass[i] /\ WalkOK(i)
      BY <1>2, <1>6, <2>1 DEF Walks
    <3> QED
      BY <1>6, <3>1 DEF WalkOK, Passed, Listed
  <2> QED
    BY <1>6, <2>1 DEF Walks
<1>7. ASSUME NEW j \in Job, NEW r \in Walk, r.next <= 1, r.removed = 0, r.missed \subseteq Listed,
             UNCHANGED list, pass' = [pass EXCEPT ![j] = r]
      PROVE  Walks'
  <2>1. pass'[j] = r
    BY <1>2, <1>7
  <2>2. Passed(j)' = {}
    BY <1>7, <2>1 DEF Passed, Walk
  <2>3. IsFiniteSet({}) /\ Cardinality({}) = 0
    BY FS_EmptySet
  <2>4. WalkOK(j)'
    BY <1>7, <2>1, <2>2, <2>3 DEF WalkOK, Listed
  <2> QED
    BY <1>6, <1>7, <2>4
<1>8. ASSUME NEW j \in Job, Begin(j) PROVE Walks'
  <2> DEFINE r == [next |-> 1, missed |-> Listed, removed |-> 0]
  <2>1. r \in Walk /\ r.next <= 1 /\ r.removed = 0 /\ r.missed \subseteq Listed
    BY <1>1 DEF Walk
  <2>2. UNCHANGED list /\ pass' = [pass EXCEPT ![j] = r]
    BY <1>8 DEF Begin
  <2> HIDE DEF r
  <2> QED
    BY <1>7, <2>1, <2>2
<1>9. ASSUME NEW j \in Job, End(j) PROVE Walks'
  <2>1. NoPass \in Walk /\ NoPass.next <= 1 /\ NoPass.removed = 0 /\ NoPass.missed \subseteq Listed
    BY DEF NoPass, Walk
  <2> QED
    BY <1>7, <1>9, <2>1 DEF End
<1>10. ASSUME NEW j \in Job, Examine(j) PROVE Walks'
  <2> DEFINE m == list[pass[j].next]
             r == [next |-> pass[j].next + 1, missed |-> pass[j].missed \ {m},
                   removed |-> pass[j].removed]
  <2>1. UNCHANGED list /\ pass' = [pass EXCEPT ![j] = r]
    BY <1>10 DEF Examine
  <2>2. r \in Walk
    BY <1>2 DEF Walk
  <2>3. pass'[j] = r
    BY <1>2, <2>1
  <2>4. WalkOK(j)
    BY DEF Walks
  <2>5. Passed(j)' \subseteq Passed(j)
    <3>1. ASSUME NEW k \in 1 .. Len(list), k < pass[j].next + 1
          PROVE  k < pass[j].next \/ k = pass[j].next
      BY <1>1, <1>2, <3>1
    <3> QED
      BY <2>1, <2>3, <3>1 DEF Passed
  <2>6. WalkOK(j)'
    <3>1. IsFiniteSet(Passed(j)') /\ Cardinality(Passed(j)') <= pass[j].removed
      BY <1>2, <2>4, <2>5, NoneMore DEF WalkOK
    <3>2. pass'[j].missed \subseteq Listed'
      BY <2>1, <2>3, <2>4 DEF WalkOK, Listed
    <3> QED
      BY <2>3, <3>1, <3>2 DEF WalkOK
  <2> QED
    BY <1>6, <2>1, <2>2, <2>6
<1>11. ASSUME NEW u \in Client,
              \/ Subscribe(u) \/ Acquire(u) \/ Unsubscribe(u) \/ Close(u)
              \/ RemoveFromList(u) /\ Current(u) \notin Listed
       PROVE  Walks'
  BY <1>3, <1>11 DEF Subscribe, Acquire, Unsubscribe, Close, RemoveFromList
<1>12. ASSUME NEW m \in Manager, Live(m) PROVE Walks'
  BY <1>3, <1>12 DEF Live
<1>13. CASE UNCHANGED vars
  BY <1>3, <1>13 DEF vars
<1> QED
  BY <1>4, <1>5, <1>8, <1>9, <1>10, <1>11, <1>12, <1>13 DEF Next, User, WatchDog

-----------------------------------------------------------------------------
LEMMA ListInvariant == Spec => [](Typed /\ Contents /\ StuckOnlyAfterAbort /\ Walks)
  BY StartList, StepTyped, StepContents, StepStuck, StepWalks, PTL DEF Spec

\* Every variable keeps its type; in particular, no loop of unsubscribe_all ever stands
\* at an index its own list does not have.
THEOREM TypeCorrect == Spec => []TypeOK
<1>1. Typed => TypeOK
  BY DEF Typed
<1> QED
  BY <1>1, ListInvariant, PTL

\* A sequence without duplicates has as many members as it is long.
LEMMA AsManyAsLong ==
    ASSUME NEW S, NEW s \in Seq(S), NoTwice(s)
    PROVE  Cardinality({s[k] : k \in DOMAIN s}) = Len(s)
<1> DEFINE D == 1 .. Len(s)
           R == {s[k] : k \in DOMAIN s}
<1>1. DOMAIN s = D /\ Len(s) \in Nat
  OBVIOUS
<1>2. IsFiniteSet(D) /\ Cardinality(D) = Len(s)
  BY <1>1, FS_Interval
<1>3. s \in [D -> R]
  BY <1>1
<1>4. s \in Surjection(D, R) /\ s \in Injection(D, R)
  BY <1>1, <1>3 DEF Surjection, Injection, IsInjective, NoTwice
<1> HIDE DEF D, R
<1>5. Cardinality(R) = Cardinality(D)
  BY <1>2, <1>4, FS_Surjection
<1> QED
  BY <1>2, <1>5 DEF R

\* The shared list holds, once each, the managers its users have created and not taken
\* off: no append or removal of one client's thread is lost to another's.
THEOREM ListHoldsItsManagers == Spec => []ListIsExact
<1>1. Typed /\ Contents => ListIsExact
  <2> SUFFICES ASSUME Typed, Contents PROVE ListIsExact
    OBVIOUS
  <2>1. Cardinality(Listed) = Len(list)
    BY AsManyAsLong DEF Typed, TypeOK, Contents, Listed
  <2>2. \A u \in Client : Own(u) = {own[u][k] : k \in DOMAIN own[u]}
    BY OwnFacts DEF Own
  <2> QED
    BY <2>1, <2>2 DEF ListIsExact, Contents, Exact
<1> QED
  BY <1>1, ListInvariant, PTL

\* Only a second unsubscribe_all, of a client whose first one broke off, loses the lock.
THEOREM LostOnlyAfterAbort == Spec => []StuckOnlyAfterAbort
  BY ListInvariant, PTL

\* A walk over the list passes over at most one manager for each removal meanwhile.
THEOREM WalksMissFew == Spec => []MissesOnePerRemoval
<1>1. Typed /\ Walks => MissesOnePerRemoval
  <2> SUFFICES ASSUME Typed, Walks, NEW j \in Job, pass[j].next > Len(list)
               PROVE  Cardinality(pass[j].missed) <= pass[j].removed
    BY DEF MissesOnePerRemoval
  <2>1. Len(list) \in Nat /\ pass[j].next \in Nat /\ DOMAIN list = 1 .. Len(list)
    BY DEF Typed, TypeOK, Walk
  <2>2. \A k \in 1 .. Len(list) : k < pass[j].next
    BY <2>1
  <2>3. WalkOK(j)
    BY DEF Walks
  <2>4. Passed(j) = pass[j].missed
    BY <2>1, <2>2, <2>3 DEF WalkOK, Passed, Listed
  <2> QED
    BY <2>3, <2>4 DEF WalkOK
<1> QED
  BY <1>1, ListInvariant, PTL
=============================================================================
