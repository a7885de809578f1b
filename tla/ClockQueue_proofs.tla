-------------------------- MODULE ClockQueue_proofs --------------------------
(***************************************************************************)
(* Proofs about ClockQueue, for any timers, intervals and lengths of tick  *)
(* that satisfy its assumptions.                                           *)
(*                                                                         *)
(* Everything is said of the time at which an entry goes off, Left: the    *)
(* sum of the ticks up to it.  Inserting and deleting change nobody        *)
(* else's; a tick takes one from all of them; the loop is at the head      *)
(* exactly while that is due.  The inductive invariant adds that every     *)
(* timer's interval was converted with the present length of a tick, and   *)
(* that the keep-alive goes off before any timer a callout could start:    *)
(* that is what keeps the pointer clk_synctimeout saved before the callout *)
(* pointing at the entry behind the due one.                               *)
(***************************************************************************)
EXTENDS ClockQueue, NatInduction, SequenceTheorems

-----------------------------------------------------------------------------
(* Sums of ticks                                                           *)

Sums(g, q, n) == g[0] = 0 /\ \A i \in 1..n : g[i] = g[i - 1] + q.tk[q.s[i]]

\* The recursive sum is the only one that begins with 0 and grows by each entry's ticks.
LEMMA SumUnique ==
    ASSUME NEW q, NEW n \in Nat, NEW g, Sums(g, q, n)
    PROVE  SumTo(q, n) = g[n]
<1> DEFINE Rec(f) == f = [i \in 0..n |-> IF i = 0 THEN 0 ELSE f[i-1] + q.tk[q.s[i]]]
           G == [i \in 0..n |-> g[i]]
<1>1. G = [i \in 0..n |-> IF i = 0 THEN 0 ELSE G[i-1] + q.tk[q.s[i]]]
  <2>1. ASSUME NEW i \in 0..n
        PROVE  G[i] = IF i = 0 THEN 0 ELSE G[i-1] + q.tk[q.s[i]]
    <3>1. CASE i = 0 BY <3>1 DEF Sums
    <3>2. CASE i # 0
      <4>1. i \in 1..n /\ i - 1 \in 0..n BY <3>2
      <4> QED BY <4>1, <3>2 DEF Sums
    <3> QED BY <3>1, <3>2
  <2> QED BY <2>1
<1> DEFINE h == CHOOSE f : Rec(f)
<1>2. Rec(h)
  <2>1. \E f : Rec(f) BY <1>1
  <2> QED BY <2>1
<1>3. SumTo(q, n) = h[n] BY DEF SumTo
<1>4. \A i \in 0..n : h[i] = IF i = 0 THEN 0 ELSE h[i-1] + q.tk[q.s[i]] BY <1>2
<1> HIDE DEF h
<1> DEFINE S == {i \in 0..n : h[i] = g[i]}
<1>5. 0 \in S BY <1>4 DEF Sums
<1>6. ASSUME NEW i \in 0..n, i \in S, i < n PROVE i + 1 \in S
  <2>1. i + 1 \in 1..n /\ i + 1 \in 0..n /\ (i + 1) - 1 = i /\ i + 1 # 0 BY <1>6
  <2>2. h[i + 1] = h[i] + q.tk[q.s[i + 1]] BY <2>1, <1>4
  <2>3. g[i + 1] = g[i] + q.tk[q.s[i + 1]] BY <2>1 DEF Sums
  <2> QED BY <2>1, <2>2, <2>3, <1>6
<1>7. \A i \in 0..n : i \in S
  <2>1. S \in SUBSET (0..n) OBVIOUS
  <2> HIDE DEF S
  <2> QED BY <1>5, <1>6, <2>1, UpTo
<1>8. h[n] = g[n] BY <1>7
<1> QED BY <1>3, <1>8

\* There is such a sum, of integers if the ticks are.
LEMMA SumExists ==
    ASSUME NEW q, NEW n \in Nat, \A i \in 1..n : q.tk[q.s[i]] \in Int
    PROVE  \E g \in [0..n -> Int] : Sums(g, q, n)
<1> DEFINE S == {m \in 0..n : \E g \in [0..m -> Int] : Sums(g, q, m)}
<1>1. 0 \in S
  <2>1. [i \in 0..0 |-> 0] \in [0..0 -> Int] /\ Sums([i \in 0..0 |-> 0], q, 0)
    BY DEF Sums
  <2> QED BY <2>1
<1>2. ASSUME NEW m \in 0..n, m \in S, m < n PROVE m + 1 \in S
  <2>1. PICK g \in [0..m -> Int] : Sums(g, q, m) BY <1>2
  <2>2. q.tk[q.s[m + 1]] \in Int BY <1>2
  <2> DEFINE x == q.tk[q.s[m + 1]]
             G == [i \in 0..(m + 1) |-> IF i = m + 1 THEN g[m] + x ELSE g[i]]
  <2>3. G \in [0..(m + 1) -> Int] 
    <3> HIDE DEF x
    <3> QED BY <2>1, <2>2 DEF x
  <2>4. G[0] = 0 BY <2>1 DEF Sums
  <2>5. ASSUME NEW i \in 1..(m + 1) PROVE G[i] = G[i - 1] + q.tk[q.s[i]]
    <3>1. CASE i = m + 1 
       <4>1. G[i] = g[m] + x /\ G[i - 1] = g[m] BY <3>1
       <4> QED BY <4>1, <3>1
    <3>2. CASE i # m + 1
       <4>1. i \in 1..m /\ i \in 0..m /\ i - 1 \in 0..m BY <3>2
       <4>2. G[i] = g[i] /\ G[i - 1] = g[i - 1] BY <4>1
       <4>3. g[i] = g[i - 1] + q.tk[q.s[i]] BY <4>1, <2>1 DEF Sums
       <4> QED BY <4>2, <4>3
    <3> QED BY <3>1, <3>2
  <2>6. Sums(G, q, m + 1) BY <2>4, <2>5 DEF Sums
  <2>7. m + 1 \in 0..n BY <1>2
  <2> HIDE DEF G
  <2> QED BY <2>3, <2>6, <2>7
<1>3. \A m \in 0..n : m \in S
  <2>1. S \in SUBSET (0..n) OBVIOUS
  <2> HIDE DEF S
  <2> QED BY <1>1, <1>2, <2>1, UpTo
<1> QED BY <1>3

\* SumTo begins with 0 and grows by the ticks of each entry.
LEMMA SumFact ==
    ASSUME NEW q, NEW n \in Nat, \A i \in 1..n : q.tk[q.s[i]] \in Int
    PROVE  /\ SumTo(q, 0) = 0
           /\ \A i \in 0..n : SumTo(q, i) \in Int
           /\ \A i \in 1..n : SumTo(q, i) = SumTo(q, i - 1) + q.tk[q.s[i]]
<1>1. PICK g \in [0..n -> Int] : Sums(g, q, n) BY SumExists
<1>2. ASSUME NEW i \in 0..n PROVE SumTo(q, i) = g[i]
  <2>1. Sums(g, q, i) BY <1>1 DEF Sums
  <2> QED BY <2>1, SumUnique
<1>3. SumTo(q, 0) = 0 BY <1>1, <1>2 DEF Sums
<1>4. \A i \in 0..n : SumTo(q, i) \in Int BY <1>2
<1>5. ASSUME NEW i \in 1..n PROVE SumTo(q, i) = SumTo(q, i - 1) + q.tk[q.s[i]]
  <2>1. i \in 0..n /\ i - 1 \in 0..n OBVIOUS
  <2>2. g[i] = g[i - 1] + q.tk[q.s[i]] BY <1>1 DEF Sums
  <2> QED BY <2>1, <2>2, <1>2
<1> QED BY <1>3, <1>4, <1>5

-----------------------------------------------------------------------------
(* The queue                                                               *)

QType == [s : Seq(Timer), tk : [Timer -> Int]]

Distinct(s) == \A i, j \in 1..Len(s) : s[i] = s[j] => i = j

\* What every operation on the queue may rely on.
Proper(q) ==
    /\ q \in QType
    /\ Distinct(q.s)
    /\ \A i \in 1..Len(q.s) : q.tk[q.s[i]] >= 0

\* When entry x goes off.
Left(q, x) == SumTo(q, PosOf(q.s, x))

\* On a proper queue the sums are natural numbers.
LEMMA ProperSums ==
    ASSUME NEW q, Proper(q)
    PROVE  /\ Len(q.s) \in Nat
           /\ \A i \in 1..Len(q.s) : q.s[i] \in Timer /\ q.tk[q.s[i]] \in Nat
           /\ SumTo(q, 0) = 0
           /\ \A i \in 0..Len(q.s) : SumTo(q, i) \in Nat
           /\ \A i \in 1..Len(q.s) : SumTo(q, i) = SumTo(q, i - 1) + q.tk[q.s[i]]
<1>1. Len(q.s) \in Nat BY DEF Proper, QType
<1>2. \A i \in 1..Len(q.s) : q.s[i] \in Timer /\ q.tk[q.s[i]] \in Nat BY DEF Proper, QType
<1>3. /\ SumTo(q, 0) = 0
      /\ \A i \in 0..Len(q.s) : SumTo(q, i) \in Int
      /\ \A i \in 1..Len(q.s) : SumTo(q, i) = SumTo(q, i - 1) + q.tk[q.s[i]]
  <2>1. \A i \in 1..Len(q.s) : q.tk[q.s[i]] \in Int BY <1>2
  <2> QED BY <1>1, <2>1, SumFact
<1> DEFINE S == {i \in 0..Len(q.s) : SumTo(q, i) >= 0}
<1>4. 0 \in S BY <1>1, <1>3
<1>5. ASSUME NEW i \in 0..Len(q.s), i \in S, i < Len(q.s) PROVE i + 1 \in S
  <2>1. i + 1 \in 1..Len(q.s) /\ (i + 1) - 1 = i BY <1>1, <1>5
  <2>2. SumTo(q, i + 1) = SumTo(q, i) + q.tk[q.s[i + 1]] BY <2>1, <1>3
  <2>3. SumTo(q, i) \in Nat BY <1>3, <1>5
  <2> QED BY <2>1, <2>2, <2>3, <1>2
<1>6. \A i \in 0..Len(q.s) : i \in S
  <2>1. S \in SUBSET (0..Len(q.s)) OBVIOUS
  <2> HIDE DEF S
  <2> QED BY <1>1, <1>4, <1>5, <2>1, UpTo
<1> QED BY <1>1, <1>2, <1>3, <1>6

\* Later entries do not go off earlier.
LEMMA SumMonotone ==
    ASSUME NEW q, Proper(q), NEW j \in 0..Len(q.s), NEW i \in 0..j
    PROVE  SumTo(q, i) <= SumTo(q, j)
<1> DEFINE S == {m \in 0..j : m < i \/ SumTo(q, i) <= SumTo(q, m)}
<1>1. Len(q.s) \in Nat /\ j \in Nat /\ \A m \in 0..Len(q.s) : SumTo(q, m) \in Nat
  BY ProperSums
<1>2. 0 \in S BY <1>1
<1>3. ASSUME NEW m \in 0..j, m \in S, m < j PROVE m + 1 \in S
  <2>1. m + 1 \in 1..Len(q.s) /\ (m + 1) - 1 = m BY <1>1, <1>3
  <2>2. SumTo(q, m + 1) = SumTo(q, m) + q.tk[q.s[m + 1]] /\ q.tk[q.s[m + 1]] \in Nat
    BY <2>1, ProperSums
  <2>3. SumTo(q, i) \in Nat /\ SumTo(q, m) \in Nat /\ SumTo(q, m + 1) \in Nat /\ i \in Nat
    BY <1>1, <2>1
  <2>4. CASE m < i
    <3>1. m + 1 < i \/ m + 1 = i BY <1>1, <2>3, <2>4
    <3> QED BY <3>1, <2>3, <1>3
  <2>5. CASE SumTo(q, i) <= SumTo(q, m)
    <3>1. SumTo(q, i) <= SumTo(q, m + 1) BY <2>2, <2>3, <2>5
    <3> QED BY <3>1, <1>3
  <2> QED BY <2>4, <2>5, <1>3
<1>4. \A m \in 0..j : m \in S
  <2>1. S \in SUBSET (0..j) OBVIOUS
  <2> HIDE DEF S
  <2> QED BY <1>1, <1>2, <1>3, <2>1, UpTo
<1> QED BY <1>1, <1>4

\* A position and the entry at it determine each other.
LEMMA PosFact ==
    ASSUME NEW s \in Seq(Timer), Distinct(s)
    PROVE  /\ \A i \in 1..Len(s) : PosOf(s, s[i]) = i
           /\ \A x \in OnQueue(s) : PosOf(s, x) \in 1..Len(s) /\ s[PosOf(s, x)] = x
<1>1. ASSUME NEW i \in 1..Len(s) PROVE PosOf(s, s[i]) = i
  BY DEF PosOf, Distinct
<1> QED BY <1>1 DEF OnQueue

\* Linking an entry in after the k-th, and the p-th one out.
LEMMA LinkIn ==
    ASSUME NEW s \in Seq(Timer), NEW t \in Timer, NEW k \in 0..Len(s)
    PROVE  LET r == SubSeq(s, 1, k) \o <<t>> \o SubSeq(s, k + 1, Len(s))
           IN  /\ r \in Seq(Timer) /\ Len(r) = Len(s) + 1
               /\ \A i \in 1..k : r[i] = s[i]
               /\ r[k + 1] = t
               /\ \A i \in (k + 2)..(Len(s) + 1) : r[i] = s[i - 1]
<1> DEFINE a == SubSeq(s, 1, k)
           b == SubSeq(s, k + 1, Len(s))
           at == a \o <<t>>
           r == at \o b
<1>1. Len(s) \in Nat /\ k \in Nat /\ \A i \in 1..Len(s) : s[i] \in Timer OBVIOUS
<1>2. a \in Seq(Timer) /\ Len(a) = k /\ \A i \in 1..k : a[i] = s[i]
  <2>1. \A i \in 1..k : s[i] \in Timer BY <1>1
  <2>2. /\ a \in Seq(Timer) /\ Len(a) = IF 1 <= k THEN k - 1 + 1 ELSE 0
        /\ \A i \in 1..(k - 1 + 1) : a[i] = s[1 + i - 1]
    BY <1>1, <2>1, SubSeqProperties
  <2> HIDE DEF a
  <2> QED BY <1>1, <2>2
<1>3. b \in Seq(Timer) /\ Len(b) = Len(s) - k /\ \A i \in 1..(Len(s) - k) : b[i] = s[k + i]
  <2>1. \A i \in (k + 1)..Len(s) : s[i] \in Timer BY <1>1
  <2>2. /\ b \in Seq(Timer) /\ Len(b) = IF k + 1 <= Len(s) THEN Len(s) - (k + 1) + 1 ELSE 0
        /\ \A i \in 1..(Len(s) - (k + 1) + 1) : b[i] = s[(k + 1) + i - 1]
    BY <1>1, <2>1, SubSeqProperties
  <2> HIDE DEF b
  <2> QED BY <1>1, <2>2
<1> HIDE DEF a, b
<1>4. /\ at \in Seq(Timer) /\ Len(at) = k + 1
      /\ \A i \in 1..(k + 1) : at[i] = IF i <= k THEN a[i] ELSE t
  BY <1>1, <1>2
<1> HIDE DEF at
<1>5. /\ r \in Seq(Timer) /\ Len(r) = Len(s) + 1
      /\ \A i \in 1..(Len(s) + 1) : r[i] = IF i <= k + 1 THEN at[i] ELSE b[i - (k + 1)]
  <2>1. /\ r \in Seq(Timer) /\ Len(r) = Len(at) + Len(b)
        /\ \A i \in 1..(Len(at) + Len(b)) : r[i] = IF i <= Len(at) THEN at[i] ELSE b[i - Len(at)]
    BY <1>3, <1>4, ConcatProperties
  <2>2. Len(at) + Len(b) = Len(s) + 1 BY <1>1, <1>3, <1>4
  <2> QED BY <2>1, <2>2, <1>4
<1> HIDE DEF r
<1>6. \A i \in 1..k : r[i] = s[i] BY <1>1, <1>2, <1>4, <1>5
<1>7. r[k + 1] = t BY <1>1, <1>4, <1>5
<1>8. ASSUME NEW i \in (k + 2)..(Len(s) + 1) PROVE r[i] = s[i - 1]
  <2>1. r[i] = b[i - (k + 1)] BY <1>1, <1>5
  <2>2. i - (k + 1) \in 1..(Len(s) - k) /\ k + (i - (k + 1)) = i - 1 BY <1>1
  <2> QED BY <2>1, <2>2, <1>3
<1>9. r \in Seq(Timer) /\ Len(r) = Len(s) + 1 BY <1>5
<1> QED BY <1>6, <1>7, <1>8, <1>9 DEF r, at, a, b

\* Linking the p-th entry out: the entries behind it move up.
LEMMA LinkOut ==
    ASSUME NEW s \in Seq(Timer), NEW p \in 1..Len(s)
    PROVE  LET r == Cut(s, p, p + 1)
           IN  /\ r \in Seq(Timer) /\ Len(r) = Len(s) - 1
               /\ \A i \in 1..(p - 1) : r[i] = s[i]
               /\ \A i \in p..(Len(s) - 1) : r[i] = s[i + 1]
<1> DEFINE a == SubSeq(s, 1, p - 1)
           b == SubSeq(s, p + 1, Len(s))
           r == a \o b
<1>1. Len(s) \in Nat /\ p \in Nat /\ p >= 1 /\ \A i \in 1..Len(s) : s[i] \in Timer OBVIOUS
<1>2. a \in Seq(Timer) /\ Len(a) = p - 1 /\ \A i \in 1..(p - 1) : a[i] = s[i]
  <2>1. \A i \in 1..(p - 1) : s[i] \in Timer BY <1>1
  <2>2. /\ a \in Seq(Timer) /\ Len(a) = IF 1 <= p - 1 THEN (p - 1) - 1 + 1 ELSE 0
        /\ \A i \in 1..((p - 1) - 1 + 1) : a[i] = s[1 + i - 1]
    BY <1>1, <2>1, SubSeqProperties
  <2> HIDE DEF a
  <2> QED BY <1>1, <2>2
<1>3. b \in Seq(Timer) /\ Len(b) = Len(s) - p /\ \A i \in 1..(Len(s) - p) : b[i] = s[p + i]
  <2>1. \A i \in (p + 1)..Len(s) : s[i] \in Timer BY <1>1
  <2>2. /\ b \in Seq(Timer) /\ Len(b) = IF p + 1 <= Len(s) THEN Len(s) - (p + 1) + 1 ELSE 0
        /\ \A i \in 1..(Len(s) - (p + 1) + 1) : b[i] = s[(p + 1) + i - 1]
    BY <1>1, <2>1, SubSeqProperties
  <2> HIDE DEF b
  <2> QED BY <1>1, <2>2
<1> HIDE DEF a, b
<1>4. /\ r \in Seq(Timer) /\ Len(r) = Len(s) - 1
      /\ \A i \in 1..(Len(s) - 1) : r[i] = IF i <= p - 1 THEN a[i] ELSE b[i - (p - 1)]
  <2>1. /\ r \in Seq(Timer) /\ Len(r) = Len(a) + Len(b)
        /\ \A i \in 1..(Len(a) + Len(b)) : r[i] = IF i <= Len(a) THEN a[i] ELSE b[i - Len(a)]
    BY <1>2, <1>3, ConcatProperties
  <2>2. Len(a) + Len(b) = Len(s) - 1 BY <1>1, <1>2, <1>3
  <2> QED BY <2>1, <2>2, <1>2
<1> HIDE DEF r
<1>5. \A i \in 1..(p - 1) : r[i] = s[i] BY SMTT(30), <1>1, <1>2, <1>4
<1>6. ASSUME NEW i \in p..(Len(s) - 1) PROVE r[i] = s[i + 1]
  <2>1. r[i] = b[i - (p - 1)] BY <1>1, <1>4
  <2>2. i - (p - 1) \in 1..(Len(s) - p) /\ p + (i - (p - 1)) = i + 1 BY <1>1
  <2> QED BY <2>1, <2>2, <1>3
<1> QED BY <1>4, <1>5, <1>6 DEF r, a, b, Cut

-----------------------------------------------------------------------------
(* Insertion                                                               *)

\* There is a place for every interval.
LEMMA PlaceExists ==
    ASSUME NEW q, Proper(q), NEW tim \in Nat
    PROVE  \E k \in 0..Len(q.s) : /\ \A i \in 1..k : SumTo(q, i) <= tim
                                  /\ k < Len(q.s) => SumTo(q, k + 1) > tim
<1>1. Len(q.s) \in Nat /\ \A i \in 0..Len(q.s) : SumTo(q, i) \in Nat
  BY ProperSums
<1> DEFINE T == {k \in 0..Len(q.s) : k < Len(q.s) => SumTo(q, k + 1) > tim}
<1>2. Len(q.s) \in T BY <1>1
<1>3. PICK k \in T : \A m \in T : k <= m
  <2>1. T \in SUBSET Nat OBVIOUS
  <2> HIDE DEF T
  <2> QED BY <1>2, <2>1, LeastNat
<1>4. ASSUME NEW i \in 1..k PROVE SumTo(q, i) <= tim
  <2>1. i - 1 \in 0..Len(q.s) /\ i - 1 < k /\ i - 1 < Len(q.s) BY <1>1, <1>3
  <2>2. i - 1 \notin T BY <1>3, <2>1
  <2>3. ~ (SumTo(q, (i - 1) + 1) > tim) BY <2>1, <2>2
  <2>4. (i - 1) + 1 = i /\ i \in 0..Len(q.s) BY <2>1, <1>1
  <2> QED BY <2>3, <2>4, <1>1
<1> QED BY <1>3, <1>4

\* r is q with t inserted after the k-th entry, to go off after tim ticks.
Inserted(q, t, tim, k, r) ==
    /\ r \in QType /\ Len(r.s) = Len(q.s) + 1
    /\ \A i \in 1..k : r.s[i] = q.s[i]
    /\ r.s[k + 1] = t
    /\ \A i \in (k + 2)..(Len(q.s) + 1) : r.s[i] = q.s[i - 1]
    /\ \A i \in 0..k : SumTo(r, i) = SumTo(q, i)
    /\ SumTo(r, k + 1) = tim
    /\ \A i \in (k + 2)..(Len(q.s) + 1) : SumTo(r, i) = SumTo(q, i - 1)

\* clk_qinsert changes nobody else's time, and the order stays that of the times.
LEMMA InsertFact ==
    ASSUME NEW q, Proper(q), NEW t \in Timer, t \notin OnQueue(q.s), NEW tim \in Nat
    PROVE  /\ Proper(qinsert(q, t, tim))
           /\ \E k \in 0..Len(q.s) :
                 /\ \A i \in 1..k : SumTo(q, i) <= tim
                 /\ k < Len(q.s) => SumTo(q, k + 1) > tim
                 /\ Inserted(q, t, tim, k, qinsert(q, t, tim))
<1> DEFINE L == Len(q.s)
           k == CHOOSE n \in 0..Len(q.s) :
                   /\ \A i \in 1..n : SumTo(q, i) <= tim
                   /\ n < Len(q.s) => SumTo(q, n + 1) > tim
           rest == tim - SumTo(q, k)
           s == SubSeq(q.s, 1, k) \o <<t>> \o SubSeq(q.s, k + 1, Len(q.s))
           tk == [x \in Timer |-> IF x = t THEN rest
                                  ELSE IF k < Len(q.s) /\ x = q.s[k + 1] THEN q.tk[x] - rest
                                  ELSE q.tk[x]]
           r == [s |-> s, tk |-> tk]
<1>1. k \in 0..L /\ (\A i \in 1..k : SumTo(q, i) <= tim)
      /\ (k < L => SumTo(q, k + 1) > tim)
  BY PlaceExists
<1>2. qinsert(q, t, tim) = r BY DEF qinsert
<1> HIDE DEF k
<1>3. q.s \in Seq(Timer) /\ L \in Nat /\ q.tk \in [Timer -> Int] BY DEF Proper, QType
<1>4. /\ s \in Seq(Timer) /\ Len(s) = L + 1
      /\ \A i \in 1..k : s[i] = q.s[i]
      /\ s[k + 1] = t
      /\ \A i \in (k + 2)..(L + 1) : s[i] = q.s[i - 1]
  BY <1>1, <1>3, LinkIn
<1>5. /\ SumTo(q, 0) = 0
      /\ \A i \in 0..L : SumTo(q, i) \in Nat
      /\ \A i \in 1..L : SumTo(q, i) = SumTo(q, i - 1) + q.tk[q.s[i]]
      /\ \A i \in 1..L : q.s[i] \in Timer /\ q.tk[q.s[i]] \in Nat
  BY ProperSums
<1>6. \A i \in 1..L : q.s[i] # t BY DEF OnQueue
<1>7. r \in QType BY <1>1, <1>3, <1>4, <1>5 DEF QType
<1> HIDE DEF s
<1>8. tk[t] = tim - SumTo(q, k) OBVIOUS
<1>9. \A i \in 1..k : tk[q.s[i]] = q.tk[q.s[i]]
  <2>1. k < L => \A i \in 1..k : q.s[i] # q.s[k + 1]
    BY SMTT(30), <1>1, <1>3 DEF Proper, Distinct
  <2> QED BY SMTT(30), <2>1, <1>1, <1>3, <1>5, <1>6
<1>10. k < L => tk[q.s[k + 1]] = SumTo(q, k + 1) - tim
  <2>1. SUFFICES ASSUME k < L PROVE tk[q.s[k + 1]] = SumTo(q, k + 1) - tim OBVIOUS
  <2>2. k + 1 \in 1..L /\ (k + 1) - 1 = k BY <2>1, <1>1, <1>3
  <2>3. tk[q.s[k + 1]] = q.tk[q.s[k + 1]] - (tim - SumTo(q, k)) BY <2>1, <2>2, <1>5, <1>6
  <2>4. SumTo(q, k + 1) = SumTo(q, k) + q.tk[q.s[k + 1]] BY <2>2, <1>5
  <2>5. q.tk[q.s[k + 1]] \in Nat /\ SumTo(q, k) \in Nat BY <2>2, <1>5, <1>1
  <2> QED BY <2>3, <2>4, <2>5
<1>11. \A i \in (k + 2)..L : tk[q.s[i]] = q.tk[q.s[i]]
  <2>1. \A i \in (k + 2)..L : i \in 1..L /\ k + 1 \in 1..L /\ i # k + 1 BY <1>1, <1>3
  <2>2. \A i \in (k + 2)..L : q.s[i] # q.s[k + 1] BY <2>1 DEF Proper, Distinct
  <2> QED BY <2>1, <2>2, <1>5, <1>6
<1> HIDE DEF tk
<1>12. Distinct(s)
  <2> SUFFICES ASSUME NEW i \in 1..(L + 1), NEW j \in 1..(L + 1), i # j PROVE s[i] # s[j]
    BY <1>4 DEF Distinct
  <2> DEFINE old(n) == IF n <= k THEN n ELSE n - 1
  <2>1. ASSUME NEW n \in 1..(L + 1), n # k + 1 PROVE old(n) \in 1..L /\ s[n] = q.s[old(n)]
    <3>1. CASE n \in 1..k BY <3>1, <1>1, <1>3, <1>4
    <3>2. CASE n \in (k + 2)..(L + 1)
      <4>1. old(n) = n - 1 /\ n - 1 \in 1..L BY <3>2, <1>1, <1>3
      <4> QED BY <3>2, <4>1, <1>4
    <3> QED BY <3>1, <3>2, <2>1, <1>1, <1>3
  <2>2. CASE i = k + 1 BY <2>1, <2>2, <1>4, <1>6
  <2>3. CASE j = k + 1 BY <2>1, <2>3, <1>4, <1>6
  <2>4. CASE i # k + 1 /\ j # k + 1
    <3>1. old(i) # old(j) BY <2>4, <1>1, <1>3
    <3> QED BY <3>1, <2>1, <2>4 DEF Proper, Distinct
  <2> QED BY <2>2, <2>3, <2>4
<1>13. \A i \in 1..(L + 1) : tk[s[i]] \in Nat
  <2> TAKE i \in 1..(L + 1)
  <2>1. CASE i \in 1..k
    <3>1. i \in 1..L BY <2>1, <1>1, <1>3
    <3> QED BY <2>1, <3>1, <1>4, <1>5, <1>9
  <2>2. CASE i = k + 1
    <3>1. k = 0 \/ k \in 1..k BY <1>1, <1>3
    <3>2. SumTo(q, k) \in Nat /\ SumTo(q, k) <= tim BY <3>1, <1>1, <1>5
    <3> QED BY <2>2, <3>2, <1>4, <1>8
  <2>3. CASE i = k + 2
    <3>1. k < L /\ i - 1 = k + 1 /\ k + 1 \in 0..L /\ i \in (k + 2)..(L + 1)
      BY <2>3, <1>1, <1>3
    <3>2. tk[s[i]] = SumTo(q, k + 1) - tim BY <3>1, <1>4, <1>10
    <3> QED BY <3>1, <3>2, <1>1, <1>5
  <2>4. CASE i \in (k + 3)..(L + 1)
    <3>1. i - 1 \in (k + 2)..L /\ i - 1 \in 1..L /\ i \in (k + 2)..(L + 1)
      BY <2>4, <1>1, <1>3
    <3> QED BY SMTT(30), <3>1, <1>4, <1>5, <1>11
  <2> QED BY <2>1, <2>2, <2>3, <2>4, <1>1, <1>3
<1>14. Proper(r) BY <1>4, <1>7, <1>12, <1>13 DEF Proper
<1>15. /\ \A i \in 0..k : SumTo(r, i) = SumTo(q, i)
       /\ SumTo(r, k + 1) = tim
       /\ \A i \in (k + 2)..(L + 1) : SumTo(r, i) = SumTo(q, i - 1)
  <2> DEFINE g == [i \in 0..(L + 1) |-> IF i <= k THEN SumTo(q, i)
                                       ELSE IF i = k + 1 THEN tim ELSE SumTo(q, i - 1)]
  <2>1. g[0] = 0 BY <1>1, <1>3, <1>5
  <2>2. ASSUME NEW i \in 1..(L + 1) PROVE g[i] = g[i - 1] + tk[s[i]]
    <3>1. CASE i \in 1..k
      <4>1. i \in 1..L /\ i - 1 \in 0..k BY <3>1, <1>1, <1>3
      <4>2. g[i] = SumTo(q, i) /\ g[i - 1] = SumTo(q, i - 1) BY <3>1, <4>1, <1>1, <1>3
      <4> QED BY <3>1, <4>1, <4>2, <1>4, <1>5, <1>9
    <3>2. CASE i = k + 1
      <4>1. g[i] = tim /\ g[i - 1] = SumTo(q, k) BY <3>2, <1>1, <1>3
      <4>2. SumTo(q, k) \in Nat BY <1>1, <1>5
      <4> QED BY <3>2, <4>1, <4>2, <1>4, <1>8
    <3>3. CASE i = k + 2
      <4>1. k < L /\ i - 1 = k + 1 /\ k + 1 \in 0..L /\ i \in (k + 2)..(L + 1)
        BY <3>3, <1>1, <1>3
      <4>2. g[i] = SumTo(q, k + 1) /\ g[i - 1] = tim BY <3>3, <4>1, <1>1, <1>3
      <4>3. tk[s[i]] = SumTo(q, k + 1) - tim BY <4>1, <1>4, <1>10
      <4>4. SumTo(q, k + 1) \in Nat BY <4>1, <1>5
      <4> QED BY <4>2, <4>3, <4>4
    <3>4. CASE i \in (k + 3)..(L + 1)
      <4>1. i - 1 \in (k + 2)..L /\ i - 1 \in 1..L /\ i \in (k + 2)..(L + 1)
        BY <3>4, <1>1, <1>3
      <4>2. g[i] = SumTo(q, i - 1) /\ g[i - 1] = SumTo(q, (i - 1) - 1)
        <5>1. i - 1 \in 0..(L + 1) /\ i - 1 > k + 1 /\ i > k + 1 BY <4>1, <1>1, <1>3
        <5> QED BY <5>1, <1>1, <1>3
      <4>3. SumTo(q, i - 1) = SumTo(q, (i - 1) - 1) + q.tk[q.s[i - 1]] BY <4>1, <1>5
      <4>4. tk[s[i]] = q.tk[q.s[i - 1]] BY <4>1, <1>4, <1>11
      <4> QED BY <4>2, <4>3, <4>4
    <3> QED BY <3>1, <3>2, <3>3, <3>4, <1>1, <1>3
  <2>3. ASSUME NEW n \in 0..(L + 1) PROVE SumTo(r, n) = g[n]
    <3>1. Sums(g, r, n)
      <4> HIDE DEF g
      <4> QED BY <2>1, <2>2, <1>3 DEF Sums
    <3> HIDE DEF g, r
    <3> QED BY <3>1, <1>3, SumUnique
  <2>4. \A i \in 0..k : i \in 0..(L + 1) BY <1>1, <1>3
  <2>5. k + 1 \in 0..(L + 1) /\ ~(k + 1 <= k) BY <1>1, <1>3
  <2>6. \A i \in (k + 2)..(L + 1) : i \in 0..(L + 1) /\ ~(i <= k) /\ i # k + 1 BY <1>1, <1>3
  <2>7. \A i \in 0..k : g[i] = SumTo(q, i) BY <2>4
  <2>8. g[k + 1] = tim BY <2>5
  <2>9. \A i \in (k + 2)..(L + 1) : g[i] = SumTo(q, i - 1) BY <2>6
  <2> HIDE DEF g
  <2> QED BY <2>3, <2>4, <2>5, <2>6, <2>7, <2>8, <2>9
<1>16. Inserted(q, t, tim, k, r) BY <1>4, <1>7, <1>15 DEF Inserted
<1> HIDE DEF r
<1> QED BY <1>1, <1>2, <1>14, <1>16

-----------------------------------------------------------------------------
(* Deletion                                                                *)

\* r is q without its p-th entry.
Deleted(q, p, r) ==
    /\ r \in QType /\ Len(r.s) = Len(q.s) - 1
    /\ \A i \in 1..(p - 1) : r.s[i] = q.s[i]
    /\ \A i \in p..(Len(q.s) - 1) : r.s[i] = q.s[i + 1]
    /\ \A i \in 0..(p - 1) : SumTo(r, i) = SumTo(q, i)
    /\ \A i \in p..(Len(q.s) - 1) : SumTo(r, i) = SumTo(q, i + 1)

\* Unlinking an entry changes nobody else's time if the next one takes over its ticks.
LEMMA DeleteFact ==
    ASSUME NEW q, Proper(q), NEW p \in 1..Len(q.s),
           NEW r \in QType, r.s = Cut(q.s, p, p + 1),
           \A i \in 1..Len(q.s) : i # p /\ i # p + 1 => r.tk[q.s[i]] = q.tk[q.s[i]],
           p < Len(q.s) => r.tk[q.s[p + 1]] = q.tk[q.s[p + 1]] + q.tk[q.s[p]]
    PROVE  Proper(r) /\ Deleted(q, p, r)
<1> DEFINE L == Len(q.s)
<1>1. q.s \in Seq(Timer) /\ L \in Nat /\ p \in Nat /\ p >= 1 /\ p <= L
  BY DEF Proper, QType
<1>2. /\ r.s \in Seq(Timer) /\ Len(r.s) = L - 1
      /\ \A i \in 1..(p - 1) : r.s[i] = q.s[i]
      /\ \A i \in p..(L - 1) : r.s[i] = q.s[i + 1]
  <2> DEFINE c == Cut(q.s, p, p + 1)
  <2>1. /\ c \in Seq(Timer) /\ Len(c) = L - 1
        /\ \A i \in 1..(p - 1) : c[i] = q.s[i]
        /\ \A i \in p..(L - 1) : c[i] = q.s[i + 1]
    BY <1>1, LinkOut
  <2>2. r.s = c OBVIOUS
  <2> HIDE DEF c
  <2> QED BY <2>1, <2>2
<1>3. /\ SumTo(q, 0) = 0
      /\ \A i \in 0..L : SumTo(q, i) \in Nat
      /\ \A i \in 1..L : SumTo(q, i) = SumTo(q, i - 1) + q.tk[q.s[i]]
      /\ \A i \in 1..L : q.s[i] \in Timer /\ q.tk[q.s[i]] \in Nat
  BY ProperSums
<1>4. ASSUME NEW i \in 1..(p - 1) PROVE r.tk[r.s[i]] = q.tk[q.s[i]] /\ i \in 1..L
  <2>1. i \in 1..L /\ i # p /\ i # p + 1 BY <1>1
  <2> QED BY <2>1, <1>2
<1>5. p < L => r.tk[r.s[p]] = q.tk[q.s[p + 1]] + q.tk[q.s[p]]
  <2>1. p < L => p \in p..(L - 1) BY <1>1
  <2> QED BY <2>1, <1>2
<1>6. ASSUME NEW i \in (p + 1)..(L - 1)
      PROVE  r.tk[r.s[i]] = q.tk[q.s[i + 1]] /\ i \in 1..L /\ i + 1 \in 1..L
  <2>1. i + 1 \in 1..L /\ i + 1 # p /\ i + 1 # p + 1 /\ i \in p..(L - 1) BY <1>1
  <2> QED BY <2>1, <1>2
<1>7. Distinct(r.s)
  <2> SUFFICES ASSUME NEW i \in 1..(L - 1), NEW j \in 1..(L - 1), i # j PROVE r.s[i] # r.s[j]
    BY <1>2 DEF Distinct
  <2> DEFINE old(n) == IF n < p THEN n ELSE n + 1
  <2>1. ASSUME NEW n \in 1..(L - 1) PROVE old(n) \in 1..L /\ r.s[n] = q.s[old(n)]
    <3>1. CASE n \in 1..(p - 1) BY <3>1, <1>1, <1>2
    <3>2. CASE n \in p..(L - 1)
      <4>1. old(n) = n + 1 /\ n + 1 \in 1..L BY <3>2, <1>1
      <4> QED BY <3>2, <4>1, <1>2
    <3> QED BY <3>1, <3>2, <1>1
  <2>2. old(i) # old(j) BY <1>1
  <2> QED BY <2>1, <2>2 DEF Proper, Distinct
<1>8. \A i \in 1..(L - 1) : r.tk[r.s[i]] \in Nat
  <2> TAKE i \in 1..(L - 1)
  <2>1. CASE i \in 1..(p - 1) BY <2>1, <1>3, <1>4
  <2>2. CASE i = p
    <3>1. p < L /\ p + 1 \in 1..L BY <2>2, <1>1
    <3>2. q.tk[q.s[p]] \in Nat /\ q.tk[q.s[p + 1]] \in Nat BY <3>1, <1>3
    <3> QED BY <2>2, <3>1, <3>2, <1>5
  <2>3. CASE i \in (p + 1)..(L - 1) BY <2>3, <1>3, <1>6
  <2> QED BY <2>1, <2>2, <2>3, <1>1
<1>9. Proper(r)
  BY <1>2, <1>7, <1>8 DEF Proper
<1>10. /\ \A i \in 0..(p - 1) : SumTo(r, i) = SumTo(q, i)
       /\ \A i \in p..(L - 1) : SumTo(r, i) = SumTo(q, i + 1)
  <2> DEFINE g == [i \in 0..(L - 1) |-> IF i < p THEN SumTo(q, i) ELSE SumTo(q, i + 1)]
  <2>1. g[0] = 0 BY <1>1, <1>3
  <2>2. ASSUME NEW i \in 1..(L - 1) PROVE g[i] = g[i - 1] + r.tk[r.s[i]]
    <3>1. CASE i \in 1..(p - 1)
      <4>1. g[i] = SumTo(q, i) /\ g[i - 1] = SumTo(q, i - 1)
        <5>1. i < p /\ i - 1 < p /\ i - 1 \in 0..(L - 1) /\ i \in 0..(L - 1) BY <3>1, <1>1
        <5> QED BY <5>1
      <4> QED BY <3>1, <4>1, <1>3, <1>4
    <3>2. CASE i = p
      <4>1. g[i] = SumTo(q, p + 1) /\ g[i - 1] = SumTo(q, p - 1)
        <5>1. ~(i < p) /\ i - 1 < p /\ i - 1 \in 0..(L - 1) /\ i \in 0..(L - 1) BY <3>2, <1>1
        <5> QED BY <5>1, <3>2
      <4>2. p < L /\ p + 1 \in 1..L /\ (p + 1) - 1 = p BY <3>2, <1>1
      <4>3. SumTo(q, p + 1) = SumTo(q, p) + q.tk[q.s[p + 1]] BY <4>2, <1>3
      <4>4. SumTo(q, p) = SumTo(q, p - 1) + q.tk[q.s[p]] BY <1>3
      <4>5. q.tk[q.s[p + 1]] \in Nat /\ q.tk[q.s[p]] \in Nat /\ SumTo(q, p - 1) \in Nat
        <5>1. p - 1 \in 0..L BY <1>1
        <5> QED BY <5>1, <4>2, <1>3
      <4> QED BY <3>2, <4>1, <4>2, <4>3, <4>4, <4>5, <1>5
    <3>3. CASE i \in (p + 1)..(L - 1)
      <4>1. g[i] = SumTo(q, i + 1) /\ g[i - 1] = SumTo(q, i)
        <5>1. /\ ~(i < p) /\ ~(i - 1 < p) /\ i - 1 \in 0..(L - 1) /\ i \in 0..(L - 1)
              /\ (i - 1) + 1 = i
          BY <3>3, <1>1
        <5> QED BY <5>1
      <4>2. i + 1 \in 1..L /\ (i + 1) - 1 = i BY <3>3, <1>1
      <4>3. SumTo(q, i + 1) = SumTo(q, i) + q.tk[q.s[i + 1]] BY <4>2, <1>3
      <4> QED BY <3>3, <4>1, <4>3, <1>6
    <3> QED BY <3>1, <3>2, <3>3, <1>1
  <2>3. ASSUME NEW n \in 0..(L - 1) PROVE SumTo(r, n) = g[n]
    <3>1. Sums(g, r, n)
      <4> HIDE DEF g
      <4> QED BY <2>1, <2>2, <1>1 DEF Sums
    <3> HIDE DEF g
    <3> QED BY <3>1, <1>1, SumUnique
  <2>4. \A i \in 0..(p - 1) : i \in 0..(L - 1) /\ g[i] = SumTo(q, i)
    <3>1. \A i \in 0..(p - 1) : i \in 0..(L - 1) /\ i < p BY <1>1
    <3> QED BY <3>1
  <2>5. \A i \in p..(L - 1) : i \in 0..(L - 1) /\ g[i] = SumTo(q, i + 1)
    <3>1. \A i \in p..(L - 1) : i \in 0..(L - 1) /\ ~(i < p) BY <1>1
    <3> QED BY <3>1
  <2> HIDE DEF g
  <2> QED BY <2>3, <2>4, <2>5
<1>11. Deleted(q, p, r) BY <1>2, <1>10 DEF Deleted
<1> QED BY <1>9, <1>11

\* clk_qdelete
LEMMA QdeleteFact ==
    ASSUME NEW q, Proper(q), NEW t \in OnQueue(q.s)
    PROVE  /\ PosOf(q.s, t) \in 1..Len(q.s) /\ q.s[PosOf(q.s, t)] = t
           /\ Proper(qdelete(q, t))
           /\ Deleted(q, PosOf(q.s, t), qdelete(q, t))
<1> DEFINE p == PosOf(q.s, t)
           r == [s |-> Cut(q.s, p, p + 1),
                 tk |-> IF p < Len(q.s) THEN [q.tk EXCEPT ![q.s[p + 1]] = @ + q.tk[t]] ELSE q.tk]
<1>1. q.s \in Seq(Timer) /\ Len(q.s) \in Nat /\ Distinct(q.s) /\ q.tk \in [Timer -> Int]
  BY DEF Proper, QType
<1>2. p \in 1..Len(q.s) /\ q.s[p] = t BY <1>1, PosFact
<1>3. qdelete(q, t) = r BY DEF qdelete
<1> HIDE DEF p
<1>4. t \in Timer /\ (p < Len(q.s) => p + 1 \in 1..Len(q.s) /\ q.s[p + 1] \in Timer)
  BY <1>1, <1>2
<1>5. r.tk \in [Timer -> Int] BY <1>1, <1>4
<1>6. Cut(q.s, p, p + 1) \in Seq(Timer) BY <1>1, <1>2, LinkOut
<1>7. r \in QType BY <1>5, <1>6 DEF QType
<1>8. \A i \in 1..Len(q.s) : i # p /\ i # p + 1 => r.tk[q.s[i]] = q.tk[q.s[i]]
  <2> SUFFICES ASSUME NEW i \in 1..Len(q.s), i # p, i # p + 1 PROVE r.tk[q.s[i]] = q.tk[q.s[i]]
    OBVIOUS
  <2>1. p < Len(q.s) => q.s[i] # q.s[p + 1] BY <1>4 DEF Proper, Distinct
  <2>2. q.s[i] \in Timer BY <1>1
  <2> QED BY <2>1, <2>2, <1>1
<1>9. p < Len(q.s) => r.tk[q.s[p + 1]] = q.tk[q.s[p + 1]] + q.tk[q.s[p]]
  BY <1>1, <1>2, <1>4
<1>10. r.s = Cut(q.s, p, p + 1) OBVIOUS
<1> HIDE DEF r
<1>11. Proper(r) /\ Deleted(q, p, r) BY <1>2, <1>7, <1>8, <1>9, <1>10, DeleteFact
<1> QED BY <1>2, <1>3, <1>11 DEF p

-----------------------------------------------------------------------------
(* What the operations do to the entries                                   *)

\* Whoever was on the queue keeps its time, and the new entry gets its own.
LEMMA InsertEffect ==
    ASSUME NEW q, Proper(q), NEW t \in Timer, t \notin OnQueue(q.s), NEW tim \in Nat,
           NEW k \in 0..Len(q.s), NEW r, Proper(r), Inserted(q, t, tim, k, r)
    PROVE  /\ OnQueue(r.s) = OnQueue(q.s) \cup {t}
           /\ \A x \in OnQueue(q.s) : Left(r, x) = Left(q, x)
           /\ Left(r, t) = tim
<1> DEFINE L == Len(q.s)
<1>1. /\ q.s \in Seq(Timer) /\ L \in Nat /\ Distinct(q.s)
      /\ r.s \in Seq(Timer) /\ Len(r.s) = L + 1 /\ Distinct(r.s)
  BY DEF Proper, QType, Inserted
<1> DEFINE new(i) == IF i <= k THEN i ELSE i + 1
<1>2. ASSUME NEW i \in 1..L
      PROVE  new(i) \in 1..(L + 1) /\ r.s[new(i)] = q.s[i] /\ SumTo(r, new(i)) = SumTo(q, i)
  <2>1. CASE i \in 1..k
    <3>1. new(i) = i /\ i \in 0..k /\ i \in 1..(L + 1) BY <2>1, <1>1
    <3> QED BY <2>1, <3>1 DEF Inserted
  <2>2. CASE i \in (k + 1)..L
    <3>1. new(i) = i + 1 /\ i + 1 \in (k + 2)..(L + 1) /\ (i + 1) - 1 = i /\ i + 1 \in 1..(L + 1)
      BY <2>2, <1>1
    <3> QED BY <3>1 DEF Inserted
  <2> QED BY <2>1, <2>2, <1>1
<1>3. k + 1 \in 1..(L + 1) /\ r.s[k + 1] = t /\ SumTo(r, k + 1) = tim
  BY <1>1 DEF Inserted
<1>4. ASSUME NEW j \in 1..(L + 1), j # k + 1 PROVE \E i \in 1..L : j = new(i)
  <2>1. CASE j <= k
    <3>1. j \in 1..L /\ new(j) = j BY <2>1, <1>1
    <3> QED BY <3>1
  <2>2. CASE j > k
    <3>1. j - 1 \in 1..L /\ new(j - 1) = j BY <2>2, <1>1, <1>4
    <3> QED BY <3>1
  <2> QED BY <2>1, <2>2, <1>1
<1> HIDE DEF new
<1>5. OnQueue(r.s) = OnQueue(q.s) \cup {t}
  <2>1. ASSUME NEW x \in OnQueue(r.s) PROVE x \in OnQueue(q.s) \cup {t}
    <3>1. PICK j \in 1..(L + 1) : x = r.s[j] BY <1>1 DEF OnQueue
    <3>2. CASE j = k + 1 BY <3>1, <3>2, <1>3
    <3>3. CASE j # k + 1 BY <3>1, <3>3, <1>2, <1>4 DEF OnQueue
    <3> QED BY <3>2, <3>3
  <2>2. ASSUME NEW x \in OnQueue(q.s) PROVE x \in OnQueue(r.s) 
    BY <1>1, <1>2 DEF OnQueue
  <2>3. t \in OnQueue(r.s) BY <1>1, <1>3 DEF OnQueue
  <2> QED BY <2>1, <2>2, <2>3
<1>6. ASSUME NEW x \in OnQueue(q.s) PROVE Left(r, x) = Left(q, x)
  <2>1. PICK i \in 1..L : x = q.s[i] BY DEF OnQueue
  <2>2. PosOf(q.s, x) = i BY <1>1, <2>1, PosFact
  <2>3. PosOf(r.s, x) = new(i) BY <1>1, <1>2, <2>1, PosFact
  <2> QED BY <2>2, <2>3, <1>2 DEF Left
<1>7. Left(r, t) = tim
  <2>1. PosOf(r.s, t) = k + 1 BY <1>1, <1>3, PosFact
  <2> QED BY <2>1, <1>3 DEF Left
<1> QED BY <1>5, <1>6, <1>7

\* Whoever is left on the queue keeps its time.
LEMMA DeleteEffect ==
    ASSUME NEW q, Proper(q), NEW p \in 1..Len(q.s), NEW r, Proper(r), Deleted(q, p, r)
    PROVE  /\ OnQueue(r.s) = OnQueue(q.s) \ {q.s[p]}
           /\ \A x \in OnQueue(r.s) : Left(r, x) = Left(q, x)
<1> DEFINE L == Len(q.s)
<1>1. /\ q.s \in Seq(Timer) /\ L \in Nat /\ Distinct(q.s)
      /\ r.s \in Seq(Timer) /\ Len(r.s) = L - 1 /\ Distinct(r.s)
  BY DEF Proper, QType, Deleted
<1> DEFINE old(i) == IF i < p THEN i ELSE i + 1
<1>2. ASSUME NEW i \in 1..(L - 1)
      PROVE  /\ old(i) \in 1..L /\ old(i) # p
             /\ r.s[i] = q.s[old(i)] /\ SumTo(r, i) = SumTo(q, old(i))
  <2>1. CASE i \in 1..(p - 1)
    <3>1. old(i) = i /\ i \in 0..(p - 1) /\ i \in 1..L /\ i # p BY <2>1, <1>1
    <3> QED BY <2>1, <3>1 DEF Deleted
  <2>2. CASE i \in p..(L - 1)
    <3>1. old(i) = i + 1 /\ i + 1 \in 1..L /\ i + 1 # p BY <2>2, <1>1
    <3> QED BY <2>2, <3>1 DEF Deleted
  <2> QED BY <2>1, <2>2, <1>1
<1>3. ASSUME NEW j \in 1..L, j # p PROVE \E i \in 1..(L - 1) : j = old(i)
  <2>1. CASE j < p
    <3>1. j \in 1..(L - 1) /\ old(j) = j BY <2>1, <1>1
    <3> QED BY <3>1
  <2>2. CASE j > p
    <3>1. j - 1 \in 1..(L - 1) /\ old(j - 1) = j BY <2>2, <1>1
    <3> QED BY <3>1
  <2> QED BY <2>1, <2>2, <1>1, <1>3
<1> HIDE DEF old
<1>4. OnQueue(r.s) = OnQueue(q.s) \ {q.s[p]}
  <2>1. ASSUME NEW x \in OnQueue(r.s) PROVE x \in OnQueue(q.s) /\ x # q.s[p]
    <3>1. PICK i \in 1..(L - 1) : x = r.s[i] BY <1>1 DEF OnQueue
    <3> QED BY <3>1, <1>1, <1>2 DEF OnQueue, Distinct
  <2>2. ASSUME NEW x \in OnQueue(q.s), x # q.s[p] PROVE x \in OnQueue(r.s)
    <3>1. PICK j \in 1..L : x = q.s[j] BY DEF OnQueue
    <3> QED BY ZenonT(40), <3>1, <2>2, <1>1, <1>2, <1>3 DEF OnQueue
  <2> QED BY <2>1, <2>2
<1>5. ASSUME NEW x \in OnQueue(r.s) PROVE Left(r, x) = Left(q, x)
  <2>1. PICK i \in 1..(L - 1) : x = r.s[i] BY <1>1 DEF OnQueue
  <2>2. PosOf(r.s, x) = i BY <1>1, <2>1, PosFact
  <2>3. PosOf(q.s, x) = old(i) BY <1>1, <1>2, <2>1, PosFact
  <2> QED BY <2>2, <2>3, <1>2, <2>1 DEF Left
<1> QED BY <1>4, <1>5

-----------------------------------------------------------------------------
(* The inductive invariant                                                 *)

\* A timer in use has the ticks its interval makes at the present length of a tick.
Current ==
    \A t \in Timer : st[t] # "FREE" =>
        usec[t] \in Intervals[t] /\ oticks[t] = usec2tick(usec[t], itickusec)

\* The keep-alive is always running, and goes off before any timer that a callout could
\* start would: so that one is linked in behind the entry that follows the callout's.
KeepAliveSoon ==
    /\ \A f \in Forever : st[f] = "MTICK"
    /\ \A t \in Timer : \A x \in Nested[t] : \A b \in Intervals[x] : \A f \in Forever :
          Left(Queue, f) <= usec2tick(b, itickusec)

IInv == TypeOK /\ Linked /\ HeadDue /\ Current /\ KeepAliveSoon

\* The loop of clk_synctimeout is at the head c exactly while that is due.
AtHead(q, c) ==
    IF q.s = <<>> THEN c = None
    ELSE /\ c # None => c = q.s[1] /\ SumTo(q, 1) = 0
         /\ c = None => SumTo(q, 1) >= 1

\* The first entry goes off after its own ticks.
LEMMA HeadSum ==
    ASSUME NEW q, Proper(q), q.s # <<>>
    PROVE  /\ Len(q.s) \in Nat /\ Len(q.s) >= 1 /\ 1 \in 1..Len(q.s)
           /\ q.s[1] = Head(q.s) /\ q.s[1] \in Timer
           /\ SumTo(q, 1) = q.tk[q.s[1]]
           /\ SumTo(q, 1) \in Nat
<1>1. q.s \in Seq(Timer) BY DEF Proper, QType
<1>2. Len(q.s) \in Nat /\ Len(q.s) >= 1 /\ 1 \in 1..Len(q.s) BY <1>1, EmptySeq
<1>3. SumTo(q, 0) = 0 /\ SumTo(q, 1) = SumTo(q, 1 - 1) + q.tk[q.s[1]] /\ q.tk[q.s[1]] \in Nat
  BY <1>2, ProperSums
<1>4. q.s[1] = Head(q.s) /\ q.s[1] \in Timer BY <1>1, <1>2
<1> QED BY <1>2, <1>3, <1>4

\* Linked and HeadDue in terms of the times at which entries go off.
LEMMA QueueOfInv ==
    ASSUME TypeOK, Linked, HeadDue
    PROVE  /\ Proper(Queue)
           /\ OnQueue(queue) = {t \in Timer : st[t] = "MTICK"}
           /\ AtHead(Queue, ce)
<1>1. Queue.s = queue /\ Queue.tk = ticks BY DEF Queue
<1>2. Proper(Queue) BY <1>1 DEF Proper, QType, Distinct, TypeOK, Linked, HeadDue, Queue
<1>3. ASSUME queue # <<>> PROVE queue[1] = Head(queue) /\ SumTo(Queue, 1) = ticks[Head(queue)]
  BY <1>1, <1>2, <1>3, HeadSum
<1>4. AtHead(Queue, ce) BY <1>1, <1>3 DEF AtHead, HeadDue
<1> QED BY <1>2, <1>4 DEF Linked

\* Properness and AtHead give back HeadDue and the second half of Linked.
LEMMA HeadOfQueue ==
    ASSUME NEW q, Proper(q), NEW c, AtHead(q, c)
    PROVE  /\ \A i, j \in 1..Len(q.s) : q.s[i] = q.s[j] => i = j
           /\ \A i \in 1..Len(q.s) : q.tk[q.s[i]] >= 0
           /\ c # None => q.s # <<>> /\ c = Head(q.s) /\ q.tk[c] = 0
           /\ c = None /\ q.s # <<>> => q.tk[Head(q.s)] >= 1
<1>1. ASSUME q.s # <<>>
      PROVE  q.s[1] = Head(q.s) /\ SumTo(q, 1) = q.tk[Head(q.s)]
  BY <1>1, HeadSum
<1> QED BY <1>1 DEF AtHead, Proper, Distinct

\* Times are Nat, and the loop is running exactly while some entry is due.
LEMMA LeftFact ==
    ASSUME NEW q, Proper(q), NEW c, AtHead(q, c), None \notin Timer
    PROVE  /\ \A x \in OnQueue(q.s) : Left(q, x) \in Nat
           /\ c # None <=> \E x \in OnQueue(q.s) : Left(q, x) = 0
           /\ c # None => c \in OnQueue(q.s) /\ Left(q, c) = 0
<1>1. q.s \in Seq(Timer) /\ Len(q.s) \in Nat /\ Distinct(q.s) BY DEF Proper, QType
<1>2. \A x \in OnQueue(q.s) : PosOf(q.s, x) \in 1..Len(q.s) /\ q.s[PosOf(q.s, x)] = x
  BY <1>1, PosFact
<1>3. ASSUME NEW x \in OnQueue(q.s)
      PROVE  q.s # <<>> /\ Left(q, x) \in Nat /\ SumTo(q, 1) \in Nat /\ SumTo(q, 1) <= Left(q, x)
  <2>1. q.s # <<>> BY <1>1 DEF OnQueue
  <2>2. PosOf(q.s, x) \in 0..Len(q.s) /\ 1 \in 0..PosOf(q.s, x) /\ 1 \in 0..Len(q.s)
    BY <1>1, <1>2
  <2>3. SumTo(q, 1) <= Left(q, x) BY <2>2, SumMonotone DEF Left
  <2> QED BY <2>1, <2>2, <2>3, ProperSums DEF Left
<1>4. ASSUME c # None PROVE c \in OnQueue(q.s) /\ Left(q, c) = 0
  <2>1. q.s # <<>> /\ c = q.s[1] /\ SumTo(q, 1) = 0 BY <1>4 DEF AtHead
  <2>2. 1 \in 1..Len(q.s) BY <2>1, HeadSum
  <2>3. PosOf(q.s, c) = 1 BY <1>1, <2>1, <2>2, PosFact
  <2> QED BY <2>1, <2>2, <2>3 DEF Left, OnQueue
<1>5. ASSUME NEW x \in OnQueue(q.s), Left(q, x) = 0 PROVE c # None
  <2>1. SumTo(q, 1) = 0 /\ q.s # <<>> BY <1>3, <1>5
  <2> QED BY <2>1 DEF AtHead
<1> QED BY <1>3, <1>4, <1>5

\* clk_usec2tick gives at least one tick, and no fewer for a longer interval.
LEMMA Usec2tickFact ==
    ASSUME NEW len \in Nat \ {0}, NEW a \in Nat, NEW b \in Nat
    PROVE  /\ usec2tick(a, len) \in Nat /\ usec2tick(a, len) >= 1
           /\ a <= b => usec2tick(a, len) <= usec2tick(b, len)
<1> DEFINE h == len \div 2
           f(u) == (u + h) \div len
<1>1. h \in Nat OBVIOUS
<1> HIDE DEF h
<1>2. ASSUME NEW u \in Nat PROVE f(u) \in Nat /\ len * f(u) <= u + h /\ u + h < len * (f(u) + 1)
  <2>1. u + h \in Nat BY <1>1
  <2> QED BY <2>1
<1> HIDE DEF f
<1>3. a <= b => f(a) <= f(b)
  <2> SUFFICES ASSUME a <= b, f(b) + 1 <= f(a) PROVE FALSE BY <1>2
  <2>1. len * (f(b) + 1) <= len * f(a) BY <1>2
  <2> QED BY <2>1, <1>1, <1>2
<1>4. \A u \in Nat : usec2tick(u, len) = IF f(u) = 0 THEN 1 ELSE f(u) BY DEF usec2tick, f, h
<1>5. f(a) \in Nat /\ f(b) \in Nat BY <1>2
<1>6. /\ usec2tick(a, len) = IF f(a) = 0 THEN 1 ELSE f(a)
      /\ usec2tick(b, len) = IF f(b) = 0 THEN 1 ELSE f(b)
  BY <1>4
<1> QED BY <1>3, <1>5, <1>6

\* If no entry is due there is nothing for the loop to do.
LEMMA NoneDue ==
    ASSUME NEW q, Proper(q), \A x \in OnQueue(q.s) : Left(q, x) >= 1
    PROVE  AtHead(q, None)
<1>1. CASE q.s = <<>> BY <1>1 DEF AtHead
<1>2. CASE q.s # <<>>
  <2>1. 1 \in 1..Len(q.s) /\ q.s \in Seq(Timer) /\ Distinct(q.s)
    BY <1>2, HeadSum DEF Proper, QType
  <2>2. PosOf(q.s, q.s[1]) = 1 BY <2>1, PosFact
  <2>3. q.s[1] \in OnQueue(q.s) BY <2>1 DEF OnQueue
  <2>4. SumTo(q, 1) >= 1 BY <2>2, <2>3 DEF Left
  <2> QED BY <1>2, <2>4 DEF AtHead
<1> QED BY <1>1, <1>2

\* Insertion and deletion outside the loop.
LEMMA InsertMove ==
    ASSUME NEW q, Proper(q), NEW t \in Timer, t \notin OnQueue(q.s), NEW tim \in Nat
    PROVE  /\ Proper(qinsert(q, t, tim))
           /\ OnQueue(qinsert(q, t, tim).s) = OnQueue(q.s) \cup {t}
           /\ \A x \in OnQueue(q.s) : Left(qinsert(q, t, tim), x) = Left(q, x)
           /\ Left(qinsert(q, t, tim), t) = tim
<1> DEFINE r == qinsert(q, t, tim)
<1>1. Proper(r) /\ \E k \in 0..Len(q.s) : Inserted(q, t, tim, k, r) BY InsertFact
<1> HIDE DEF r
<1>2. /\ OnQueue(r.s) = OnQueue(q.s) \cup {t}
      /\ \A x \in OnQueue(q.s) : Left(r, x) = Left(q, x)
      /\ Left(r, t) = tim
  BY SMTT(30), <1>1, InsertEffect
<1> QED BY <1>1, <1>2 DEF r

\* clk_qdelete of an entry that is on the queue: the others keep their times.
LEMMA DeleteMove ==
    ASSUME NEW q, Proper(q), NEW t \in OnQueue(q.s)
    PROVE  /\ Proper(qdelete(q, t))
           /\ OnQueue(qdelete(q, t).s) = OnQueue(q.s) \ {t}
           /\ \A x \in OnQueue(q.s) \ {t} : Left(qdelete(q, t), x) = Left(q, x)
<1> DEFINE r == qdelete(q, t)
           p == PosOf(q.s, t)
<1>1. p \in 1..Len(q.s) /\ q.s[p] = t /\ Proper(r) /\ Deleted(q, p, r) BY QdeleteFact
<1> HIDE DEF r, p
<1>2. OnQueue(r.s) = OnQueue(q.s) \ {q.s[p]} /\ \A x \in OnQueue(r.s) : Left(r, x) = Left(q, x)
  BY <1>1, DeleteEffect
<1> QED BY <1>1, <1>2 DEF r

\* clk_tmrset of a running timer: out of the queue and in again.
LEMMA MoveFact ==
    ASSUME NEW q, Proper(q), NEW t \in OnQueue(q.s), t \in Timer, NEW tim \in Nat
    PROVE  /\ Proper(qinsert(qdelete(q, t), t, tim))
           /\ OnQueue(qinsert(qdelete(q, t), t, tim).s) = OnQueue(q.s)
           /\ \A x \in OnQueue(q.s) \ {t} : Left(qinsert(qdelete(q, t), t, tim), x) = Left(q, x)
           /\ Left(qinsert(qdelete(q, t), t, tim), t) = tim
<1> DEFINE d == qdelete(q, t)
<1>1. /\ Proper(d) /\ OnQueue(d.s) = OnQueue(q.s) \ {t}
      /\ \A x \in OnQueue(q.s) \ {t} : Left(d, x) = Left(q, x)
  BY DeleteMove
<1> HIDE DEF d
<1>2. /\ Proper(qinsert(d, t, tim))
      /\ OnQueue(qinsert(d, t, tim).s) = OnQueue(d.s) \cup {t}
      /\ \A x \in OnQueue(d.s) : Left(qinsert(d, t, tim), x) = Left(d, x)
      /\ Left(qinsert(d, t, tim), t) = tim
  BY <1>1, InsertMove
<1> QED BY <1>1, <1>2 DEF d

-----------------------------------------------------------------------------
(* Requests                                                                *)

\* A request of timer t outside the loop: every other timer goes off when it would have.
Request(t) ==
    /\ ce = None /\ ce' = None
    /\ UNCHANGED itickusec
    /\ Proper(Queue')
    /\ OnQueue(queue') = {x \in Timer : st'[x] = "MTICK"}
    /\ \A x \in Timer \ {t} : st'[x] = st[x] /\ usec'[x] = usec[x] /\ oticks'[x] = oticks[x]
    /\ \A x \in OnQueue(queue) \ {t} : Left(Queue', x) = Left(Queue, x)
    /\ t \in OnQueue(queue') => Left(Queue', t) = oticks'[t]

\* What each clk_tmr call does to one entry, to the queue and to the types.
LEMMA RequestShape ==
    ASSUME IInv, NEW t \in Timer, NEW m \in {"FREE", "MTICK", "MQUIET"}, NEW u \in Nat,
           NEW n \in Nat, m # "FREE" => n > 0,
           ce = None, UNCHANGED <<itickusec, ce>>,
           st' = [st EXCEPT ![t] = m],
           usec' = [usec EXCEPT ![t] = u],
           oticks' = [oticks EXCEPT ![t] = n],
           NEW r, Proper(r), StoreQueue(r),
           OnQueue(r.s) = (OnQueue(queue) \ {t}) \cup (IF m = "MTICK" THEN {t} ELSE {}),
           \A x \in OnQueue(queue) \ {t} : Left(r, x) = Left(Queue, x),
           m = "MTICK" => Left(r, t) = n
    PROVE  Request(t) /\ TypeOK' /\ st'[t] = m /\ usec'[t] = u /\ oticks'[t] = n
<1>1. OnQueue(queue) = {x \in Timer : st[x] = "MTICK"} BY QueueOfInv DEF IInv
<1>2. queue' = r.s /\ ticks' = r.tk /\ r \in QType BY DEF StoreQueue, Proper
<1>3. Queue' = r BY <1>2 DEF QType, Queue
<1>4. st'[t] = m /\ usec'[t] = u /\ oticks'[t] = n BY DEF IInv, TypeOK
<1>5. TypeOK'
  <2>1. queue' \in Seq(Timer) /\ ticks' \in [Timer -> Int] BY <1>2 DEF QType
  <2>2. /\ st' \in [Timer -> {"FREE", "MTICK", "MQUIET"}]
        /\ usec' \in [Timer -> Nat] /\ oticks' \in [Timer -> Nat]
    BY DEF IInv, TypeOK
  <2>3. \A x \in Timer : st'[x] # "FREE" => oticks'[x] > 0 BY DEF IInv, TypeOK
  <2> QED BY <2>1, <2>2, <2>3 DEF IInv, TypeOK
<1>6. Request(t)
  <2>1. \A x \in Timer \ {t} : st'[x] = st[x] /\ usec'[x] = usec[x] /\ oticks'[x] = oticks[x]
    BY DEF IInv, TypeOK
  <2>2. OnQueue(queue') = {x \in Timer : st'[x] = "MTICK"}
    BY <1>1, <1>2 DEF IInv, TypeOK
  <2>3. t \in OnQueue(queue') => Left(Queue', t) = oticks'[t] BY <1>2, <1>3, <1>4
  <2> QED BY <1>3, <2>1, <2>2, <2>3 DEF Request
<1> QED BY <1>4, <1>5, <1>6

\* clk_tmrget: a free timer runs, for the interval asked for.
LEMMA TmrGetEffect ==
    ASSUME IInv, NEW t \in Timer, NEW u \in Intervals[t], TmrGet(t, u)
    PROVE  Request(t) /\ TypeOK' /\ st[t] = "FREE"
           /\ st'[t] = "MTICK" /\ usec'[t] = u /\ oticks'[t] = usec2tick(u, itickusec)
<1>1. Proper(Queue) /\ OnQueue(queue) = {x \in Timer : st[x] = "MTICK"} /\ Queue.s = queue
  BY QueueOfInv DEF IInv, Queue
<1>2. u \in Nat /\ itickusec \in Nat \ {0} BY IntervalAssumption DEF IInv, TypeOK
<1>3. usec2tick(u, itickusec) \in Nat /\ usec2tick(u, itickusec) >= 1 BY <1>2, Usec2tickFact
<1>4. /\ st[t] = "FREE" /\ st' = [st EXCEPT ![t] = "MTICK"]
      /\ usec' = [usec EXCEPT ![t] = u] /\ oticks' = [oticks EXCEPT ![t] = usec2tick(u, itickusec)]
      /\ StoreQueue(qinsert(Queue, t, oticks'[t]))
      /\ UNCHANGED <<itickusec, ce>> /\ ce = None
  BY DEF TmrGet
<1> DEFINE r == qinsert(Queue, t, usec2tick(u, itickusec))
<1>5. t \notin OnQueue(queue) BY <1>1, <1>4
<1>6. /\ Proper(r) /\ OnQueue(r.s) = OnQueue(queue) \cup {t}
      /\ \A x \in OnQueue(queue) : Left(r, x) = Left(Queue, x)
      /\ Left(r, t) = usec2tick(u, itickusec)
  BY ZenonT(40), <1>1, <1>3, <1>5, InsertMove
<1>7. StoreQueue(r)
  <2>1. oticks'[t] = usec2tick(u, itickusec) BY <1>4 DEF IInv, TypeOK
  <2> QED BY <1>4, <2>1
<1> HIDE DEF r
<1>8. /\ OnQueue(r.s) = (OnQueue(queue) \ {t}) \cup (IF "MTICK" = "MTICK" THEN {t} ELSE {})
      /\ \A x \in OnQueue(queue) \ {t} : Left(r, x) = Left(Queue, x)
  BY <1>6
<1>9. u \in Nat /\ usec2tick(u, itickusec) \in Nat /\ usec2tick(u, itickusec) > 0 BY <1>2, <1>3
<1>10. Request(t) /\ TypeOK' /\ st'[t] = "MTICK" /\ usec'[t] = u /\ oticks'[t] = usec2tick(u, itickusec)
  BY <1>4, <1>6, <1>7, <1>8, <1>9, RequestShape
<1> QED BY <1>4, <1>10

\* clk_tmrset: the timer keeps its state and has the new interval.
LEMMA TmrSetEffect ==
    ASSUME IInv, NEW t \in Timer, NEW u \in Intervals[t], TmrSet(t, u)
    PROVE  Request(t) /\ TypeOK' /\ st[t] # "FREE" /\ t \notin Forever
           /\ st'[t] = st[t] /\ usec'[t] = u /\ oticks'[t] = usec2tick(u, itickusec)
<1>1. Proper(Queue) /\ OnQueue(queue) = {x \in Timer : st[x] = "MTICK"} /\ Queue.s = queue
  BY QueueOfInv DEF IInv, Queue
<1>2. u \in Nat /\ itickusec \in Nat \ {0} BY IntervalAssumption DEF IInv, TypeOK
<1>3. usec2tick(u, itickusec) \in Nat /\ usec2tick(u, itickusec) >= 1 BY <1>2, Usec2tickFact
<1>4. /\ st[t] # "FREE" /\ t \notin Forever /\ UNCHANGED st
      /\ usec' = [usec EXCEPT ![t] = u] /\ oticks' = [oticks EXCEPT ![t] = usec2tick(u, itickusec)]
      /\ UNCHANGED <<itickusec, ce>> /\ ce = None
  BY DEF TmrSet
<1>5. st' = [st EXCEPT ![t] = st[t]] /\ st[t] \in {"FREE", "MTICK", "MQUIET"}
  BY <1>4 DEF IInv, TypeOK
<1>6. CASE st[t] = "MTICK"
  <2> DEFINE r == qinsert(qdelete(Queue, t), t, usec2tick(u, itickusec))
  <2>1. t \in OnQueue(queue) BY <1>1, <1>6
  <2>2. StoreQueue(r)
    <3>1. oticks'[t] = usec2tick(u, itickusec) BY <1>4 DEF IInv, TypeOK
    <3> QED BY <1>6, <3>1 DEF TmrSet
  <2>3. /\ Proper(r) /\ OnQueue(r.s) = OnQueue(queue)
        /\ \A x \in OnQueue(queue) \ {t} : Left(r, x) = Left(Queue, x)
        /\ Left(r, t) = usec2tick(u, itickusec)
    BY <1>1, <1>3, <2>1, MoveFact
  <2> HIDE DEF r
  <2>4. /\ Proper(r)
        /\ OnQueue(r.s) = (OnQueue(queue) \ {t}) \cup (IF "MTICK" = "MTICK" THEN {t} ELSE {})
        /\ \A x \in OnQueue(queue) \ {t} : Left(r, x) = Left(Queue, x)
        /\ Left(r, t) = usec2tick(u, itickusec)
    BY <2>1, <2>3
  <2>5. u \in Nat /\ usec2tick(u, itickusec) \in Nat /\ usec2tick(u, itickusec) > 0 BY <1>2, <1>3
  <2>6. /\ usec' = [usec EXCEPT ![t] = u] /\ oticks' = [oticks EXCEPT ![t] = usec2tick(u, itickusec)]
        /\ UNCHANGED <<itickusec, ce>> /\ ce = None /\ st' = [st EXCEPT ![t] = "MTICK"]
    BY <1>4, <1>5, <1>6
  <2>7. Request(t) /\ TypeOK' /\ st'[t] = "MTICK" /\ usec'[t] = u /\ oticks'[t] = usec2tick(u, itickusec)
    BY <2>2, <2>4, <2>5, <2>6, RequestShape
  <2> QED BY <1>4, <1>6, <2>7
<1>7. CASE st[t] # "MTICK"
  <2> DEFINE r == Queue
  <2>1. t \notin OnQueue(queue) BY <1>1, <1>7
  <2>2. Proper(r) /\ StoreQueue(r) BY <1>1, <1>7 DEF TmrSet, StoreQueue, Queue
  <2>3. /\ OnQueue(r.s) = (OnQueue(queue) \ {t}) \cup (IF st[t] = "MTICK" THEN {t} ELSE {})
        /\ \A x \in OnQueue(queue) \ {t} : Left(r, x) = Left(Queue, x)
    BY <1>1, <1>7, <2>1
  <2> HIDE DEF r
  <2>7. u \in Nat /\ usec2tick(u, itickusec) \in Nat /\ usec2tick(u, itickusec) > 0 BY <1>2, <1>3
  <2>4. Request(t) /\ TypeOK' /\ st'[t] = st[t] /\ usec'[t] = u /\ oticks'[t] = usec2tick(u, itickusec)
    BY <1>4, <1>5, <1>7, <2>2, <2>3, <2>7, RequestShape
  <2> QED BY <1>4, <2>4
<1> QED BY <1>6, <1>7

\* clk_tmrquiet: a running timer becomes quiescent and keeps its interval.
LEMMA TmrQuietEffect ==
    ASSUME IInv, NEW t \in Timer, TmrQuiet(t)
    PROVE  Request(t) /\ TypeOK' /\ st[t] = "MTICK" /\ t \notin Forever
           /\ st'[t] = "MQUIET" /\ usec'[t] = usec[t] /\ oticks'[t] = oticks[t]
<1>1. Proper(Queue) /\ OnQueue(queue) = {x \in Timer : st[x] = "MTICK"} /\ Queue.s = queue
  BY QueueOfInv DEF IInv, Queue
<1>2. /\ st[t] = "MTICK" /\ t \notin Forever /\ st' = [st EXCEPT ![t] = "MQUIET"]
      /\ StoreQueue(qdelete(Queue, t))
      /\ usec' = [usec EXCEPT ![t] = usec[t]] /\ oticks' = [oticks EXCEPT ![t] = oticks[t]]
      /\ UNCHANGED <<itickusec, ce>> /\ ce = None
  BY DEF TmrQuiet, IInv, TypeOK
<1>3. usec[t] \in Nat /\ oticks[t] \in Nat /\ oticks[t] > 0 BY <1>2 DEF IInv, TypeOK
<1> DEFINE r == qdelete(Queue, t)
<1>4. t \in OnQueue(queue) BY <1>1, <1>2
<1>5. /\ Proper(r) /\ OnQueue(r.s) = OnQueue(queue) \ {t}
      /\ \A x \in OnQueue(queue) \ {t} : Left(r, x) = Left(Queue, x)
  BY <1>1, <1>4, DeleteMove
<1>6. StoreQueue(r) BY <1>2
<1> HIDE DEF r
<1>7. OnQueue(r.s) = (OnQueue(queue) \ {t}) \cup (IF "MQUIET" = "MTICK" THEN {t} ELSE {})
  BY <1>5
<1>8. Request(t) /\ TypeOK' /\ st'[t] = "MQUIET" /\ usec'[t] = usec[t] /\ oticks'[t] = oticks[t]
  BY ZenonT(40), <1>2, <1>3, <1>5, <1>6, <1>7, RequestShape
<1> QED BY <1>2, <1>8

\* clk_tmractiv: a quiescent timer runs again, for the interval it has.
LEMMA TmrActivEffect ==
    ASSUME IInv, NEW t \in Timer, TmrActiv(t)
    PROVE  Request(t) /\ TypeOK' /\ st[t] = "MQUIET"
           /\ st'[t] = "MTICK" /\ usec'[t] = usec[t] /\ oticks'[t] = oticks[t]
<1>1. Proper(Queue) /\ OnQueue(queue) = {x \in Timer : st[x] = "MTICK"} /\ Queue.s = queue
  BY QueueOfInv DEF IInv, Queue
<1>2. /\ st[t] = "MQUIET" /\ st' = [st EXCEPT ![t] = "MTICK"]
      /\ StoreQueue(qinsert(Queue, t, oticks[t]))
      /\ usec' = [usec EXCEPT ![t] = usec[t]] /\ oticks' = [oticks EXCEPT ![t] = oticks[t]]
      /\ UNCHANGED <<itickusec, ce>> /\ ce = None
  BY DEF TmrActiv, IInv, TypeOK
<1>3. usec[t] \in Nat /\ oticks[t] \in Nat /\ oticks[t] > 0 BY <1>2 DEF IInv, TypeOK
<1> DEFINE r == qinsert(Queue, t, oticks[t])
<1>4. t \notin OnQueue(queue) BY <1>1, <1>2
<1>5. /\ Proper(r) /\ OnQueue(r.s) = OnQueue(queue) \cup {t}
      /\ \A x \in OnQueue(queue) : Left(r, x) = Left(Queue, x)
      /\ Left(r, t) = oticks[t]
  BY ZenonT(40), <1>1, <1>3, <1>4, InsertMove
<1>6. StoreQueue(r) BY <1>2
<1> HIDE DEF r
<1>7. /\ OnQueue(r.s) = (OnQueue(queue) \ {t}) \cup (IF "MTICK" = "MTICK" THEN {t} ELSE {})
      /\ \A x \in OnQueue(queue) \ {t} : Left(r, x) = Left(Queue, x)
  BY <1>5
<1>8. Request(t) /\ TypeOK' /\ st'[t] = "MTICK" /\ usec'[t] = usec[t] /\ oticks'[t] = oticks[t]
  BY <1>2, <1>3, <1>5, <1>6, <1>7, RequestShape
<1> QED BY <1>2, <1>8

\* clk_tmrkill: the timer becomes free.
LEMMA TmrKillEffect ==
    ASSUME IInv, NEW t \in Timer, TmrKill(t)
    PROVE  Request(t) /\ TypeOK' /\ st[t] # "FREE" /\ t \notin Forever
           /\ st'[t] = "FREE" /\ usec'[t] = usec[t] /\ oticks'[t] = oticks[t]
<1>1. Proper(Queue) /\ OnQueue(queue) = {x \in Timer : st[x] = "MTICK"} /\ Queue.s = queue
  BY QueueOfInv DEF IInv, Queue
<1>2. /\ st[t] # "FREE" /\ t \notin Forever /\ st' = [st EXCEPT ![t] = "FREE"]
      /\ IF st[t] = "MTICK" THEN StoreQueue(qdelete(Queue, t)) ELSE StoreQueue(Queue)
      /\ usec' = [usec EXCEPT ![t] = usec[t]] /\ oticks' = [oticks EXCEPT ![t] = oticks[t]]
      /\ UNCHANGED <<itickusec, ce>> /\ ce = None
  BY DEF TmrKill, IInv, TypeOK, StoreQueue, Queue
<1>3. usec[t] \in Nat /\ oticks[t] \in Nat BY DEF IInv, TypeOK
<1> DEFINE r == IF st[t] = "MTICK" THEN qdelete(Queue, t) ELSE Queue
<1>4. /\ Proper(r) /\ OnQueue(r.s) = OnQueue(queue) \ {t}
      /\ \A x \in OnQueue(queue) \ {t} : Left(r, x) = Left(Queue, x)
  <2>1. CASE st[t] = "MTICK"
    <3>1. t \in OnQueue(queue) BY <1>1, <2>1
    <3> QED BY <1>1, <2>1, <3>1, DeleteMove
  <2>2. CASE st[t] # "MTICK"
    <3>1. t \notin OnQueue(queue) BY <1>1, <2>2
    <3> QED BY <1>1, <2>2, <3>1
  <2> QED BY <2>1, <2>2
<1>5. StoreQueue(r) BY <1>2
<1> HIDE DEF r
<1>6. OnQueue(r.s) = (OnQueue(queue) \ {t}) \cup (IF "FREE" = "MTICK" THEN {t} ELSE {})
  BY <1>4
<1>7. Request(t) /\ TypeOK' /\ st'[t] = "FREE" /\ usec'[t] = usec[t] /\ oticks'[t] = oticks[t]
  BY <1>2, <1>3, <1>4, <1>5, <1>6, RequestShape
<1> QED BY <1>2, <1>7

\* Every request keeps the invariant if it leaves the timer with its interval in ticks.
LEMMA RequestKeeps ==
    ASSUME IInv, NEW t \in Timer, Request(t), TypeOK',
           t \in Forever => st[t] = "FREE" \/ st[t] = "MQUIET",
           st'[t] # "FREE" => /\ usec'[t] \in Intervals[t]
                              /\ oticks'[t] = usec2tick(usec'[t], itickusec)
    PROVE  IInv'
<1>1. Proper(Queue) /\ OnQueue(queue) = {x \in Timer : st[x] = "MTICK"} /\ AtHead(Queue, ce)
      /\ Queue.s = queue /\ None \notin Timer
  BY QueueOfInv, TimerAssumption DEF IInv, Queue
<1>2. t \notin Forever BY DEF IInv, KeepAliveSoon
<1>3. \A x \in OnQueue(queue) : Left(Queue, x) \in Nat /\ Left(Queue, x) >= 1
  BY <1>1, LeftFact DEF Request
<1>4. \A x \in OnQueue(queue') : Left(Queue', x) >= 1
  <2> SUFFICES ASSUME NEW x \in OnQueue(queue') PROVE Left(Queue', x) >= 1 OBVIOUS
  <2>1. CASE x = t
    <3>1. st'[t] = "MTICK" BY <2>1 DEF Request
    <3>2. oticks'[t] \in Nat /\ oticks'[t] > 0 BY <3>1 DEF TypeOK
    <3> QED BY <2>1, <3>2 DEF Request
  <2>2. CASE x # t
    <3>1. x \in OnQueue(queue) \ {t} BY <2>2, <1>1 DEF Request
    <3> QED BY <3>1, <1>3 DEF Request
  <2> QED BY <2>1, <2>2
<1>5. AtHead(Queue', ce')
  <2>1. Queue'.s = queue' BY DEF Queue
  <2>2. AtHead(Queue', None) BY <1>4, <2>1, NoneDue DEF Request
  <2> QED BY <2>2 DEF Request
<1>6. Linked' /\ HeadDue'
  <2>1. Queue'.s = queue' /\ Queue'.tk = ticks' BY DEF Queue
  <2>2. Proper(Queue') /\ OnQueue(queue') = {x \in Timer : st'[x] = "MTICK"} BY DEF Request
  <2>3. /\ \A i, j \in 1..Len(queue') : queue'[i] = queue'[j] => i = j
        /\ \A i \in 1..Len(queue') : ticks'[queue'[i]] >= 0
        /\ ce' # None => queue' # <<>> /\ ce' = Head(queue') /\ ticks'[ce'] = 0
        /\ ce' = None /\ queue' # <<>> => ticks'[Head(queue')] >= 1
    BY <1>5, <2>1, <2>2, HeadOfQueue
  <2> QED BY <2>2, <2>3 DEF Linked, HeadDue
<1>7. Current' BY DEF Current, IInv, Request
<1>8. KeepAliveSoon'
  <2>1. \A f \in Forever : f # t /\ f \in Timer /\ f \in OnQueue(queue)
    BY <1>1, <1>2, TimerAssumption DEF IInv, KeepAliveSoon
  <2>2. \A f \in Forever : st'[f] = "MTICK" /\ Left(Queue', f) = Left(Queue, f)
    BY <2>1 DEF Request, IInv, KeepAliveSoon
  <2> QED BY <2>2 DEF KeepAliveSoon, IInv, Request
<1> QED BY <1>6, <1>7, <1>8 DEF IInv

-----------------------------------------------------------------------------
(* A change of the tick                                                    *)

\* The latest of the first n entries is one of them.
LEMMA LatestFact ==
    ASSUME NEW o \in [Timer -> Nat], queue \in Seq(Timer), NEW n \in 1..Len(queue)
    PROVE  /\ \E i \in 1..n : Latest(o, n) = o[queue[i]]
           /\ \A i \in 1..n : o[queue[i]] <= Latest(o, n)
           /\ Latest(o, n) \in Nat
<1> DEFINE Top(m) == \E j \in 1..m : \A i \in 1..m : o[queue[i]] <= o[queue[j]]
           S == {m \in 0..n : m = 0 \/ Top(m)}
<1>1. Len(queue) \in Nat /\ n \in Nat /\ \A i \in 1..n : o[queue[i]] \in Nat
  OBVIOUS
<1>2. 0 \in S BY <1>1
<1>3. ASSUME NEW m \in 0..n, m \in S, m < n PROVE m + 1 \in S
  <2>1. m + 1 \in 1..n /\ \A i \in 1..(m + 1) : i \in 1..n BY <1>1, <1>3
  <2>2. CASE m = 0
    <3>1. \A i \in 1..(m + 1) : o[queue[i]] <= o[queue[m + 1]]
      <4>1. \A i \in 1..(m + 1) : i = m + 1 BY <2>2
      <4> QED BY SMTT(30), <4>1, <2>1, <1>1
    <3> QED BY <3>1, <2>1
  <2>3. CASE m # 0
    <3>1. PICK j \in 1..m : \A i \in 1..m : o[queue[i]] <= o[queue[j]] BY <2>3, <1>3
    <3>2. j \in 1..(m + 1) /\ m + 1 \in 1..(m + 1) BY <1>1, <1>3
    <3>3. \A i \in 1..(m + 1) : i \in 1..m \/ i = m + 1 BY <1>1, <1>3
    <3>4. CASE o[queue[m + 1]] <= o[queue[j]]
      <4>1. \A i \in 1..(m + 1) : o[queue[i]] <= o[queue[j]] BY <3>1, <3>3, <3>4
      <4> QED BY <4>1, <3>2, <2>1
    <3>5. CASE ~(o[queue[m + 1]] <= o[queue[j]])
      <4>1. o[queue[j]] <= o[queue[m + 1]] BY <3>2, <3>5, <2>1, <1>1
      <4>2. ASSUME NEW i \in 1..(m + 1) PROVE o[queue[i]] <= o[queue[m + 1]]
        <5>1. o[queue[i]] \in Nat /\ o[queue[m + 1]] \in Nat /\ o[queue[j]] \in Nat
          BY <3>2, <2>1, <1>1
        <5>2. CASE i \in 1..m BY <5>1, <5>2, <4>1, <3>1
        <5>3. CASE i = m + 1 BY <5>1, <5>3
        <5> QED BY <5>2, <5>3, <3>3
      <4> QED BY <4>2, <3>2, <2>1
    <3> QED BY <3>4, <3>5
  <2> QED BY <2>2, <2>3
<1>4. \A m \in 0..n : m \in S
  <2>1. S \in SUBSET (0..n) OBVIOUS
  <2> HIDE DEF S
  <2> QED BY <1>1, <1>2, <1>3, <2>1, UpTo
<1>5. PICK j \in 1..n : \A i \in 1..n : o[queue[i]] <= o[queue[j]]
  <2>1. n \in S /\ n # 0
    <3>1. n \in 0..n /\ n # 0 BY <1>1
    <3> HIDE DEF S
    <3> QED BY <3>1, <1>4
  <2> QED BY <2>1
<1> DEFINE V == {o[queue[i]] : i \in 1..n}
<1>6. \E m \in V : \A i \in 1..n : o[queue[i]] <= m BY <1>5
<1>7. Latest(o, n) \in V /\ \A i \in 1..n : o[queue[i]] <= Latest(o, n)
  BY <1>6 DEF Latest
<1> QED BY <1>1, <1>7

\* Every running timer starts over, and none goes off before one that was ahead of it.
LEMMA ItusSetEffect ==
    ASSUME IInv, NEW len \in TickLens, ItusSet(len)
    PROVE  /\ ce = None /\ ce' = None /\ itickusec' = len /\ UNCHANGED <<st, usec, queue>>
           /\ TypeOK' /\ Proper(Queue')
           /\ \A t \in Timer : oticks'[t] = IF st[t] = "FREE" THEN oticks[t] ELSE usec2tick(usec[t], len)
           /\ \A i \in 1..Len(queue) : SumTo(Queue', i) = Latest(oticks', i)
<1> DEFINE L == Len(queue)
<1>1. /\ ce = None /\ itickusec' = len /\ UNCHANGED <<st, usec, queue, ce>>
      /\ oticks' = [t \in Timer |-> IF st[t] = "FREE" THEN oticks[t] ELSE usec2tick(usec[t], len)]
      /\ ticks' = [t \in Timer |->
                      IF t \notin OnQueue(queue) THEN ticks[t]
                      ELSE IF PosOf(queue, t) = 1 THEN oticks'[t]
                           ELSE Latest(oticks', PosOf(queue, t)) - Latest(oticks', PosOf(queue, t) - 1)]
  BY DEF ItusSet
<1>2. Proper(Queue) /\ queue \in Seq(Timer) /\ L \in Nat /\ Distinct(queue)
  <2>1. Proper(Queue) BY QueueOfInv DEF IInv
  <2> QED BY <2>1 DEF Proper, Queue, QType
<1>3. oticks' \in [Timer -> Nat] /\ \A t \in Timer : st[t] # "FREE" => oticks'[t] > 0
  <2>1. len \in Nat \ {0} BY IntervalAssumption
  <2>2. \A t \in Timer : usec2tick(usec[t], len) \in Nat /\ usec2tick(usec[t], len) >= 1
    BY <2>1, Usec2tickFact DEF IInv, TypeOK
  <2>3. \A t \in Timer : oticks[t] \in Nat BY DEF IInv, TypeOK
  <2> QED BY <1>1, <2>2, <2>3
<1>4. \A n \in 1..L : /\ \E i \in 1..n : Latest(oticks', n) = oticks'[queue[i]]
                      /\ \A i \in 1..n : oticks'[queue[i]] <= Latest(oticks', n)
                      /\ Latest(oticks', n) \in Nat
  BY <1>2, <1>3, LatestFact
<1>5. \A i \in 1..L : queue[i] \in OnQueue(queue) /\ queue[i] \in Timer /\ PosOf(queue, queue[i]) = i
  BY <1>2, PosFact DEF OnQueue
<1>6. ASSUME 1 \in 1..L PROVE ticks'[queue[1]] = Latest(oticks', 1)
  <2>1. ticks'[queue[1]] = oticks'[queue[1]] BY <1>1, <1>5, <1>6
  <2>2. Latest(oticks', 1) = oticks'[queue[1]]
    <3>1. PICK i \in 1..1 : Latest(oticks', 1) = oticks'[queue[i]] BY <1>4, <1>6
    <3> QED BY <3>1
  <2> QED BY <2>1, <2>2
<1>7. ASSUME NEW i \in 2..L
      PROVE  /\ ticks'[queue[i]] = Latest(oticks', i) - Latest(oticks', i - 1)
             /\ i \in 1..L /\ i - 1 \in 1..L
             /\ Latest(oticks', i - 1) <= Latest(oticks', i)
  <2>1. i \in 1..L /\ i - 1 \in 1..L /\ i # 1 BY <1>2
  <2>2. PICK j \in 1..(i - 1) : Latest(oticks', i - 1) = oticks'[queue[j]] BY <2>1, <1>4
  <2>3. j \in 1..i BY <2>1, <1>2
  <2>4. Latest(oticks', i - 1) <= Latest(oticks', i) BY <2>1, <2>2, <2>3, <1>4
  <2> QED BY <2>1, <2>4, <1>1, <1>5
<1>8. \A i \in 1..L : ticks'[queue[i]] \in Nat
  <2> TAKE i \in 1..L
  <2>1. CASE i = 1 BY <2>1, <1>4, <1>6
  <2>2. CASE i # 1
    <3>1. i \in 2..L BY <2>2, <1>2
    <3>2. Latest(oticks', i) \in Nat /\ Latest(oticks', i - 1) \in Nat BY <3>1, <1>4, <1>7
    <3> QED BY <3>1, <3>2, <1>7
  <2> QED BY <2>1, <2>2
<1>9. ticks' \in [Timer -> Int]
  <2>1. ASSUME NEW t \in Timer PROVE ticks'[t] \in Int
    <3>1. CASE t \notin OnQueue(queue)
      <4>1. ticks[t] \in Int BY DEF IInv, TypeOK
      <4> QED BY <3>1, <4>1, <1>1
    <3>2. CASE t \in OnQueue(queue) 
      <4>1. PICK i \in 1..L : t = queue[i] BY <3>2 DEF OnQueue
      <4> QED BY <4>1, <1>8
    <3> QED BY <3>1, <3>2
  <2>2. ticks' = [t \in Timer |-> ticks'[t]] BY <1>1
  <2> QED BY <2>1, <2>2
<1>10. Queue' = [s |-> queue, tk |-> ticks'] BY <1>1 DEF Queue
<1>11. Proper(Queue')
  BY <1>2, <1>8, <1>9, <1>10 DEF Proper, QType
<1>12. \A i \in 1..L : SumTo(Queue', i) = Latest(oticks', i)
  <2> DEFINE g == [i \in 0..L |-> IF i = 0 THEN 0 ELSE Latest(oticks', i)]
  <2>1. ASSUME NEW n \in 1..L PROVE g[n] = g[n - 1] + ticks'[queue[n]]
    <3>1. CASE n = 1
      <4>1. g[n] = Latest(oticks', 1) /\ g[n - 1] = 0 BY <3>1
      <4>2. Latest(oticks', 1) \in Nat BY <3>1, <1>4
      <4> QED BY <3>1, <4>1, <4>2, <1>6
    <3>2. CASE n # 1
      <4>1. n \in 2..L /\ n - 1 \in 1..L BY <3>2, <1>2
      <4>2. g[n] = Latest(oticks', n) /\ g[n - 1] = Latest(oticks', n - 1) BY <4>1
      <4>3. Latest(oticks', n) \in Nat /\ Latest(oticks', n - 1) \in Nat BY <4>1, <1>4
      <4> QED BY <4>1, <4>2, <4>3, <1>7
    <3> QED BY <3>1, <3>2
  <2>2. ASSUME NEW i \in 1..L PROVE SumTo(Queue', i) = g[i]
    <3>1. Sums(g, Queue', i)
      <4>1. g[0] = 0 BY <1>2
      <4>2. \A n \in 1..i : n \in 1..L BY <1>2
      <4> HIDE DEF g
      <4> QED BY <4>1, <4>2, <2>1, <1>10 DEF Sums
    <3> HIDE DEF g
    <3> QED BY <3>1, SumUnique
  <2>3. ASSUME NEW i \in 1..L PROVE g[i] = Latest(oticks', i)
    <3>1. i \in 0..L /\ i # 0 BY <1>2
    <3> QED BY <3>1
  <2> HIDE DEF g
  <2> QED BY <2>2, <2>3
<1>13. TypeOK'
  BY <1>1, <1>3, <1>9 DEF TypeOK, IInv
<1> QED BY <1>1, <1>11, <1>12, <1>13

\* The interval of every running timer is converted with the new tick, so the
\* keep-alive is still no later than anything a callout could start: the place where
\* NestedAssumption must rule out a timer longer than that.
LEMMA ItusSetKeeps ==
    ASSUME IInv, NEW len \in TickLens, ItusSet(len)
    PROVE  IInv'
<1> DEFINE L == Len(queue)
<1>1. /\ ce = None /\ ce' = None /\ itickusec' = len /\ UNCHANGED <<st, usec, queue>>
      /\ TypeOK' /\ Proper(Queue')
      /\ \A t \in Timer : oticks'[t] = IF st[t] = "FREE" THEN oticks[t] ELSE usec2tick(usec[t], len)
      /\ \A i \in 1..L : SumTo(Queue', i) = Latest(oticks', i)
  BY ItusSetEffect
<1>2. /\ Proper(Queue) /\ OnQueue(queue) = {t \in Timer : st[t] = "MTICK"}
      /\ queue \in Seq(Timer) /\ L \in Nat /\ Distinct(queue) /\ oticks' \in [Timer -> Nat]
  <2>1. Proper(Queue) /\ OnQueue(queue) = {t \in Timer : st[t] = "MTICK"}
    BY QueueOfInv DEF IInv
  <2> QED BY <2>1, <1>1 DEF Proper, Queue, QType, TypeOK
<1>3. ASSUME NEW i \in 1..L
      PROVE  /\ queue[i] \in Timer /\ st[queue[i]] = "MTICK"
             /\ PosOf(queue, queue[i]) = i
  BY <1>2, PosFact DEF OnQueue
<1>4. ASSUME NEW i \in 1..L
      PROVE  \E j \in 1..i : j \in 1..L /\ SumTo(Queue', i) = oticks'[queue[j]]
  <2>1. PICK j \in 1..i : Latest(oticks', i) = oticks'[queue[j]] BY <1>2, LatestFact
  <2>2. j \in 1..L BY <1>2
  <2> QED BY <2>1, <2>2, <1>1
<1>5. AtHead(Queue', ce')
  <2>1. ASSUME queue # <<>> PROVE SumTo(Queue', 1) >= 1
    <3>1. 1 \in 1..L BY <1>2, <2>1, EmptySeq
    <3>2. PICK j \in 1..1 : j \in 1..L /\ SumTo(Queue', 1) = oticks'[queue[j]] BY <3>1, <1>4
    <3>3. queue[j] \in Timer /\ st'[queue[j]] # "FREE" BY <3>2, <1>1, <1>3
    <3>4. oticks'[queue[j]] \in Nat /\ oticks'[queue[j]] > 0 BY <3>3, <1>1 DEF TypeOK
    <3> QED BY <3>2, <3>4
  <2> QED BY <2>1, <1>1 DEF AtHead, Queue
<1>6. Linked' /\ HeadDue'
  <2>1. Queue'.s = queue' /\ Queue'.tk = ticks' BY DEF Queue
  <2>2. OnQueue(queue') = {x \in Timer : st'[x] = "MTICK"} BY <1>1, <1>2
  <2>3. /\ \A i, j \in 1..Len(queue') : queue'[i] = queue'[j] => i = j
        /\ \A i \in 1..Len(queue') : ticks'[queue'[i]] >= 0
        /\ ce' # None => queue' # <<>> /\ ce' = Head(queue') /\ ticks'[ce'] = 0
        /\ ce' = None /\ queue' # <<>> => ticks'[Head(queue')] >= 1
    BY <1>1, <1>5, <2>1, HeadOfQueue
  <2> QED BY <2>2, <2>3 DEF Linked, HeadDue
<1>7. Current' BY <1>1 DEF Current, IInv
<1>8. KeepAliveSoon'
  <2>1. \A f \in Forever : st'[f] = "MTICK" BY <1>1 DEF IInv, KeepAliveSoon
  <2>2. ASSUME NEW t \in Timer, NEW x \in Nested[t], NEW b \in Intervals[x], NEW f \in Forever
        PROVE  Left(Queue', f) <= usec2tick(b, len)
    <3>1. f \in OnQueue(queue) BY <1>1, <1>2, <2>1, TimerAssumption
    <3>2. PICK i \in 1..L : f = queue[i] BY <3>1 DEF OnQueue
    <3>3. Left(Queue', f) = SumTo(Queue', i) BY <3>2, <1>1, <1>3 DEF Left, Queue
    <3>4. PICK j \in 1..i : j \in 1..L /\ SumTo(Queue', i) = oticks'[queue[j]] BY <1>4
    <3>5. queue[j] \in Timer /\ st[queue[j]] # "FREE" BY <3>4, <1>3
    <3>6. /\ usec[queue[j]] \in Intervals[queue[j]]
          /\ oticks'[queue[j]] = usec2tick(usec[queue[j]], len)
      BY <3>5, <1>1 DEF IInv, Current
    <3>7. \A u \in Timer : \A a \in Intervals[u] : a <= b
      <4>1. len # itickusec /\ itickusec \in TickLens BY DEF ItusSet, IInv, TypeOK
      <4> QED BY <4>1, NestedAssumption
    <3>8. /\ len \in Nat \ {0} /\ b \in Nat /\ usec[queue[j]] \in Nat
          /\ usec[queue[j]] <= b
      <4>1. x \in Timer BY TimerAssumption
      <4> QED BY <4>1, <3>5, <3>6, <3>7, IntervalAssumption
    <3> QED BY <3>3, <3>4, <3>6, <3>8, Usec2tickFact
  <2> QED BY <2>1, <2>2, <1>1 DEF KeepAliveSoon
<1> QED BY <1>1, <1>6, <1>7, <1>8 DEF IInv

-----------------------------------------------------------------------------
(* A tick                                                                  *)

\* Counting down the head counts down every entry.
LEMMA SynctimeoutEffect ==
    ASSUME IInv, Synctimeout
    PROVE  /\ ce = None /\ UNCHANGED <<st, usec, oticks, queue, itickusec>>
           /\ TypeOK' /\ Proper(Queue') /\ AtHead(Queue', ce')
           /\ \A x \in OnQueue(queue) : Left(Queue', x) = Left(Queue, x) - 1
<1> DEFINE L == Len(queue)
           h == queue[1]
<1>1. /\ ce = None /\ queue # <<>> /\ UNCHANGED <<st, usec, oticks, queue, itickusec>>
      /\ ticks' = [ticks EXCEPT ![Head(queue)] = @ - 1]
      /\ ce' = IF ticks'[Head(queue)] <= 0 THEN Head(queue) ELSE None
  BY DEF Synctimeout
<1>2. Proper(Queue) /\ AtHead(Queue, ce) /\ Queue.s = queue /\ Queue.tk = ticks
  BY QueueOfInv DEF IInv, Queue
<1>3. /\ queue \in Seq(Timer) /\ L \in Nat /\ Distinct(queue) /\ ticks \in [Timer -> Int]
  BY <1>2 DEF Proper, QType
<1>4. /\ 1 \in 1..L /\ h = Head(queue) /\ h \in Timer /\ SumTo(Queue, 1) = ticks[h]
      /\ SumTo(Queue, 1) \in Nat /\ SumTo(Queue, 1) >= 1
  BY <1>1, <1>2, HeadSum DEF AtHead
<1>5. \A i \in 1..L : /\ queue[i] \in Timer
                      /\ ticks'[queue[i]] = IF i = 1 THEN ticks[h] - 1 ELSE ticks[queue[i]]
  BY <1>1, <1>3, <1>4 DEF Distinct
<1>6. /\ SumTo(Queue, 0) = 0
      /\ \A i \in 0..L : SumTo(Queue, i) \in Nat
      /\ \A i \in 1..L : ticks[queue[i]] \in Nat
      /\ \A i \in 1..L : SumTo(Queue, i) = SumTo(Queue, i - 1) + ticks[queue[i]]
  BY <1>2, ProperSums
<1>7. ticks' \in [Timer -> Int] BY <1>1, <1>3, <1>4
<1>8. Queue' = [s |-> queue, tk |-> ticks'] BY <1>1 DEF Queue
<1>9. Proper(Queue')
  <2>1. \A i \in 1..L : ticks'[queue[i]] >= 0 BY <1>4, <1>5, <1>6
  <2> QED BY <1>3, <1>7, <1>8, <2>1 DEF Proper, QType
<1>10. ASSUME NEW i \in 1..L PROVE SumTo(Queue', i) = SumTo(Queue, i) - 1
  <2> DEFINE g == [n \in 0..L |-> IF n = 0 THEN 0 ELSE SumTo(Queue, n) - 1]
  <2>1. ASSUME NEW n \in 1..L PROVE g[n] = g[n - 1] + ticks'[queue[n]]
    <3>1. n \in 0..L /\ n - 1 \in 0..L /\ n # 0 BY <1>3
    <3>2. SumTo(Queue, n) \in Nat /\ SumTo(Queue, n - 1) \in Nat BY <3>1, <1>6
    <3>3. CASE n = 1
      <4>1. g[n] = ticks[h] - 1 /\ g[n - 1] = 0 BY <3>1, <3>3, <1>4
      <4>2. ticks[h] \in Nat BY <1>4
      <4> QED BY <3>3, <4>1, <4>2, <1>5
    <3>4. CASE n # 1
      <4>1. g[n] = SumTo(Queue, n) - 1 /\ g[n - 1] = SumTo(Queue, n - 1) - 1
        <5>1. n - 1 # 0 BY <3>4, <1>3
        <5> QED BY <3>1, <5>1
      <4>2. ticks'[queue[n]] = ticks[queue[n]] /\ ticks[queue[n]] \in Nat BY <3>4, <1>5, <1>6
      <4>3. SumTo(Queue, n) = SumTo(Queue, n - 1) + ticks[queue[n]] BY <1>6
      <4> QED BY <3>2, <4>1, <4>2, <4>3
    <3> QED BY <3>3, <3>4
  <2>2. Sums(g, Queue', i)
    <3>1. g[0] = 0 BY <1>3
    <3>2. \A n \in 1..i : n \in 1..L BY <1>3
    <3> HIDE DEF g
    <3> QED BY <3>1, <3>2, <2>1, <1>8 DEF Sums
  <2>3. SumTo(Queue', i) = g[i]
    <3> HIDE DEF g
    <3> QED BY <2>2, SumUnique
  <2>4. i \in 0..L /\ i # 0 BY <1>3
  <2> QED BY <2>3, <2>4
<1>11. AtHead(Queue', ce')
  <2>1. SumTo(Queue', 1) = ticks[h] - 1 /\ ticks'[h] = ticks[h] - 1 /\ ticks[h] \in Nat
    BY <1>4, <1>5, <1>10
  <2>2. h # None BY <1>4, TimerAssumption
  <2>3. ce' = IF ticks[h] - 1 <= 0 THEN h ELSE None BY <1>1, <1>4, <2>1
  <2>4. ticks[h] >= 1 BY <1>4
  <2> QED BY <1>1, <1>8, <2>1, <2>2, <2>3, <2>4 DEF AtHead
<1>12. ASSUME NEW x \in OnQueue(queue) PROVE Left(Queue', x) = Left(Queue, x) - 1
  <2>1. PosOf(queue, x) \in 1..L BY <1>3, PosFact
  <2> QED BY <2>1, <1>2, <1>8, <1>10 DEF Left
<1>13. TypeOK'
  BY <1>1, <1>4, <1>7 DEF TypeOK, IInv
<1> QED BY <1>1, <1>9, <1>11, <1>12, <1>13

\* A tick preserves the invariant: everybody is one tick closer, the keep-alive too.
LEMMA SynctimeoutKeeps ==
    ASSUME IInv, Synctimeout
    PROVE  IInv'
<1>1. /\ ce = None /\ UNCHANGED <<st, usec, oticks, queue, itickusec>>
      /\ TypeOK' /\ Proper(Queue') /\ AtHead(Queue', ce')
      /\ \A x \in OnQueue(queue) : Left(Queue', x) = Left(Queue, x) - 1
  BY SynctimeoutEffect
<1>2. /\ Proper(Queue) /\ AtHead(Queue, ce) /\ Queue.s = queue
      /\ OnQueue(queue) = {t \in Timer : st[t] = "MTICK"}
  BY QueueOfInv DEF IInv, Queue
<1>3. Linked' /\ HeadDue'
  <2>1. Queue'.s = queue' /\ Queue'.tk = ticks' BY DEF Queue
  <2>2. OnQueue(queue') = {x \in Timer : st'[x] = "MTICK"} BY <1>1, <1>2
  <2>3. /\ \A i, j \in 1..Len(queue') : queue'[i] = queue'[j] => i = j
        /\ \A i \in 1..Len(queue') : ticks'[queue'[i]] >= 0
        /\ ce' # None => queue' # <<>> /\ ce' = Head(queue') /\ ticks'[ce'] = 0
        /\ ce' = None /\ queue' # <<>> => ticks'[Head(queue')] >= 1
    BY <1>1, <2>1, HeadOfQueue
  <2> QED BY <2>2, <2>3 DEF Linked, HeadDue
<1>4. Current' BY <1>1 DEF Current, IInv
<1>5. KeepAliveSoon'
  <2>1. \A f \in Forever : st'[f] = "MTICK" BY <1>1 DEF IInv, KeepAliveSoon
  <2>2. ASSUME NEW t \in Timer, NEW x \in Nested[t], NEW b \in Intervals[x], NEW f \in Forever
        PROVE  Left(Queue', f) <= usec2tick(b, itickusec')
    <3>1. f \in OnQueue(queue) BY <1>1, <1>2, <2>1, TimerAssumption
    <3>2. Left(Queue, f) \in Nat BY <1>2, <3>1, LeftFact, TimerAssumption
    <3>3. Left(Queue, f) <= usec2tick(b, itickusec) BY DEF IInv, KeepAliveSoon
    <3>4. usec2tick(b, itickusec) \in Nat
      <4>1. x \in Timer /\ b \in Nat /\ itickusec \in Nat \ {0}
        BY TimerAssumption, IntervalAssumption DEF IInv, TypeOK
      <4> QED BY <4>1, Usec2tickFact
    <3>5. itickusec' = itickusec BY <1>1
    <3> QED BY <1>1, <3>1, <3>2, <3>3, <3>4, <3>5
  <2> QED BY <2>1, <2>2 DEF KeepAliveSoon
<1> QED BY <1>1, <1>3, <1>4, <1>5 DEF IInv

-----------------------------------------------------------------------------
(* A turn of the loop                                                      *)

\* While the loop is at c, which is due, no timer that c's callout starts goes off before
\* the entry that follows c: it is linked in behind that one.
LEMMA StartedBehindNext ==
    ASSUME IInv, ce # None, NEW x \in Nested[ce], st[x] = "MQUIET"
    PROVE  /\ Len(queue) >= 2
           /\ SumTo(Queue, 2) <= oticks[x]
<1>1. /\ Proper(Queue) /\ AtHead(Queue, ce) /\ Queue.s = queue /\ None \notin Timer
      /\ OnQueue(queue) = {t \in Timer : st[t] = "MTICK"}
  BY QueueOfInv, TimerAssumption DEF IInv, Queue
<1>2. queue \in Seq(Timer) /\ Len(queue) \in Nat /\ Distinct(queue)
  BY <1>1 DEF Proper, QType
<1>3. ce \in Timer /\ ce = queue[1] /\ queue # <<>> BY <1>1 DEF AtHead, IInv, TypeOK
<1>4. x \in Timer /\ Nested[ce] \subseteq Timer BY <1>3, TimerAssumption
<1>5. usec[x] \in Intervals[x] /\ oticks[x] = usec2tick(usec[x], itickusec)
  BY <1>4 DEF IInv, Current
<1>6. ce \notin Forever /\ Forever # {}
  BY <1>3, <1>4, <1>5, NestedAssumption
<1>7. PICK f \in Forever : TRUE BY <1>6
<1>8. f \in OnQueue(queue) /\ f # ce
  BY <1>1, <1>6, <1>7, TimerAssumption DEF IInv, KeepAliveSoon
<1>9. PICK p \in 1..Len(queue) : queue[p] = f BY <1>8 DEF OnQueue
<1>10. p # 1 /\ p >= 2 /\ Len(queue) >= 2 BY <1>2, <1>3, <1>8, <1>9
<1>11. Left(Queue, f) = SumTo(Queue, p)
  BY <1>1, <1>2, <1>9, PosFact DEF Left
<1>12. Left(Queue, f) <= oticks[x]
  BY <1>3, <1>5, <1>7 DEF IInv, KeepAliveSoon
<1>13. SumTo(Queue, 2) <= SumTo(Queue, p)
  <2>1. p \in 0..Len(Queue.s) /\ 2 \in 0..p BY <1>1, <1>2, <1>10
  <2> QED BY <2>1, <1>1, SumMonotone
<1>14. SumTo(Queue, 2) \in Nat /\ SumTo(Queue, p) \in Nat /\ oticks[x] \in Nat
  <2>1. 2 \in 0..Len(Queue.s) /\ p \in 0..Len(Queue.s) BY <1>1, <1>2, <1>10
  <2> QED BY <2>1, <1>1, <1>4, ProperSums DEF IInv, TypeOK
<1> QED BY <1>10, <1>11, <1>12, <1>13, <1>14

\* The queue after the callout's own calls.
Called(X) == IF X = {} THEN Queue
             ELSE LET x == CHOOSE x \in X : TRUE IN qinsert(Queue, x, oticks[x])

\* What the callout's own calls do to the queue: nobody on it changes its time, and the
\* due entry and the one behind it are still the first two.
LEMMA CalledFact ==
    ASSUME IInv, ce # None, NEW X, X \in {{}} \cup {{x} : x \in Nested[ce]},
           \A x \in X : st[x] = "MQUIET"
    PROVE  /\ X \subseteq Timer \ OnQueue(queue)
           /\ Proper(Called(X)) /\ OnQueue(Called(X).s) = OnQueue(queue) \cup X
           /\ \A y \in OnQueue(queue) : Left(Called(X), y) = Left(Queue, y)
           /\ \A y \in X : Left(Called(X), y) = oticks[y]
           /\ Called(X).s # <<>> /\ Called(X).s[1] = ce /\ SumTo(Called(X), 1) = 0
           /\ Len(queue) = 1 <=> Len(Called(X).s) = 1
           /\ Len(queue) >= 2 => Called(X).s[2] = queue[2]
<1>1. /\ Proper(Queue) /\ AtHead(Queue, ce) /\ Queue.s = queue /\ None \notin Timer
      /\ OnQueue(queue) = {t \in Timer : st[t] = "MTICK"}
  BY QueueOfInv, TimerAssumption DEF IInv, Queue
<1>2. queue \in Seq(Timer) /\ Len(queue) \in Nat /\ Distinct(queue)
  BY <1>1 DEF Proper, QType
<1>3. /\ ce \in Timer /\ ce = queue[1] /\ queue # <<>> /\ SumTo(Queue, 1) = 0
  BY <1>1 DEF AtHead, IInv, TypeOK
<1>4. CASE X = {}
  BY <1>1, <1>3, <1>4 DEF Called
<1>5. CASE X # {}
  <2>1. PICK z \in Nested[ce] : X = {z} BY <1>5
  <2>2. st[z] = "MQUIET" /\ z \in Timer BY <2>1, <1>3, TimerAssumption
  <2>3. z \notin OnQueue(queue) /\ oticks[z] \in Nat BY <1>1, <2>2 DEF IInv, TypeOK
  <2> DEFINE r == qinsert(Queue, z, oticks[z])
  <2>4. Called(X) = r
    <3>1. (CHOOSE y \in X : TRUE) = z BY <2>1
    <3> QED BY <1>5, <3>1 DEF Called
  <2>5. /\ Proper(r)
        /\ \E k \in 0..Len(queue) : /\ k < Len(queue) => SumTo(Queue, k + 1) > oticks[z]
                                    /\ Inserted(Queue, z, oticks[z], k, r)
    BY <1>1, <2>2, <2>3, InsertFact
  <2>9. /\ Proper(r) /\ OnQueue(r.s) = OnQueue(queue) \cup {z}
        /\ \A y \in OnQueue(queue) : Left(r, y) = Left(Queue, y)
        /\ Left(r, z) = oticks[z]
    <3>1. z \notin OnQueue(Queue.s) BY <2>3, <1>1
    <3>2. Proper(Queue) /\ oticks[z] \in Nat /\ z \in Timer BY <1>1, <2>2, <2>3
    <3>3. /\ Proper(r)
          /\ OnQueue(r.s) = OnQueue(Queue.s) \cup {z}
          /\ \A y \in OnQueue(Queue.s) : Left(r, y) = Left(Queue, y)
          /\ Left(r, z) = oticks[z]
      <4> DEFINE tim == oticks[z]
      <4>1. tim \in Nat BY <3>2
      <4> HIDE DEF tim
      <4>2. /\ Proper(qinsert(Queue, z, tim))
            /\ OnQueue(qinsert(Queue, z, tim).s) = OnQueue(Queue.s) \cup {z}
            /\ \A y \in OnQueue(Queue.s) : Left(qinsert(Queue, z, tim), y) = Left(Queue, y)
            /\ Left(qinsert(Queue, z, tim), z) = tim
        BY <3>1, <3>2, <4>1, InsertMove
      <4> QED BY <4>2 DEF tim
    <3> QED BY <3>3, <1>1
  <2> HIDE DEF r
  <2>6. PICK k \in 0..Len(queue) : /\ k < Len(queue) => SumTo(Queue, k + 1) > oticks[z]
                                   /\ Inserted(Queue, z, oticks[z], k, r)
    BY <2>5
  <2>7. Len(queue) >= 2 /\ SumTo(Queue, 2) <= oticks[z]
    BY <2>2, StartedBehindNext
  <2>8. k >= 2
    <3>1. SumTo(Queue, 1) <= SumTo(Queue, 2) /\ SumTo(Queue, 1) \in Nat /\ SumTo(Queue, 2) \in Nat
      <4>1. 2 \in 0..Len(Queue.s) /\ 1 \in 0..2 /\ 1 \in 0..Len(Queue.s) BY <1>1, <1>2, <2>7
      <4> QED BY <4>1, <1>1, SumMonotone, ProperSums
    <3>2. CASE k = 0
      <4>1. SumTo(Queue, 1) > oticks[z] BY <2>6, <2>7, <3>2
      <4> QED BY <4>1, <3>1, <2>3, <2>7
    <3>3. CASE k = 1
      <4>1. SumTo(Queue, 2) > oticks[z] BY <2>6, <2>7, <3>3, <1>2
      <4> QED BY <4>1, <3>1, <2>3, <2>7
    <3> QED BY <3>2, <3>3, <1>2
  <2>10. /\ r.s[1] = queue[1] /\ r.s[2] = queue[2] /\ SumTo(r, 1) = SumTo(Queue, 1)
         /\ Len(r.s) = Len(queue) + 1
    <3>1. 1 \in 1..k /\ 2 \in 1..k /\ 1 \in 0..k BY <2>8, <1>2
    <3> QED BY <3>1, <2>6, <1>1 DEF Inserted
  <2>11. r.s # <<>> /\ Len(queue) # 1 /\ Len(r.s) # 1
    BY <2>7, <2>10, <1>2
  <2> QED BY <1>3, <2>1, <2>2, <2>3, <2>4, <2>5, <2>9, <2>10, <2>11
<1> QED BY <1>4, <1>5

\* Unlinking the due entry, which is the head: nobody's time changes.
LEMMA CutHead ==
    ASSUME NEW q, Proper(q), q.s # <<>>, SumTo(q, 1) = 0
    PROVE  LET r == [q EXCEPT !.s = Cut(q.s, 1, 2)]
           IN  /\ Proper(r) /\ Deleted(q, 1, r)
               /\ OnQueue(r.s) = OnQueue(q.s) \ {q.s[1]}
               /\ \A x \in OnQueue(r.s) : Left(r, x) = Left(q, x)
               /\ r.tk = q.tk
<1> DEFINE r == [q EXCEPT !.s = Cut(q.s, 1, 2)]
<1>1. /\ q \in QType /\ q.s \in Seq(Timer) /\ 1 \in 1..Len(q.s) /\ q.tk[q.s[1]] = 0
      /\ Len(q.s) \in Nat
  BY HeadSum DEF Proper, QType
<1>2. \A k \in 1..Len(q.s) : Cut(q.s, k, k + 1) \in Seq(Timer) BY <1>1, LinkOut
<1>3. r \in QType /\ r.s = Cut(q.s, 1, 1 + 1) /\ r.tk = q.tk BY SMTT(30), <1>1, <1>2 DEF QType
<1> HIDE DEF r
<1>4. 1 < Len(q.s) => r.tk[q.s[1 + 1]] = q.tk[q.s[1 + 1]] + q.tk[q.s[1]]
  <2>1. 1 < Len(q.s) => 1 + 1 \in 1..Len(q.s) BY <1>1
  <2>2. 1 < Len(q.s) => q.tk[q.s[1 + 1]] \in Nat BY <2>1, ProperSums
  <2> QED BY <2>2, <1>1, <1>3
<1>5. \A i \in 1..Len(q.s) : i # 1 /\ i # 1 + 1 => r.tk[q.s[i]] = q.tk[q.s[i]]
  BY <1>3
<1>6. Proper(r) /\ Deleted(q, 1, r) BY <1>1, <1>3, <1>4, <1>5, DeleteFact
<1>7. OnQueue(r.s) = OnQueue(q.s) \ {q.s[1]} /\ \A x \in OnQueue(r.s) : Left(r, x) = Left(q, x)
  BY <1>1, <1>6, DeleteEffect
<1> QED BY <1>3, <1>6, <1>7 DEF r

\* One turn of the loop: the due timer repeats or leaves, those its routine starts are
\* counted from now, and the loop goes on exactly if the next entry is due too.
LEMMA CalloutEffect ==
    ASSUME IInv, NEW ret \in {"REPEAT", "QUIET", "KILL"}, NEW X,
           X \in {{}} \cup {{x} : x \in Nested[ce]}, Callout(ret, X)
    PROVE  /\ ce # None /\ X \subseteq Timer \ OnQueue(queue) /\ \A x \in X : st[x] = "MQUIET"
           /\ UNCHANGED <<usec, oticks, itickusec>>
           /\ st' = [t \in Timer |->
                        IF t = ce THEN CASE ret = "REPEAT" -> "MTICK" [] ret = "QUIET" -> "MQUIET"
                                         [] ret = "KILL" -> "FREE"
                        ELSE IF t \in X THEN "MTICK" ELSE st[t]]
           /\ Proper(Queue')
           /\ OnQueue(queue') = IF ret = "REPEAT" THEN OnQueue(queue) \cup X
                                ELSE (OnQueue(queue) \cup X) \ {ce}
           /\ \A y \in OnQueue(queue') :
                 Left(Queue', y) = IF y = ce \/ y \in X THEN oticks[y] ELSE Left(Queue, y)
           /\ ce' \in Timer \cup {None} /\ AtHead(Queue', ce')
<1> DEFINE p   == PosOf(queue, ce)
           nce == IF p < Len(queue) THEN queue[p + 1] ELSE None
           n   == IF nce = None THEN Len(Called(X).s) + 1 ELSE PosOf(Called(X).s, nce)
           done == AfterCallout(Called(X), ret, PosOf(Called(X).s, ce), n)
<1>1. /\ Proper(Queue) /\ AtHead(Queue, ce) /\ Queue.s = queue /\ None \notin Timer
      /\ OnQueue(queue) = {t \in Timer : st[t] = "MTICK"}
  BY QueueOfInv, TimerAssumption DEF IInv, Queue
<1>2. /\ ce # None /\ \A x \in X : st[x] = "MQUIET"
      /\ UNCHANGED <<usec, oticks, itickusec>>
      /\ st' = [t \in Timer |->
                   IF t = ce THEN CASE ret = "REPEAT" -> "MTICK" [] ret = "QUIET" -> "MQUIET"
                                    [] ret = "KILL" -> "FREE"
                   ELSE IF t \in X THEN "MTICK" ELSE st[t]]
      /\ queue' = done.s /\ ticks' = done.tk
      /\ ce' = IF nce # None /\ done.tk[nce] <= 0 THEN nce ELSE None
  BY DEF Callout, StoreQueue, Called
<1>3. /\ queue \in Seq(Timer) /\ Len(queue) \in Nat /\ Distinct(queue)
      /\ ce \in Timer /\ ce = queue[1] /\ queue # <<>> /\ oticks[ce] \in Nat
  BY <1>1, <1>2 DEF AtHead, IInv, TypeOK, Proper, QType
<1>4. 1 \in 1..Len(queue) /\ p = 1 /\ ce \in OnQueue(queue) /\ oticks[ce] >= 1
  <2>1. 1 \in 1..Len(queue) BY <1>3, EmptySeq
  <2>2. ce \in OnQueue(queue) BY <2>1, <1>3 DEF OnQueue
  <2>3. oticks[ce] > 0 BY <2>2, <1>1 DEF IInv, TypeOK
  <2> QED BY <2>1, <2>2, <2>3, <1>3, PosFact
<1> DEFINE q == Called(X)
<1>5. /\ X \subseteq Timer \ OnQueue(queue)
      /\ Proper(q) /\ OnQueue(q.s) = OnQueue(queue) \cup X
      /\ \A y \in OnQueue(queue) : Left(q, y) = Left(Queue, y)
      /\ \A y \in X : Left(q, y) = oticks[y]
      /\ q.s # <<>> /\ q.s[1] = ce /\ SumTo(q, 1) = 0
      /\ Len(queue) = 1 <=> Len(q.s) = 1
      /\ Len(queue) >= 2 => q.s[2] = queue[2]
  BY <1>2, CalledFact
<1> HIDE DEF q
<1>6. /\ q \in QType /\ q.s \in Seq(Timer) /\ Len(q.s) \in Nat /\ Distinct(q.s)
      /\ 1 \in 1..Len(q.s) /\ PosOf(q.s, ce) = 1
  <2>1. q \in QType /\ q.s \in Seq(Timer) /\ Len(q.s) \in Nat /\ Distinct(q.s)
    BY <1>5 DEF Proper, QType
  <2>2. 1 \in 1..Len(q.s) BY <1>5, HeadSum
  <2> QED BY <2>1, <2>2, <1>5, PosFact
<1>7. /\ nce = IF Len(queue) >= 2 THEN queue[2] ELSE None
      /\ Len(queue) >= 2 => nce \in Timer /\ nce # None /\ nce # ce /\ nce = q.s[2] /\ Len(q.s) >= 2
  <2>1. nce = IF Len(queue) >= 2 THEN queue[2] ELSE None BY <1>3, <1>4
  <2>2. ASSUME Len(queue) >= 2
        PROVE  queue[2] \in Timer /\ queue[2] # None /\ queue[2] # ce /\ Len(q.s) >= 2
    <3>1. 2 \in 1..Len(queue) BY <2>2, <1>3
    <3>2. queue[2] \in Timer /\ queue[2] # queue[1] BY <3>1, <1>3, <1>4 DEF Distinct
    <3>3. Len(q.s) # 1 /\ Len(q.s) \in Nat /\ Len(q.s) >= 1 BY <2>2, <1>3, <1>5, <1>6
    <3>4. Len(q.s) >= 2
      <4>1. \A l \in Nat : l # 1 /\ l >= 1 => l >= 2 OBVIOUS
      <4> QED BY <3>3, <4>1
    <3> QED BY <3>2, <3>4, <1>1, <1>3
  <2> QED BY <2>1, <2>2, <1>5
<1>8. /\ n = IF nce = None THEN Len(q.s) + 1 ELSE PosOf(q.s, nce)
      /\ done = AfterCallout(q, ret, PosOf(q.s, ce), n)
  BY DEF q
<1> HIDE DEF done, n, nce, p
<1>9. n = 2
  <2>1. CASE Len(queue) >= 2
    <3>1. 2 \in 1..Len(q.s) BY <2>1, <1>6, <1>7
    <3>2. PosOf(q.s, nce) = 2 BY <3>1, <2>1, <1>6, <1>7, PosFact
    <3> QED BY <3>2, <2>1, <1>7, <1>8
  <2>2. CASE Len(queue) = 1
    <3>1. nce = None BY <2>2, <1>7
    <3>2. Len(q.s) = 1 BY <2>2, <1>5
    <3>3. n = Len(q.s) + 1 BY <3>1, <1>8
    <3>4. \A l \in Nat : l = 1 => l + 1 = 2 OBVIOUS
    <3> QED BY <3>2, <3>3, <3>4
  <2>3. \A l \in Nat : 1 \in 1..l => l >= 2 \/ l = 1 OBVIOUS
  <2> QED BY <2>1, <2>2, <2>3, <1>3, <1>4
<1> DEFINE c == [q EXCEPT !.s = Cut(q.s, 1, 2)]
<1>10. /\ ret = "REPEAT" /\ 2 <= Len(q.s) => done = qinsert(c, ce, oticks[ce])
       /\ ret = "REPEAT" /\ 2 > Len(q.s) => done = [q EXCEPT !.tk[ce] = oticks[ce]]
       /\ ret # "REPEAT" => done = c
  <2>1. done = AfterCallout(q, ret, 1, 2) BY <1>6, <1>8, <1>9
  <2>2. ASSUME ret = "REPEAT", 2 <= Len(q.s) PROVE done = qinsert(c, ce, oticks[ce])
    BY <2>1, <2>2 DEF AfterCallout
  <2>3. ASSUME ret = "REPEAT", 2 > Len(q.s) PROVE done = [q EXCEPT !.tk[ce] = oticks[ce]]
    BY <2>1, <2>3 DEF AfterCallout
  <2>4. ASSUME ret # "REPEAT" PROVE done = c
    BY <2>1, <2>4 DEF AfterCallout
  <2> QED BY <2>2, <2>3, <2>4
<1>11. /\ Proper(c) /\ Deleted(q, 1, c) /\ OnQueue(c.s) = OnQueue(q.s) \ {ce}
       /\ \A x \in OnQueue(c.s) : Left(c, x) = Left(q, x)
       /\ c.tk = q.tk
  BY <1>5, CutHead
<1> HIDE DEF c
<1>12. ASSUME Len(queue) >= 2
       PROVE  c.s # <<>> /\ c.s[1] = nce /\ SumTo(c, 1) = c.tk[nce] /\ SumTo(c, 1) \in Nat
  <2>1. 1 \in 1..(Len(q.s) - 1) BY <1>6, <1>7, <1>12
  <2>2. c.s[1] = q.s[2] /\ Len(c.s) = Len(q.s) - 1 BY <2>1, <1>11 DEF Deleted
  <2>3. c.s # <<>> BY <2>1, <2>2, <1>6
  <2> QED BY <2>2, <2>3, <1>7, <1>11, <1>12, HeadSum
\* What the queue must be like at the end of the turn.
<1> DEFINE Right ==
       /\ Proper(done)
       /\ OnQueue(done.s) = IF ret = "REPEAT" THEN OnQueue(queue) \cup X
                            ELSE (OnQueue(queue) \cup X) \ {ce}
       /\ \A y \in OnQueue(done.s) :
             Left(done, y) = IF y = ce \/ y \in X THEN oticks[y] ELSE Left(Queue, y)
       /\ AtHead(done, ce')
<1>13. ASSUME ret # "REPEAT" PROVE Right
  <2>1. done = c BY <1>10, <1>13
  <2>2. ce \notin OnQueue(c.s) /\ OnQueue(c.s) = (OnQueue(queue) \cup X) \ {ce}
    BY <1>5, <1>11
  <2>3. ASSUME NEW y \in OnQueue(c.s)
        PROVE  Left(c, y) = IF y = ce \/ y \in X THEN oticks[y] ELSE Left(Queue, y)
    <3>1. y # ce /\ (y \in X \/ y \in OnQueue(queue)) /\ Left(c, y) = Left(q, y)
      BY <2>2, <1>11
    <3> QED BY <3>1, <1>5
  <2>4. AtHead(c, ce')
    <3>1. CASE Len(queue) >= 2
      <4>1. ce' = IF c.tk[nce] <= 0 THEN nce ELSE None BY <3>1, <2>1, <1>2, <1>7
      <4>2. c.s # <<>> /\ c.s[1] = nce /\ SumTo(c, 1) = c.tk[nce] /\ SumTo(c, 1) \in Nat
        BY <3>1, <1>12
      <4> QED BY <4>1, <4>2, <3>1, <1>7 DEF AtHead
    <3>2. CASE ~(Len(queue) >= 2)
      <4>1. nce = None /\ ce' = None BY <3>2, <1>2, <1>7
      <4>2. Len(q.s) = 1
        <5>1. \A l \in Nat : 1 \in 1..l /\ ~(l >= 2) => l = 1 OBVIOUS
        <5> QED BY <5>1, <3>2, <1>3, <1>4, <1>5
      <4>3. Len(c.s) = 0 /\ c.s \in Seq(Timer) BY <4>2, <1>11 DEF Deleted, Proper, QType
      <4> QED BY <4>1, <4>3, EmptySeq DEF AtHead
    <3> QED BY <3>1, <3>2
  <2> QED BY <2>1, <2>2, <2>3, <2>4, <1>11, <1>13
<1>14. ASSUME ret = "REPEAT", Len(queue) >= 2 PROVE Right
  <2>1. done = qinsert(c, ce, oticks[ce]) BY <1>7, <1>10, <1>14
  <2>2. ce \notin OnQueue(c.s) /\ OnQueue(c.s) = (OnQueue(queue) \cup X) \ {ce}
    BY <1>5, <1>11
  <2> DEFINE tim == oticks[ce]
  <2>3. tim \in Nat /\ tim >= 1 BY <1>3, <1>4
  <2>4. done = qinsert(c, ce, tim) BY <2>1
  <2> HIDE DEF tim
  <2>5. /\ Proper(done)
        /\ OnQueue(done.s) = OnQueue(c.s) \cup {ce}
        /\ \A y \in OnQueue(c.s) : Left(done, y) = Left(c, y)
        /\ Left(done, ce) = tim
    <3>1. Proper(c) /\ ce \in Timer /\ ce \notin OnQueue(c.s) /\ tim \in Nat
      BY <1>3, <1>11, <2>2, <2>3
    <3>2. /\ Proper(qinsert(c, ce, tim))
          /\ OnQueue(qinsert(c, ce, tim).s) = OnQueue(c.s) \cup {ce}
          /\ \A y \in OnQueue(c.s) : Left(qinsert(c, ce, tim), y) = Left(c, y)
          /\ Left(qinsert(c, ce, tim), ce) = tim
      BY <3>1, InsertMove
    <3> QED BY <3>2, <2>4
  <2>6. OnQueue(done.s) = OnQueue(queue) \cup X BY <2>2, <2>5, <1>4
  <2>7. ASSUME NEW y \in OnQueue(done.s)
        PROVE  Left(done, y) = IF y = ce \/ y \in X THEN oticks[y] ELSE Left(Queue, y)
    <3>1. CASE y = ce BY <3>1, <2>5 DEF tim
    <3>2. CASE y # ce
      <4>1. y \in OnQueue(c.s) /\ (y \in X \/ y \in OnQueue(queue)) BY <3>2, <2>2, <2>6
      <4>2. Left(done, y) = Left(q, y) BY <4>1, <2>5, <1>11
      <4> QED BY <3>2, <4>1, <4>2, <1>5
    <3> QED BY <3>1, <3>2
  <2>8. PICK k \in 0..Len(c.s) : /\ k < Len(c.s) => SumTo(c, k + 1) > tim
                                 /\ Inserted(c, ce, tim, k, done)
    <3>1. \E k \in 0..Len(c.s) :
             /\ \A i \in 1..k : SumTo(c, i) <= tim
             /\ k < Len(c.s) => SumTo(c, k + 1) > tim
             /\ Inserted(c, ce, tim, k, qinsert(c, ce, tim))
      BY <1>3, <1>11, <2>2, <2>3, InsertFact
    <3> QED BY <3>1, <2>4
  <2>9. /\ c.s # <<>> /\ c.s[1] = nce /\ SumTo(c, 1) = c.tk[nce] /\ SumTo(c, 1) \in Nat
        /\ Len(c.s) \in Nat /\ 1 \in 1..Len(c.s) /\ nce # None /\ nce # ce
    <3>1. c.s # <<>> BY <1>12, <1>14
    <3>2. Len(c.s) \in Nat /\ 1 \in 1..Len(c.s) BY <3>1, <1>11, HeadSum
    <3> QED BY <3>2, <1>7, <1>12, <1>14
  <2>10. ce' = IF done.tk[nce] <= 0 THEN nce ELSE None BY <2>9, <1>2
  <2>11. /\ Len(done.s) \in Nat /\ Len(done.s) = Len(c.s) + 1
         /\ done.s # <<>> /\ SumTo(done, 1) = done.tk[done.s[1]]
    <3>1. Len(done.s) = Len(c.s) + 1 /\ done.s \in Seq(Timer)
      BY <2>5, <2>8 DEF Inserted, Proper, QType
    <3>2. done.s # <<>> BY <3>1, <2>9, EmptySeq
    <3> QED BY <3>1, <3>2, <2>5, HeadSum
  <2>12. ASSUME k = 0 PROVE AtHead(done, ce')
    <3>1. 1 < Len(done.s) /\ 2 \in 1..Len(done.s) /\ 2 \in (k + 2)..(Len(c.s) + 1)
          /\ 0 < Len(c.s) /\ 2 - 1 = 1 /\ 0 + 1 = 1
      BY <2>9, <2>11, <2>12
    <3>2. done.s[2] = c.s[2 - 1] /\ SumTo(done, 2) = SumTo(c, 2 - 1) /\ SumTo(done, 0 + 1) = tim
      BY <3>1, <2>8, <2>12 DEF Inserted
    <3>3. SumTo(done, 2) = SumTo(done, 2 - 1) + done.tk[done.s[2]] /\ done.tk[done.s[2]] \in Nat
      BY <3>1, <2>5, ProperSums
    <3>4. SumTo(c, 1) > tim BY <3>1, <2>8, <2>12
    <3>5. SumTo(c, 1) = tim + done.tk[nce] /\ done.tk[nce] \in Nat BY <3>1, <3>2, <3>3, <2>9
    <3>6. done.tk[nce] > 0 BY <3>4, <3>5, <2>3, <2>9
    <3>7. ce' = None BY <3>5, <3>6, <2>10
    <3>8. SumTo(done, 1) >= 1 BY <3>1, <3>2, <2>3
    <3>9. AtHead(done, None) BY <3>8, <2>11 DEF AtHead
    <3> QED BY <3>7, <3>9
  <2>13. ASSUME k # 0 PROVE AtHead(done, ce')
    <3>1. 1 \in 1..k /\ 1 \in 0..k BY <2>9, <2>13
    <3>2. done.s[1] = c.s[1] /\ SumTo(done, 1) = SumTo(c, 1) BY <3>1, <2>8 DEF Inserted
    <3>3. done.s[1] = nce /\ SumTo(done, 1) = done.tk[nce] /\ SumTo(done, 1) \in Nat
      BY <3>2, <2>9, <2>11
    <3>4. CASE done.tk[nce] <= 0
      <4>1. ce' = nce BY <3>4, <2>10
      <4>2. SumTo(done, 1) = 0 BY <3>3, <3>4
      <4>3. AtHead(done, nce) BY <3>3, <4>2, <2>9, <2>11 DEF AtHead
      <4> QED BY <4>1, <4>3
    <3>5. CASE ~(done.tk[nce] <= 0)
      <4>1. ce' = None BY <3>5, <2>10
      <4>2. SumTo(done, 1) >= 1 BY <3>3, <3>5
      <4>3. AtHead(done, None) BY <4>2, <2>11 DEF AtHead
      <4> QED BY <4>1, <4>3
    <3> QED BY <3>4, <3>5
  <2>14. AtHead(done, ce') BY <2>12, <2>13
  <2> QED BY <2>5, <2>6, <2>7, <2>14, <1>14
<1>15. ASSUME ret = "REPEAT", ~(Len(queue) >= 2) PROVE Right
  <2>1. Len(q.s) = 1
    <3>1. \A l \in Nat : 1 \in 1..l /\ ~(l >= 2) => l = 1 OBVIOUS
    <3> QED BY <3>1, <1>3, <1>4, <1>5, <1>15
  <2>2. done = [q EXCEPT !.tk[ce] = oticks[ce]] BY <2>1, <1>10, <1>15
  <2>3. done \in QType /\ done.s = q.s /\ done.tk[ce] = oticks[ce]
    <3> DEFINE tk == [q.tk EXCEPT ![ce] = oticks[ce]]
    <3>1. q.tk \in [Timer -> Int] /\ oticks[ce] \in Int BY <1>3, <1>6 DEF QType
    <3>2. tk \in [Timer -> Int] /\ tk[ce] = oticks[ce] BY <3>1, <1>3
    <3>3. q = [s |-> q.s, tk |-> q.tk] BY <1>6 DEF QType
    <3>4. done = [s |-> q.s, tk |-> tk] BY <2>2, <3>3
    <3> HIDE DEF tk
    <3> QED BY <3>2, <3>4, <1>6 DEF QType
  <2>4. OnQueue(q.s) = {ce} BY <2>1, <1>5 DEF OnQueue
  <2>5. X = {} /\ OnQueue(queue) = {ce} BY <2>4, <1>4, <1>5
  <2>6. Proper(done)
    <3>1. \A i \in 1..Len(done.s) : done.s[i] = ce BY <2>1, <2>3, <1>5
    <3>2. \A i \in 1..Len(done.s) : done.tk[done.s[i]] >= 0 BY <3>1, <2>3, <1>3
    <3> QED BY <3>2, <2>3, <1>6 DEF Proper
  <2>7. SumTo(done, 1) = oticks[ce] /\ done.s # <<>>
    <3>1. done.s # <<>> BY <2>3, <1>5
    <3> QED BY <3>1, <2>3, <2>6, <1>5, HeadSum
  <2>8. Left(done, ce) = oticks[ce] BY <2>3, <2>7, <1>6 DEF Left
  <2>9. nce = None /\ ce' = None BY <1>2, <1>7, <1>15
  <2>10. AtHead(done, ce') BY <2>7, <2>9, <1>4 DEF AtHead
  <2>11. OnQueue(done.s) = OnQueue(queue) \cup X BY <2>3, <2>4, <2>5
  <2>12. \A y \in OnQueue(done.s) :
            Left(done, y) = IF y = ce \/ y \in X THEN oticks[y] ELSE Left(Queue, y)
    BY <2>3, <2>4, <2>8
  <2> QED BY <2>6, <2>10, <2>11, <2>12, <1>15
<1>16. Right BY <1>13, <1>14, <1>15
<1>17. Queue' = done /\ queue' = done.s
  <2>1. done \in QType BY <1>16 DEF Proper
  <2> QED BY <2>1, <1>2 DEF Queue, QType
<1>18. ce' \in Timer \cup {None} BY <1>2, <1>7
<1> QED BY <1>2, <1>5, <1>16, <1>17, <1>18

\* A turn of the loop preserves the invariant.
LEMMA CalloutKeeps ==
    ASSUME IInv, NEW ret \in {"REPEAT", "QUIET", "KILL"}, NEW X,
           X \in {{}} \cup {{x} : x \in Nested[ce]}, Callout(ret, X)
    PROVE  IInv'
<1>1. /\ ce # None /\ X \subseteq Timer \ OnQueue(queue) /\ \A x \in X : st[x] = "MQUIET"
      /\ UNCHANGED <<usec, oticks, itickusec>>
      /\ st' = [t \in Timer |->
                   IF t = ce THEN CASE ret = "REPEAT" -> "MTICK" [] ret = "QUIET" -> "MQUIET"
                                    [] ret = "KILL" -> "FREE"
                   ELSE IF t \in X THEN "MTICK" ELSE st[t]]
      /\ Proper(Queue')
      /\ OnQueue(queue') = IF ret = "REPEAT" THEN OnQueue(queue) \cup X
                           ELSE (OnQueue(queue) \cup X) \ {ce}
      /\ \A y \in OnQueue(queue') :
            Left(Queue', y) = IF y = ce \/ y \in X THEN oticks[y] ELSE Left(Queue, y)
      /\ ce' \in Timer \cup {None} /\ AtHead(Queue', ce')
  BY CalloutEffect
<1>2. /\ OnQueue(queue) = {t \in Timer : st[t] = "MTICK"} /\ ce \in Timer
      /\ st[ce] = "MTICK"
  <2>1. /\ Proper(Queue) /\ AtHead(Queue, ce) /\ Queue.s = queue /\ None \notin Timer
        /\ OnQueue(queue) = {t \in Timer : st[t] = "MTICK"}
    BY QueueOfInv, TimerAssumption DEF IInv, Queue
  <2>2. ce \in OnQueue(queue) BY <1>1, <2>1, LeftFact
  <2> QED BY <2>1, <2>2
<1>3. /\ st'[ce] = "MTICK" <=> ret = "REPEAT"
      /\ st'[ce] \in {"FREE", "MTICK", "MQUIET"}
  <2>1. CASE ret = "REPEAT" BY <1>1, <1>2, <2>1
  <2>2. CASE ret = "QUIET" BY <1>1, <1>2, <2>2
  <2>3. CASE ret = "KILL" BY <1>1, <1>2, <2>3
  <2> QED BY <2>1, <2>2, <2>3
<1>4. \A t \in Timer \ {ce} : st'[t] = IF t \in X THEN "MTICK" ELSE st[t] BY <1>1
<1> DEFINE new == st'
<1>5. new \in [Timer -> {"FREE", "MTICK", "MQUIET"}]
  <2>1. new = [t \in Timer |-> new[t]] BY <1>1
  <2>2. \A t \in Timer : new[t] \in {"FREE", "MTICK", "MQUIET"}
    BY <1>3, <1>4 DEF IInv, TypeOK
  <2> HIDE DEF new
  <2> QED BY <2>1, <2>2
<1>6. TypeOK'
  <2>1. queue' \in Seq(Timer) /\ ticks' \in [Timer -> Int] BY <1>1 DEF Proper, QType, Queue
  <2>2. \A t \in Timer : st'[t] # "FREE" => st[t] # "FREE" BY <1>1, <1>2, <1>4
  <2> QED BY <1>1, <1>5, <2>1, <2>2 DEF TypeOK, IInv
<1>7. OnQueue(queue') = {t \in Timer : st'[t] = "MTICK"}
  BY <1>1, <1>2, <1>3, <1>4
<1>8. Linked' /\ HeadDue'
  <2>1. Queue'.s = queue' /\ Queue'.tk = ticks' BY DEF Queue
  <2>2. /\ \A i, j \in 1..Len(queue') : queue'[i] = queue'[j] => i = j
        /\ \A i \in 1..Len(queue') : ticks'[queue'[i]] >= 0
        /\ ce' # None => queue' # <<>> /\ ce' = Head(queue') /\ ticks'[ce'] = 0
        /\ ce' = None /\ queue' # <<>> => ticks'[Head(queue')] >= 1
    BY <1>1, <2>1, HeadOfQueue
  <2> QED BY <1>7, <2>2 DEF Linked, HeadDue
<1>9. Current'
  <2>1. \A t \in Timer : st'[t] # "FREE" => st[t] # "FREE" BY <1>1, <1>2, <1>4
  <2> QED BY <1>1, <2>1 DEF Current, IInv
<1>10. KeepAliveSoon'
  <2>1. \A f \in Forever : f \in Timer /\ st[f] = "MTICK"
    BY TimerAssumption DEF IInv, KeepAliveSoon
  <2>2. ASSUME NEW f \in Forever PROVE st'[f] = "MTICK"
    <3>1. CASE f = ce BY <1>3, <3>1 DEF Callout
    <3>2. CASE f # ce BY <1>4, <2>1, <3>2
    <3> QED BY <3>1, <3>2
  <2>3. ASSUME NEW t \in Timer, NEW x \in Nested[t], NEW b \in Intervals[x], NEW f \in Forever
        PROVE  Left(Queue', f) <= usec2tick(b, itickusec')
    <3>1. f \in OnQueue(queue') /\ f \notin X BY <1>1, <1>2, <1>7, <2>1, <2>2
    <3>2. CASE f = ce
      <4>1. Left(Queue', f) = oticks[f] BY <1>1, <3>1, <3>2
      <4>2. usec[f] \in Intervals[f] /\ oticks[f] = usec2tick(usec[f], itickusec)
        BY <2>1 DEF IInv, Current
      <4>3. usec[f] <= b BY <4>2, NestedAssumption
      <4>4. /\ usec[f] \in Nat /\ b \in Nat /\ itickusec \in Nat \ {0}
        BY <2>1, <4>2, TimerAssumption, IntervalAssumption DEF IInv, TypeOK
      <4> QED BY <1>1, <4>1, <4>2, <4>3, <4>4, Usec2tickFact
    <3>3. CASE f # ce
      <4>1. Left(Queue', f) = Left(Queue, f) BY <1>1, <3>1, <3>3
      <4> QED BY <1>1, <4>1 DEF IInv, KeepAliveSoon
    <3> QED BY <3>2, <3>3
  <2> QED BY <2>2, <2>3 DEF KeepAliveSoon
<1> QED BY <1>6, <1>8, <1>9, <1>10 DEF IInv

-----------------------------------------------------------------------------
(* The invariants                                                          *)

\* The invariant holds at the start, when at most the keep-alive runs.
LEMMA InitInv == Init => IInv
<1> SUFFICES ASSUME Init PROVE IInv OBVIOUS
<1>1. /\ itickusec \in TickLens /\ itickusec \in Nat \ {0}
      /\ usec \in [Timer -> Nat] /\ Forever \subseteq Timer
      /\ \A t \in Forever : usec[t] \in Intervals[t]
      /\ st = [t \in Timer |-> IF t \in Forever THEN "MTICK" ELSE "FREE"]
      /\ oticks = [t \in Timer |-> IF t \in Forever THEN usec2tick(usec[t], itickusec) ELSE 0]
      /\ ticks = oticks
      /\ queue \in {<<>>} \cup {<<t>> : t \in Forever}
      /\ OnQueue(queue) = Forever
      /\ ce = None
  BY TimerAssumption, IntervalAssumption DEF Init
<1>2. \A t \in Timer : usec2tick(usec[t], itickusec) \in Nat /\ usec2tick(usec[t], itickusec) >= 1
  BY <1>1, Usec2tickFact
<1>3. /\ oticks \in [Timer -> Nat]
      /\ \A t \in Forever : oticks[t] >= 1 /\ oticks[t] = usec2tick(usec[t], itickusec)
      /\ ticks = oticks /\ ce = None
      /\ st = [t \in Timer |-> IF t \in Forever THEN "MTICK" ELSE "FREE"]
      /\ itickusec \in TickLens /\ usec \in [Timer -> Nat] /\ Forever \subseteq Timer
  BY <1>1, <1>2
<1>4. queue \in Seq(Timer)
  <2>1. CASE queue = <<>> BY <2>1
  <2>2. CASE queue # <<>>
    <3>1. PICK t \in Forever : queue = <<t>> BY <1>1, <2>2
    <3> QED BY <3>1, <1>1
  <2> QED BY <2>1, <2>2
<1>5. TypeOK
  <2>1. ticks \in [Timer -> Int] BY <1>3
  <2>2. \A t \in Timer : st[t] # "FREE" => oticks[t] > 0 BY <1>3
  <2>3. st \in [Timer -> {"FREE", "MTICK", "MQUIET"}] BY <1>3
  <2> QED BY <1>3, <1>4, <2>1, <2>2, <2>3 DEF TypeOK
<1>6. /\ \A i \in 1..Len(queue) : i = 1 /\ queue[i] \in Forever
      /\ queue # <<>> => Head(queue) \in Forever
  <2>1. CASE queue = <<>> BY <2>1
  <2>2. CASE queue # <<>>
    <3>1. PICK t \in Forever : queue = <<t>> BY <1>1, <2>2
    <3> QED BY <3>1
  <2> QED BY <2>1, <2>2
<1>7. Linked
  <2>1. OnQueue(queue) = Forever BY <1>1
  <2> QED BY <2>1, <1>3, <1>6 DEF Linked
<1>8. HeadDue BY <1>3, <1>6 DEF HeadDue
<1>9. Current BY <1>1, <1>3 DEF Current
<1>10. KeepAliveSoon
  <2>1. ASSUME NEW f \in Forever PROVE st[f] = "MTICK" /\ Left(Queue, f) = oticks[f]
    <3>1. PICK i \in 1..Len(queue) : queue[i] = f BY <1>1 DEF OnQueue
    <3>2. i = 1 /\ queue # <<>> /\ Queue.s = queue /\ Queue.tk = ticks
      BY <3>1, <1>4, <1>6, EmptySeq DEF Queue
    <3>3. Proper(Queue) BY <1>5, <1>7, <1>8, QueueOfInv
    <3>4. SumTo(Queue, 1) = ticks[f] BY <3>1, <3>2, <3>3, HeadSum
    <3>5. Distinct(queue) BY <3>2, <3>3 DEF Proper
    <3>6. PosOf(queue, f) = 1 BY <3>1, <3>2, <3>5, <1>4, PosFact
    <3> QED BY <3>2, <3>4, <3>6, <1>1 DEF Left
  <2>2. ASSUME NEW t \in Timer, NEW x \in Nested[t], NEW b \in Intervals[x], NEW f \in Forever
        PROVE  Left(Queue, f) <= usec2tick(b, itickusec)
    <3>1. usec[f] <= b /\ usec[f] \in Nat /\ b \in Nat
      <4>1. x \in Timer BY TimerAssumption
      <4> QED BY <4>1, <1>1, NestedAssumption, IntervalAssumption
    <3>2. itickusec \in Nat \ {0} BY <1>1
    <3> QED BY <2>1, <3>1, <3>2, <1>3, Usec2tickFact
  <2> QED BY <2>1, <2>2 DEF KeepAliveSoon
<1> QED BY <1>5, <1>7, <1>8, <1>9, <1>10 DEF IInv

\* Every step preserves the invariant.
LEMMA NextInv == IInv /\ [Next]_vars => IInv'
<1> SUFFICES ASSUME IInv, [Next]_vars PROVE IInv' OBVIOUS
<1>1. ASSUME NEW t \in Timer, NEW u \in Intervals[t], TmrGet(t, u) PROVE IInv'
  <2>1. Request(t) /\ TypeOK' /\ st[t] = "FREE"
        /\ st'[t] = "MTICK" /\ usec'[t] = u /\ oticks'[t] = usec2tick(u, itickusec)
    BY <1>1, TmrGetEffect
  <2> QED BY <2>1, RequestKeeps
<1>2. ASSUME NEW t \in Timer, NEW u \in Intervals[t], TmrSet(t, u) PROVE IInv'
  <2>1. Request(t) /\ TypeOK' /\ usec'[t] = u /\ oticks'[t] = usec2tick(u, itickusec)
    BY <1>2, TmrSetEffect
  <2>2. t \notin Forever BY <1>2 DEF TmrSet
  <2> QED BY <2>1, <2>2, RequestKeeps
<1>3. ASSUME NEW t \in Timer, TmrQuiet(t) PROVE IInv'
  <2>1. Request(t) /\ TypeOK' /\ usec'[t] = usec[t] /\ oticks'[t] = oticks[t] /\ st[t] = "MTICK"
    BY <1>3, TmrQuietEffect
  <2>2. t \notin Forever BY <1>3 DEF TmrQuiet
  <2>3. usec'[t] \in Intervals[t] /\ oticks'[t] = usec2tick(usec'[t], itickusec)
    BY <2>1 DEF IInv, Current
  <2> QED BY <2>1, <2>2, <2>3, RequestKeeps
<1>4. ASSUME NEW t \in Timer, TmrActiv(t) PROVE IInv'
  <2>1. Request(t) /\ TypeOK' /\ st[t] = "MQUIET" /\ usec'[t] = usec[t] /\ oticks'[t] = oticks[t]
    BY <1>4, TmrActivEffect
  <2>2. usec'[t] \in Intervals[t] /\ oticks'[t] = usec2tick(usec'[t], itickusec)
    BY <2>1 DEF IInv, Current
  <2> QED BY <2>1, <2>2, RequestKeeps
<1>5. ASSUME NEW t \in Timer, TmrKill(t) PROVE IInv'
  <2>1. Request(t) /\ TypeOK' /\ st'[t] = "FREE" BY <1>5, TmrKillEffect
  <2>2. t \notin Forever BY <1>5 DEF TmrKill
  <2> QED BY <2>1, <2>2, RequestKeeps
<1>6. ASSUME NEW t \in Timer, CalloutOf(t) PROVE IInv'
  <2>1. PICK ret \in {"REPEAT", "QUIET", "KILL"}, X \in {{}} \cup {{x} : x \in Nested[ce]} :
            Callout(ret, X)
    BY <1>6 DEF CalloutOf
  <2> QED BY <2>1, CalloutKeeps
<1>7. ASSUME NEW len \in TickLens, ItusSet(len) PROVE IInv'
  BY <1>7, ItusSetKeeps
<1>8. CASE Synctimeout BY <1>8, SynctimeoutKeeps
<1>9. CASE UNCHANGED vars
  BY <1>9 DEF vars, IInv, TypeOK, Linked, HeadDue, Current, KeepAliveSoon, Queue
<1> QED BY <1>1, <1>2, <1>3, <1>4, <1>5, <1>6, <1>7, <1>8, <1>9 DEF Next

\* The inductive invariant holds throughout.
LEMMA Invariant == Spec => []IInv
BY InitInv, NextInv, PTL DEF Spec

\* Counts stay in range, and a timer in use has an interval of at least one tick
\* whatever the length of a tick (clk_usec2tick).
THEOREM TypeCorrect == Spec => []TypeOK
<1>1. IInv => TypeOK BY DEF IInv
<1> QED BY <1>1, Invariant, PTL

\* A timer is on the queue exactly when it is active, and there once, although
\* clk_synctimeout links around the due entry with a pointer it fetched before the callout.
THEOREM LinkedAlways == Spec => []Linked
<1>1. IInv => Linked BY DEF IInv
<1> QED BY <1>1, Invariant, PTL

\* Only the head can be due: it is due during the loop of clk_synctimeout, which is at
\* it, and at least a tick away outside.
THEOREM HeadDueAlways == Spec => []HeadDue
<1>1. IInv => HeadDue BY DEF IInv
<1> QED BY <1>1, Invariant, PTL

-----------------------------------------------------------------------------
(* The promises of TimerService                                            *)

\* What a client sees, in terms of the times at which entries go off.
LEMMA SeenFact ==
    /\ Remaining = [t \in Timer |-> IF t \in OnQueue(queue) THEN Left(Queue, t) ELSE 0]
    /\ Remaining' = [t \in Timer |-> IF t \in OnQueue(queue') THEN Left(Queue', t) ELSE 0]
BY DEF Remaining, Left, Queue

Named(m) == CASE m = "FREE" -> "free" [] m = "MTICK" -> "running" [] m = "MQUIET" -> "quiet"

\* The client's name for each cke_state.
LEMMA NamedFact ==
    /\ Named("FREE") = "free" /\ Named("MTICK") = "running" /\ Named("MQUIET") = "quiet"
    /\ ModeOf = [t \in Timer |-> Named(st[t])]
    /\ ModeOf' = [t \in Timer |-> Named(st'[t])]
BY DEF ModeOf, Named

\* A client tells the three states apart.
LEMMA ModeFact ==
    ASSUME TypeOK
    PROVE  /\ \A t \in Timer : /\ ModeOf[t] = "free" <=> st[t] = "FREE"
                               /\ ModeOf[t] = "running" <=> st[t] = "MTICK"
                               /\ ModeOf[t] = "quiet" <=> st[t] = "MQUIET"
           /\ ModeOf \in [Timer -> {"free", "running", "quiet"}]
<1>1. \A t \in Timer : st[t] \in {"FREE", "MTICK", "MQUIET"} BY DEF TypeOK
<1>2. ModeOf = [t \in Timer |-> Named(st[t])] BY NamedFact
<1>3. \A t \in Timer : /\ st[t] = "FREE" => Named(st[t]) = "free"
                       /\ st[t] = "MTICK" => Named(st[t]) = "running"
                       /\ st[t] = "MQUIET" => Named(st[t]) = "quiet"
  BY NamedFact
<1> QED BY <1>1, <1>2, <1>3

\* At the start every running timer has its whole interval left.
LEMMA InitRefines == Init => Service!Init
<1> SUFFICES ASSUME Init PROVE Service!Init OBVIOUS
<1>1. /\ IInv /\ Proper(Queue) /\ Queue.s = queue /\ Queue.tk = ticks
      /\ queue \in Seq(Timer) /\ Distinct(queue)
  <2>1. IInv BY InitInv
  <2>2. Proper(Queue) BY <2>1, QueueOfInv DEF IInv
  <2> QED BY <2>1, <2>2 DEF Proper, QType, Queue
<1>2. /\ st = [t \in Timer |-> IF t \in Forever THEN "MTICK" ELSE "FREE"]
      /\ ticks = oticks /\ ce = None /\ OnQueue(queue) = Forever /\ Forever \subseteq Timer
  BY TimerAssumption DEF Init
<1>3. queue \in {<<>>} \cup {<<t>> : t \in Forever} BY DEF Init
<1>4. \A t \in Timer : /\ ModeOf[t] = IF t \in Forever THEN "running" ELSE "free"
                       /\ PeriodOf[t] = IF t \in Forever THEN oticks[t] ELSE 0
  BY <1>2, NamedFact DEF PeriodOf
<1>5. ASSUME NEW f \in Forever PROVE Left(Queue, f) = oticks[f] /\ oticks[f] \in Nat \ {0}
  <2>1. queue = <<f>>
    <3>1. PICK i \in 1..Len(queue) : queue[i] = f BY <1>2 DEF OnQueue
    <3>2. queue # <<>> BY <3>1, <1>1, EmptySeq
    <3>3. PICK t \in Forever : queue = <<t>> BY <1>3, <3>2
    <3> QED BY <3>1, <3>3
  <2>2. 1 \in 1..Len(queue) /\ queue[1] = f /\ queue # <<>> BY <2>1
  <2>3. SumTo(Queue, 1) = ticks[f] BY <2>2, <1>1, HeadSum
  <2>4. PosOf(queue, f) = 1 BY <2>2, <1>1, PosFact
  <2>5. st[f] # "FREE" /\ f \in Timer BY <1>2
  <2>6. oticks[f] \in Nat \ {0} BY <2>5, <1>1 DEF IInv, TypeOK
  <2> QED BY <2>3, <2>4, <2>6, <1>1, <1>2 DEF Left
<1>6. ModeOf \in [Timer -> {"free", "running"}]
  <2>1. ModeOf = [t \in Timer |-> ModeOf[t]] BY NamedFact
  <2>2. \A t \in Timer : ModeOf[t] \in {"free", "running"} BY <1>4
  <2> QED BY <2>1, <2>2
<1>7. PeriodOf \in [Timer -> Nat] /\ \A t \in Timer : PeriodOf[t] = 0 <=> ModeOf[t] = "free"
  <2>1. PeriodOf = [t \in Timer |-> PeriodOf[t]] BY DEF PeriodOf
  <2>2. ASSUME NEW t \in Timer PROVE PeriodOf[t] \in Nat /\ (PeriodOf[t] = 0 <=> ModeOf[t] = "free")
    <3>1. CASE t \in Forever
      <4>1. PeriodOf[t] = oticks[t] /\ ModeOf[t] = "running" BY <3>1, <1>4
      <4> QED BY <3>1, <4>1, <1>5
    <3>2. CASE t \notin Forever BY <3>2, <1>4
    <3> QED BY <3>1, <3>2
  <2> QED BY <2>1, <2>2
<1>8. Remaining = PeriodOf
  <2>1. Remaining = [t \in Timer |-> IF t \in Forever THEN Left(Queue, t) ELSE 0]
    BY <1>2, SeenFact
  <2>2. PeriodOf = [t \in Timer |-> PeriodOf[t]] BY DEF PeriodOf
  <2>3. \A t \in Timer : (IF t \in Forever THEN Left(Queue, t) ELSE 0) = PeriodOf[t]
    BY <1>4, <1>5
  <2> QED BY <2>1, <2>2, <2>3
<1>9. (ce # None) = FALSE BY <1>2
<1> QED BY <1>6, <1>7, <1>8, <1>9 DEF Service!Init

\* A request changes what its client sees of its own timer and nothing else.
LEMMA RequestRefines ==
    ASSUME IInv, NEW t \in Timer, Request(t), TypeOK'
    PROVE  /\ Service!Request(t, ModeOf'[t], PeriodOf'[t])
           /\ PeriodOf'[t] = IF st'[t] = "FREE" THEN 0 ELSE oticks'[t]
           /\ PeriodOf[t] = IF st[t] = "FREE" THEN 0 ELSE oticks[t]
           /\ st[t] \in {"FREE", "MTICK", "MQUIET"} /\ st'[t] \in {"FREE", "MTICK", "MQUIET"}
           /\ st'[t] # "FREE" => oticks'[t] > 0
           /\ ModeOf[t] = Named(st[t]) /\ ModeOf'[t] = Named(st'[t])
<1>1. /\ ce = None /\ ce' = None
      /\ OnQueue(queue') = {x \in Timer : st'[x] = "MTICK"}
      /\ \A x \in Timer \ {t} : st'[x] = st[x] /\ oticks'[x] = oticks[x]
      /\ \A x \in OnQueue(queue) \ {t} : Left(Queue', x) = Left(Queue, x)
      /\ t \in OnQueue(queue') => Left(Queue', t) = oticks'[t]
      /\ OnQueue(queue) = {x \in Timer : st[x] = "MTICK"}
  BY QueueOfInv DEF Request, IInv
<1>2. /\ st[t] \in {"FREE", "MTICK", "MQUIET"} /\ st'[t] \in {"FREE", "MTICK", "MQUIET"}
      /\ st'[t] # "FREE" => oticks'[t] > 0
  BY DEF IInv, TypeOK
<1>3. /\ PeriodOf'[t] = IF st'[t] = "FREE" THEN 0 ELSE oticks'[t]
      /\ PeriodOf[t] = IF st[t] = "FREE" THEN 0 ELSE oticks[t]
  BY DEF PeriodOf
<1>4. ModeOf[t] = Named(st[t]) /\ ModeOf'[t] = Named(st'[t]) BY NamedFact
<1>5. ModeOf' = [ModeOf EXCEPT ![t] = ModeOf'[t]]
  BY <1>1, NamedFact
<1>6. PeriodOf' = [PeriodOf EXCEPT ![t] = PeriodOf'[t]]
  BY <1>1 DEF PeriodOf
<1>7. ModeOf'[t] = "running" <=> st'[t] = "MTICK" BY <1>2, <1>4, NamedFact
<1>8. Remaining' = [Remaining EXCEPT ![t] = IF ModeOf'[t] = "running" THEN PeriodOf'[t] ELSE 0]
  <2> DEFINE v == IF ModeOf'[t] = "running" THEN PeriodOf'[t] ELSE 0
             old == [x \in Timer |-> IF x \in OnQueue(queue) THEN Left(Queue, x) ELSE 0]
             new == [x \in Timer |-> IF x \in OnQueue(queue') THEN Left(Queue', x) ELSE 0]
  <2>1. new[t] = v BY <1>1, <1>3, <1>7
  <2>2. \A x \in Timer \ {t} : new[x] = old[x] BY <1>1
  <2>3. old = [x \in Timer |-> old[x]] /\ new = [x \in Timer |-> new[x]] OBVIOUS
  <2> HIDE DEF old, new, v
  <2>4. new = [old EXCEPT ![t] = v] BY <2>1, <2>2, <2>3
  <2>5. Remaining = old /\ Remaining' = new BY SeenFact DEF old, new
  <2> QED BY <2>4, <2>5 DEF v
<1>9. (ce' # None) = (ce # None) /\ ~(ce # None) BY <1>1
<1>10. Service!Request(t, ModeOf'[t], PeriodOf'[t])
  BY <1>5, <1>6, <1>8, <1>9 DEF Service!Request
<1> QED BY <1>2, <1>3, <1>4, <1>10

\* Counting down the head is a tick of every running timer.
LEMMA TickRefines ==
    ASSUME IInv, Synctimeout
    PROVE  Service!Tick
<1>1. /\ ce = None /\ UNCHANGED <<st, oticks, queue>>
      /\ Proper(Queue') /\ AtHead(Queue', ce')
      /\ \A x \in OnQueue(queue) : Left(Queue', x) = Left(Queue, x) - 1
  BY SynctimeoutEffect
<1>2. /\ OnQueue(queue) = {t \in Timer : st[t] = "MTICK"} /\ None \notin Timer
      /\ Queue'.s = queue'
  BY QueueOfInv, TimerAssumption DEF IInv, Queue
<1>3. \A t \in Timer : ModeOf[t] = "running" <=> t \in OnQueue(queue)
  BY <1>2, ModeFact DEF IInv
<1>4. Service!Running = OnQueue(queue) BY <1>2, <1>3 DEF Service!Running
<1>5. Remaining' = [t \in Timer |-> IF t \in Service!Running THEN Remaining[t] - 1 ELSE 0]
  <2> DEFINE new == [t \in Timer |-> IF t \in OnQueue(queue') THEN Left(Queue', t) ELSE 0]
             res == [t \in Timer |-> IF t \in Service!Running THEN Remaining[t] - 1 ELSE 0]
  <2>1. Remaining' = new BY SeenFact
  <2>2. ASSUME NEW t \in Timer PROVE new[t] = res[t]
    <3>1. CASE t \in OnQueue(queue)
      <4>1. Remaining[t] = Left(Queue, t) BY <3>1, SeenFact
      <4> QED BY <3>1, <4>1, <1>1, <1>4
    <3>2. CASE t \notin OnQueue(queue) BY <3>2, <1>1, <1>4
    <3> QED BY <3>1, <3>2
  <2>3. new = [t \in Timer |-> new[t]] /\ res = [t \in Timer |-> res[t]] OBVIOUS
  <2> HIDE DEF new, res
  <2>4. new = res BY <2>2, <2>3
  <2> QED BY <2>1, <2>4 DEF res
<1>6. (ce' # None) = (\E t \in Service!Running : Remaining'[t] = 0)
  <2>1. ce' # None <=> \E x \in OnQueue(queue') : Left(Queue', x) = 0 BY <1>1, <1>2, LeftFact
  <2>2. \A x \in OnQueue(queue') : Remaining'[x] = Left(Queue', x) BY <1>1, <1>2, SeenFact
  <2> QED BY <2>1, <2>2, <1>1, <1>4
<1>7. ModeOf' = ModeOf /\ PeriodOf' = PeriodOf BY <1>1 DEF ModeOf, PeriodOf
<1>8. ~(ce # None) BY <1>1
<1> QED BY <1>5, <1>6, <1>7, <1>8 DEF Service!Tick

\* clk_itusset restarts every running timer and keeps their order: each goes off with
\* the longest of the intervals up to its place.
LEMMA RescaleRefines ==
    ASSUME IInv, NEW len \in TickLens, ItusSet(len)
    PROVE  Service!Rescale
<1> DEFINE L == Len(queue)
<1>1. /\ ce = None /\ ce' = None /\ UNCHANGED <<st, queue>>
      /\ TypeOK' /\ Proper(Queue')
      /\ \A i \in 1..L : SumTo(Queue', i) = Latest(oticks', i)
  BY ItusSetEffect
<1>2. /\ OnQueue(queue) = {t \in Timer : st[t] = "MTICK"} /\ Proper(Queue) /\ Queue.s = queue
      /\ queue \in Seq(Timer) /\ L \in Nat /\ Distinct(queue) /\ oticks' \in [Timer -> Nat]
  <2>1. Proper(Queue) /\ OnQueue(queue) = {t \in Timer : st[t] = "MTICK"}
    BY QueueOfInv DEF IInv
  <2> QED BY <2>1, <1>1 DEF Proper, Queue, QType, TypeOK
<1>3. \A t \in Timer : ModeOf[t] = "running" <=> t \in OnQueue(queue)
  BY <1>2, ModeFact DEF IInv
<1>4. Service!Running = OnQueue(queue) BY <1>2, <1>3 DEF Service!Running
<1>5. \A i \in 1..L : SumTo(Queue, i) \in Nat
  BY <1>2, ProperSums
<1>6. ASSUME NEW t \in OnQueue(queue)
      PROVE  /\ PosOf(queue, t) \in 1..L /\ queue[PosOf(queue, t)] = t /\ t \in Timer
             /\ Remaining[t] = SumTo(Queue, PosOf(queue, t))
             /\ Remaining'[t] = Latest(oticks', PosOf(queue, t))
             /\ PeriodOf'[t] = oticks'[t]
  <2>1. PosOf(queue, t) \in 1..L /\ queue[PosOf(queue, t)] = t /\ t \in Timer
    BY <1>2, PosFact
  <2>2. Remaining[t] = SumTo(Queue, PosOf(queue, t)) BY <2>1, <1>2, SeenFact DEF Left
  <2>3. Remaining'[t] = SumTo(Queue', PosOf(queue, t)) BY <2>1, <1>1 DEF Remaining, Queue
  <2>4. st'[t] # "FREE" BY <1>1, <1>2
  <2>5. PeriodOf'[t] = oticks'[t] BY <2>1, <2>4 DEF PeriodOf
  <2> QED BY <2>1, <2>2, <2>3, <2>5, <1>1
<1>7. \A n \in 1..L : /\ \E i \in 1..n : Latest(oticks', n) = oticks'[queue[i]]
                      /\ \A i \in 1..n : oticks'[queue[i]] <= Latest(oticks', n)
                      /\ Latest(oticks', n) \in Nat
  BY <1>2, LatestFact
<1>8. \A i \in 1..L : queue[i] \in OnQueue(queue) /\ PosOf(queue, queue[i]) = i
  BY <1>2, PosFact DEF OnQueue
<1>9. \A t \in Timer \ OnQueue(queue) : Remaining'[t] = 0 BY <1>1 DEF Remaining
<1>10. PeriodOf' \in [Timer -> Nat]
  <2>1. PeriodOf' = [t \in Timer |-> IF st'[t] = "FREE" THEN 0 ELSE oticks'[t]] BY DEF PeriodOf
  <2> QED BY <2>1, <1>2
<1>11. Remaining' \in [Timer -> Nat]
  <2>1. Remaining' = [t \in Timer |-> Remaining'[t]] BY DEF Remaining
  <2>2. \A t \in Timer : Remaining'[t] \in Nat BY <1>6, <1>7, <1>9
  <2> QED BY <2>1, <2>2
<1>12. \A t \in Timer : IF t \in Service!Running THEN Remaining'[t] >= PeriodOf'[t]
                        ELSE Remaining'[t] = 0
  <2> TAKE t \in Timer
  <2>1. CASE t \in OnQueue(queue)
    <3>1. PosOf(queue, t) \in 1..PosOf(queue, t) BY <2>1, <1>6
    <3>2. oticks'[t] <= Latest(oticks', PosOf(queue, t)) BY <2>1, <3>1, <1>6, <1>7
    <3>3. oticks'[t] \in Nat /\ Latest(oticks', PosOf(queue, t)) \in Nat BY <2>1, <1>2, <1>6, <1>7
    <3> QED BY <2>1, <3>2, <3>3, <1>4, <1>6
  <2>2. CASE t \notin OnQueue(queue) BY <2>2, <1>4, <1>9
  <2> QED BY <2>1, <2>2
<1>13. \A t, u \in Service!Running : Remaining[t] < Remaining[u] => Remaining'[t] <= Remaining'[u]
  <2> SUFFICES ASSUME NEW t \in OnQueue(queue), NEW u \in OnQueue(queue), Remaining[t] < Remaining[u]
               PROVE  Remaining'[t] <= Remaining'[u]
    BY <1>4
  <2> DEFINE i == PosOf(queue, t)
             j == PosOf(queue, u)
  <2>1. /\ i \in 1..L /\ j \in 1..L /\ SumTo(Queue, i) < SumTo(Queue, j)
        /\ Remaining'[t] = Latest(oticks', i) /\ Remaining'[u] = Latest(oticks', j)
    BY <1>6
  <2> HIDE DEF i, j
  <2>2. i <= j
    <3> SUFFICES ASSUME j < i PROVE FALSE BY <2>1, <1>2
    <3>1. i \in 0..Len(Queue.s) /\ j \in 0..i BY <2>1, <1>2
    <3>2. SumTo(Queue, j) <= SumTo(Queue, i) BY <3>1, <1>2, SumMonotone
    <3> QED BY <3>2, <2>1, <1>5
  <2>3. PICK m \in 1..i : Latest(oticks', i) = oticks'[queue[m]] BY <2>1, <1>7
  <2>4. m \in 1..j BY <2>1, <2>2, <1>2
  <2> QED BY <2>1, <2>3, <2>4, <1>7
<1>14. ASSUME NEW t \in Service!Running
       PROVE  \E u \in Service!Running : Remaining[u] <= Remaining[t] /\ Remaining'[t] = PeriodOf'[u]
  <2> DEFINE i == PosOf(queue, t)
  <2>1. /\ i \in 1..L /\ Remaining[t] = SumTo(Queue, i) /\ Remaining'[t] = Latest(oticks', i)
    BY <1>4, <1>6
  <2> HIDE DEF i
  <2>2. PICK m \in 1..i : Latest(oticks', i) = oticks'[queue[m]] BY <2>1, <1>7
  <2>3. m \in 1..L BY <2>1, <1>2
  <2>4. /\ queue[m] \in OnQueue(queue) /\ Remaining[queue[m]] = SumTo(Queue, m)
        /\ PeriodOf'[queue[m]] = oticks'[queue[m]]
    BY <2>3, <1>6, <1>8
  <2>5. SumTo(Queue, m) <= SumTo(Queue, i)
    <3>1. i \in 0..Len(Queue.s) /\ m \in 0..i BY <2>1, <1>2
    <3> QED BY <3>1, <1>2, SumMonotone
  <2> QED BY <2>1, <2>2, <2>4, <2>5, <1>4
<1>15. ModeOf' = ModeOf BY <1>1 DEF ModeOf
<1>16. ~(ce # None) /\ (ce' # None) = (ce # None) BY <1>1
<1> QED BY <1>10, <1>11, <1>12, <1>13, <1>14, <1>15, <1>16 DEF Service!Rescale

\* A turn of the loop fires the due timer, and nobody's time but its own and those its
\* callout starts is different afterwards; the loop ends exactly when no timer is due.
LEMMA FireRefines ==
    ASSUME IInv, NEW ret \in {"REPEAT", "QUIET", "KILL"}, NEW X,
           X \in {{}} \cup {{x} : x \in Nested[ce]}, Callout(ret, X)
    PROVE  Service!Fire(ce) /\ ce \in Timer
<1>1. /\ ce # None /\ X \subseteq Timer \ OnQueue(queue) /\ \A x \in X : st[x] = "MQUIET"
      /\ UNCHANGED <<usec, oticks, itickusec>>
      /\ st' = [t \in Timer |->
                   IF t = ce THEN CASE ret = "REPEAT" -> "MTICK" [] ret = "QUIET" -> "MQUIET"
                                    [] ret = "KILL" -> "FREE"
                   ELSE IF t \in X THEN "MTICK" ELSE st[t]]
      /\ Proper(Queue')
      /\ OnQueue(queue') = IF ret = "REPEAT" THEN OnQueue(queue) \cup X
                           ELSE (OnQueue(queue) \cup X) \ {ce}
      /\ \A y \in OnQueue(queue') :
            Left(Queue', y) = IF y = ce \/ y \in X THEN oticks[y] ELSE Left(Queue, y)
      /\ ce' \in Timer \cup {None} /\ AtHead(Queue', ce')
  BY CalloutEffect
<1>2. /\ OnQueue(queue) = {t \in Timer : st[t] = "MTICK"} /\ ce \in Timer
      /\ ce \in OnQueue(queue) /\ Left(Queue, ce) = 0 /\ None \notin Timer /\ Queue'.s = queue'
  <2>1. /\ Proper(Queue) /\ AtHead(Queue, ce) /\ Queue.s = queue /\ None \notin Timer
        /\ OnQueue(queue) = {t \in Timer : st[t] = "MTICK"} /\ Queue'.s = queue'
    BY QueueOfInv, TimerAssumption DEF IInv, Queue
  <2>2. ce \in OnQueue(queue) /\ Left(Queue, ce) = 0 BY <1>1, <2>1, LeftFact
  <2> QED BY <2>1, <2>2
<1>3. /\ \A t \in Timer : /\ ModeOf[t] = "free" <=> st[t] = "FREE"
                          /\ ModeOf[t] = "running" <=> st[t] = "MTICK"
                          /\ ModeOf[t] = "quiet" <=> st[t] = "MQUIET"
  BY ModeFact DEF IInv
<1>4. IInv' BY CalloutKeeps
<1>5. OnQueue(queue') = {t \in Timer : st'[t] = "MTICK"}
  <2>1. Linked' BY <1>4 DEF IInv
  <2> QED BY <2>1 DEF Linked
<1> DEFINE m == IF ret = "REPEAT" THEN "running" ELSE IF ret = "QUIET" THEN "quiet" ELSE "free"
           A == X
<1>6. /\ m \in {"free", "running", "quiet"} /\ (m = "running" <=> ret = "REPEAT")
      /\ (m = "free" <=> st'[ce] = "FREE") /\ Named(st'[ce]) = m
  <2>1. CASE ret = "REPEAT"
    <3>1. st'[ce] = "MTICK" BY <2>1, <1>1, <1>2
    <3> QED BY <2>1, <3>1, NamedFact
  <2>2. CASE ret = "QUIET"
    <3>1. st'[ce] = "MQUIET" BY <2>2, <1>1, <1>2
    <3> QED BY <2>2, <3>1, NamedFact
  <2>3. CASE ret = "KILL"
    <3>1. st'[ce] = "FREE" BY <2>3, <1>1, <1>2
    <3> QED BY <2>3, <3>1, NamedFact
  <2> QED BY <2>1, <2>2, <2>3
<1> HIDE DEF m
<1>7. A \in SUBSET {x \in Timer : ModeOf[x] = "quiet"} BY <1>1, <1>3
<1>8. \A t \in Timer \ {ce} : st'[t] = IF t \in X THEN "MTICK" ELSE st[t] BY <1>1
<1>9. ModeOf' = [x \in Timer |-> IF x = ce THEN m ELSE IF x \in A THEN "running" ELSE ModeOf[x]]
  BY <1>6, <1>8, NamedFact
<1>10. PeriodOf' = [PeriodOf EXCEPT ![ce] = IF m = "free" THEN 0 ELSE @]
  <2> DEFINE res == [PeriodOf EXCEPT ![ce] = IF m = "free" THEN 0 ELSE @]
  <2>1. /\ PeriodOf = [t \in Timer |-> IF st[t] = "FREE" THEN 0 ELSE oticks[t]]
        /\ PeriodOf' = [t \in Timer |-> IF st'[t] = "FREE" THEN 0 ELSE oticks[t]]
    BY <1>1 DEF PeriodOf
  <2>2. ASSUME NEW t \in Timer
        PROVE  (IF st'[t] = "FREE" THEN 0 ELSE oticks[t])
               = IF t = ce THEN (IF m = "free" THEN 0 ELSE PeriodOf[t]) ELSE PeriodOf[t]
    <3>1. CASE t = ce
      <4>1. PeriodOf[t] = oticks[t] BY <2>1, <3>1, <1>2
      <4> QED BY <3>1, <4>1, <1>6
    <3>2. CASE t \in X /\ t # ce
      <4>1. PeriodOf[t] = oticks[t] BY <2>1, <3>2, <1>1
      <4> QED BY <3>2, <4>1, <1>8
    <3>3. CASE t \notin X /\ t # ce BY <2>1, <3>3, <1>8
    <3> QED BY <3>1, <3>2, <3>3
  <2> QED BY <2>1, <2>2
<1>11. Remaining' = [x \in Timer |-> IF x \in A \/ (x = ce /\ m = "running") THEN PeriodOf[x]
                                    ELSE IF x = ce THEN 0 ELSE Remaining[x]]
  <2> DEFINE new == [t \in Timer |-> IF t \in OnQueue(queue') THEN Left(Queue', t) ELSE 0]
             res == [x \in Timer |-> IF x \in A \/ (x = ce /\ m = "running") THEN PeriodOf[x]
                                     ELSE IF x = ce THEN 0 ELSE Remaining[x]]
  <2>1. Remaining' = new BY SeenFact
  <2>2. ASSUME NEW t \in Timer PROVE new[t] = res[t]
    <3>1. CASE t \in X
      <4>1. t \in OnQueue(queue') /\ t # ce BY <3>1, <1>1, <1>2
      <4>2. PeriodOf[t] = oticks[t] BY <3>1, <1>1 DEF PeriodOf
      <4> QED BY <3>1, <4>1, <4>2, <1>1
    <3>2. CASE t = ce
      <4>1. t \notin X /\ (t \in OnQueue(queue') <=> ret = "REPEAT") BY <3>2, <1>1, <1>2
      <4>2. PeriodOf[t] = oticks[t] BY <3>2, <1>2 DEF PeriodOf
      <4> QED BY <3>2, <4>1, <4>2, <1>1, <1>6
    <3>3. CASE t \notin X /\ t # ce
      <4>1. t \in OnQueue(queue') <=> t \in OnQueue(queue) BY <3>3, <1>1
      <4>2. Remaining[t] = IF t \in OnQueue(queue) THEN Left(Queue, t) ELSE 0 BY SeenFact
      <4> QED BY <3>3, <4>1, <4>2, <1>1
    <3> QED BY <3>1, <3>2, <3>3
  <2>3. new = [t \in Timer |-> new[t]] /\ res = [t \in Timer |-> res[t]] OBVIOUS
  <2> HIDE DEF new, res
  <2>4. new = res BY <2>2, <2>3
  <2> QED BY <2>1, <2>4 DEF res
<1>12. (ce' # None) = (\E x \in Timer : ModeOf'[x] = "running" /\ Remaining'[x] = 0)
  <2>1. ce' # None <=> \E x \in OnQueue(queue') : Left(Queue', x) = 0 BY <1>1, <1>2, LeftFact
  <2>2. \A x \in OnQueue(queue') : x \in Timer /\ Remaining'[x] = Left(Queue', x)
    BY <1>5, SeenFact
  <2>3. \A x \in Timer : ModeOf'[x] = "running" <=> st'[x] = "MTICK"
    <3>1. TypeOK' BY <1>4 DEF IInv
    <3>2. \A x \in Timer : st'[x] \in {"FREE", "MTICK", "MQUIET"} BY <3>1 DEF TypeOK
    <3> QED BY <3>2, NamedFact
  <2>4. (\E x \in Timer : ModeOf'[x] = "running" /\ Remaining'[x] = 0)
        <=> \E x \in OnQueue(queue') : Left(Queue', x) = 0
    BY <2>2, <2>3, <1>5
  <2> QED BY <2>1, <2>4
<1>13. (ce # None) /\ ce \in Service!Running /\ Remaining[ce] = 0
  BY <1>1, <1>2, <1>3, SeenFact DEF Service!Running
<1> HIDE DEF A
<1> QED BY <1>2, <1>6, <1>7, <1>9, <1>10, <1>11, <1>12, <1>13 DEF Service!Fire

\* Every step of the queue is a step of TimerService or invisible to its clients.
LEMMA NextRefines == IInv /\ [Next]_vars => [Service!Next]_Service!vars
<1> SUFFICES ASSUME IInv, [Next]_vars PROVE [Service!Next]_Service!vars OBVIOUS
<1>1. ASSUME NEW t \in Timer, NEW u \in Intervals[t], TmrGet(t, u) PROVE Service!Get(t)
  <2>1. Request(t) /\ TypeOK' /\ st[t] = "FREE" /\ st'[t] = "MTICK" BY <1>1, TmrGetEffect
  <2>2. /\ Service!Request(t, ModeOf'[t], PeriodOf'[t]) /\ PeriodOf'[t] > 0
        /\ ModeOf[t] = "free" /\ ModeOf'[t] = "running"
    BY <2>1, RequestRefines, NamedFact
  <2> QED BY <2>2 DEF Service!Get
<1>2. ASSUME NEW t \in Timer, NEW u \in Intervals[t], TmrSet(t, u) PROVE Service!Set(t)
  <2>1. Request(t) /\ TypeOK' /\ st[t] # "FREE" /\ st'[t] = st[t] BY <1>2, TmrSetEffect
  <2>2. /\ Service!Request(t, ModeOf'[t], PeriodOf'[t]) /\ PeriodOf'[t] > 0
        /\ ModeOf[t] # "free" /\ ModeOf'[t] = ModeOf[t]
    BY <2>1, RequestRefines, NamedFact
  <2> QED BY <2>2 DEF Service!Set
<1>3. ASSUME NEW t \in Timer, TmrQuiet(t) PROVE Service!Quiet(t)
  <2>1. /\ Request(t) /\ TypeOK' /\ st[t] = "MTICK" /\ st'[t] = "MQUIET"
        /\ oticks'[t] = oticks[t]
    BY <1>3, TmrQuietEffect
  <2>2. /\ Service!Request(t, ModeOf'[t], PeriodOf'[t]) /\ PeriodOf'[t] = PeriodOf[t]
        /\ ModeOf[t] = "running" /\ ModeOf'[t] = "quiet"
    BY <2>1, RequestRefines, NamedFact
  <2> QED BY <2>2 DEF Service!Quiet
<1>4. ASSUME NEW t \in Timer, TmrActiv(t) PROVE Service!Activ(t)
  <2>1. /\ Request(t) /\ TypeOK' /\ st[t] = "MQUIET" /\ st'[t] = "MTICK"
        /\ oticks'[t] = oticks[t]
    BY <1>4, TmrActivEffect
  <2>2. /\ Service!Request(t, ModeOf'[t], PeriodOf'[t]) /\ PeriodOf'[t] = PeriodOf[t]
        /\ ModeOf[t] = "quiet" /\ ModeOf'[t] = "running"
    BY <2>1, RequestRefines, NamedFact
  <2> QED BY <2>2 DEF Service!Activ
<1>5. ASSUME NEW t \in Timer, TmrKill(t) PROVE Service!Kill(t)
  <2>1. Request(t) /\ TypeOK' /\ st[t] # "FREE" /\ st'[t] = "FREE" BY <1>5, TmrKillEffect
  <2>2. /\ Service!Request(t, ModeOf'[t], PeriodOf'[t]) /\ PeriodOf'[t] = 0
        /\ ModeOf[t] # "free" /\ ModeOf'[t] = "free"
    BY <2>1, RequestRefines, NamedFact
  <2> QED BY <2>2 DEF Service!Kill
<1>6. ASSUME NEW t \in Timer, CalloutOf(t) PROVE \E x \in Timer : Service!Fire(x)
  <2>1. PICK ret \in {"REPEAT", "QUIET", "KILL"}, X \in {{}} \cup {{x} : x \in Nested[ce]} :
            Callout(ret, X)
    BY <1>6 DEF CalloutOf
  <2>2. Service!Fire(ce) /\ ce \in Timer BY <2>1, FireRefines
  <2> QED BY <2>2
<1>7. ASSUME NEW len \in TickLens, ItusSet(len) PROVE Service!Rescale BY <1>7, RescaleRefines
<1>8. CASE Synctimeout
  <2>1. Service!Tick BY <1>8, TickRefines
  <2> QED BY <2>1 DEF Service!Next
<1>9. CASE UNCHANGED vars
  <2>1. UNCHANGED <<ModeOf, Remaining, PeriodOf>> /\ (ce' # None) = (ce # None)
    BY <1>9 DEF vars, ModeOf, Remaining, PeriodOf, Queue
  <2> QED BY <2>1 DEF Service!vars
<1> QED BY <1>1, <1>2, <1>3, <1>4, <1>5, <1>6, <1>7, <1>8, <1>9 DEF Next, Service!Next

\* The queue of kn10clk.c implements the promises of TimerService: no timer is lost, early or
\* late, whatever the others do.
THEOREM QueueKeepsPromise == Spec => KeepsPromise
BY InitRefines, NextRefines, Invariant, PTL DEF Spec, KeepsPromise, Service!Spec
=============================================================================
