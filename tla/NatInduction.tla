---------------------------- MODULE NatInduction ----------------------------
(***************************************************************************)
(* Induction over the natural numbers as a fact about sets, for proofs     *)
(* about sums over a queue and the like.  (The library's theorems about    *)
(* induction take an operator as a parameter.)                             *)
(***************************************************************************)
EXTENDS Integers, WellFoundedInduction, TLAPS

\* Every set of natural numbers that is not empty has a least element.
LEMMA LeastNat == \A T \in SUBSET Nat : T # {} => \E x \in T : \A y \in T : x <= y
<1> DEFINE R == OpToRel(<,Nat)
<1>1. IsWellFoundedOn(R, Nat) BY NatLessThanWellFounded
<1>2. R = {ss \in Nat \X Nat : ss[1] < ss[2]} BY DEF OpToRel
<1> HIDE DEF R
<1>3. TAKE T \in SUBSET Nat
<1>4. HAVE T # {}
<1>5. PICK x \in T : \A y \in T : ~ (<<y, x>> \in R) BY <1>1, <1>4, WFMin
<1>6. ASSUME NEW y \in T PROVE x <= y
  <2>1. <<y, x>> \in Nat \X Nat OBVIOUS
  <2>2. ~(y < x) BY <2>1, <1>5, <1>2
  <2> QED BY <2>2
<1> QED BY <1>6

\* Induction up to n.
LEMMA UpTo ==
    ASSUME NEW n \in Nat, NEW S \in SUBSET (0..n),
           0 \in S, \A i \in 0..n : i \in S /\ i < n => i + 1 \in S
    PROVE  \A i \in 0..n : i \in S
<1> DEFINE T == (0..n) \ S
<1>1. SUFFICES ASSUME T # {} PROVE FALSE OBVIOUS
<1>2. T \in SUBSET Nat OBVIOUS
<1>3. PICK m \in T : \A k \in T : m <= k
  <2> HIDE DEF T
  <2> QED BY <1>1, <1>2, LeastNat
<1>4. m # 0 /\ m - 1 \in 0..n /\ m - 1 \notin T BY <1>3
<1>5. m - 1 \in S /\ m - 1 < n BY <1>4, <1>3
<1>6. (m - 1) + 1 \in S BY <1>5, <1>4
<1> QED BY <1>6, <1>3
\* f on 0..n goes on from each value to the next one as s says.
Follows(f, n, s) == \A i \in 1..n : f[i] = s[i][f[i - 1]]

\* A function on 0..n is determined by its first value and by how each one follows from
\* the one before.
LEMMA RecursionUnique ==
    ASSUME NEW n \in Nat, NEW s, NEW f, NEW g, f[0] = g[0], Follows(f, n, s), Follows(g, n, s)
    PROVE  \A i \in 0..n : f[i] = g[i]
<1> DEFINE S == {i \in 0..n : f[i] = g[i]}
<1>1. 0 \in S OBVIOUS
<1>2. ASSUME NEW i \in 0..n, i \in S, i < n PROVE i + 1 \in S
  <2>1. i + 1 \in 1..n /\ i + 1 \in 0..n /\ (i + 1) - 1 = i BY <1>2
  <2>2. f[i + 1] = s[i + 1][f[i]] /\ g[i + 1] = s[i + 1][g[i]] BY <2>1 DEF Follows
  <2> QED BY <2>1, <2>2, <1>2
<1>3. S \in SUBSET (0..n) OBVIOUS
<1> HIDE DEF S
<1>4. \A i \in 0..n : i \in S BY <1>1, <1>2, <1>3, UpTo
<1> QED BY <1>4 DEF S

\* And there is one, for every way to go on.
LEMMA RecursionExists ==
    ASSUME NEW V, NEW a \in V, NEW n \in Nat, NEW s \in [1..n -> [V -> V]]
    PROVE  \E f \in [0..n -> V] : f[0] = a /\ Follows(f, n, s)
<1> DEFINE S == {m \in 0..n : \E f \in [0..m -> V] : f[0] = a /\ Follows(f, m, s)}
<1>1. 0 \in S
  <2> DEFINE c == [i \in 0..0 |-> a]
  <2>1. c \in [0..0 -> V] /\ c[0] = a /\ Follows(c, 0, s) BY DEF Follows
  <2> HIDE DEF c
  <2> QED BY <2>1
<1>2. ASSUME NEW m \in 0..n, m \in S, m < n PROVE m + 1 \in S
  <2>1. PICK f \in [0..m -> V] : f[0] = a /\ Follows(f, m, s) BY <1>2
  <2> DEFINE v == s[m + 1][f[m]]
             g == [i \in 0..(m + 1) |-> IF i = m + 1 THEN v ELSE f[i]]
  <2>2. v \in V
    <3>1. m + 1 \in 1..n /\ f[m] \in V BY <1>2, <2>1
    <3>2. s[m + 1] \in [V -> V] BY <3>1
    <3> QED BY <3>1, <3>2
  <2>3. g \in [0..(m + 1) -> V]
    <3> HIDE DEF v
    <3> QED BY <2>1, <2>2
  <2>4. ASSUME NEW i \in 1..(m + 1) PROVE g[i] = s[i][g[i - 1]]
    <3>1. CASE i = m + 1
      <4>1. g[i] = v /\ g[i - 1] = f[m] BY <3>1
      <4> QED BY <4>1, <3>1
    <3>2. CASE i # m + 1
      <4>1. i \in 1..m /\ i \in 0..m /\ i - 1 \in 0..m BY <3>2
      <4>2. g[i] = f[i] /\ g[i - 1] = f[i - 1] BY <4>1
      <4> QED BY <4>1, <4>2, <2>1 DEF Follows
    <3> QED BY <3>1, <3>2
  <2>5. g[0] = a /\ Follows(g, m + 1, s) BY <2>1, <2>4 DEF Follows
  <2>6. m + 1 \in 0..n BY <1>2
  <2> HIDE DEF g
  <2> QED BY <2>3, <2>5, <2>6
<1>3. n \in 0..n /\ S \in SUBSET (0..n) OBVIOUS
<1> HIDE DEF S
<1>4. n \in S BY <1>1, <1>2, <1>3, UpTo
<1> QED BY <1>4 DEF S

\* The same on all natural numbers.
LEMMA RecursionOnNat ==
    ASSUME NEW V, NEW a \in V, NEW s \in [Nat -> [V -> V]]
    PROVE  \E f \in [Nat -> V] : f[0] = a /\ \A n \in Nat : Follows(f, n, s)
<1> DEFINE Good(f, n) == f[0] = a /\ Follows(f, n, s)
           h(n) == CHOOSE f \in [0..n -> V] : Good(f, n)
           g == [n \in Nat |-> h(n)[n]]
<1>1. ASSUME NEW n \in Nat PROVE h(n) \in [0..n -> V] /\ Good(h(n), n)
  <2> DEFINE r == [i \in 1..n |-> s[i]]
  <2>1. r \in [1..n -> [V -> V]] OBVIOUS
  <2>2. \A i \in 1..n : r[i] = s[i] OBVIOUS
  <2> HIDE DEF r
  <2>3. PICK f \in [0..n -> V] : f[0] = a /\ Follows(f, n, r) BY <2>1, RecursionExists
  <2>4. Good(f, n) BY <2>2, <2>3 DEF Follows
  <2> QED BY <2>4
<1> HIDE DEF h
<1>2. g \in [Nat -> V]
  <2>1. \A n \in Nat : h(n)[n] \in V BY <1>1
  <2> QED BY <2>1
<1>3. g[0] = a BY <1>1
<1>4. ASSUME NEW i \in Nat \ {0} PROVE g[i] = s[i][g[i - 1]]
  <2>1. i \in Nat /\ i - 1 \in Nat /\ i \in 1..i /\ i - 1 \in 0..(i - 1) OBVIOUS
  <2>2. h(i)[i] = s[i][h(i)[i - 1]] BY <2>1, <1>1 DEF Follows
  <2>3. h(i)[0] = h(i - 1)[0] /\ Follows(h(i), i - 1, s) /\ Follows(h(i - 1), i - 1, s)
    <3>1. \A k \in 1..(i - 1) : k \in 1..i OBVIOUS
    <3>2. Follows(h(i), i, s) BY <2>1, <1>1
    <3> QED BY <2>1, <3>1, <3>2, <1>1 DEF Follows
  <2>4. h(i)[i - 1] = h(i - 1)[i - 1] BY <2>1, <2>3, RecursionUnique
  <2> QED BY <2>1, <2>2, <2>4
<1>5. \A n \in Nat : Follows(g, n, s) BY <1>4 DEF Follows
<1> HIDE DEF g
<1> QED BY <1>2, <1>3, <1>5
=============================================================================
