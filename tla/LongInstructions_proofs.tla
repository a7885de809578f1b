------------------------ MODULE LongInstructions_proofs ------------------------
(***************************************************************************)
(* Proofs about the instructions that the processor can be interrupted in  *)
(* (ix_movslj ... ix_edit of inexts.c, ix_blt and ix_xblt of inmove.c, the *)
(* byte instructions of inbyte.c).                                         *)
(* They get on: every try that an interrupt stops leaves less to do in the *)
(* ACs than it began with.  PInv says of the turns of a try that they      *)
(* never have more to do than the ACs said when it began (Under), and      *)
(* strictly less once one turn is done; each instruction gives a lemma of  *)
(* its own for its turn.                                                   *)
(* And they do what they do when nothing stops them: ServedInv says, of    *)
(* the blocks, bytes, pointers and the strings that are compared or moved  *)
(* without a table, that memory and the ACs of a try, as they would be     *)
(* stored now, ask for what was asked for first.                           *)
(***************************************************************************)
EXTENDS LongInstructions, NatInduction, SequenceTheorems

-----------------------------------------------------------------------------
(* Powers of the radix and digits                                          *)

\* The powers begin with 1 and grow by the radix.
LEMMA PowerFact ==
    /\ Power[0] = 1
    /\ \A i \in Nat : Power[i] \in Nat \ {0}
    /\ \A i \in Nat \ {0} : Power[i] = Radix * Power[i - 1]
<1> DEFINE Rec(f) == f = [n \in Nat |-> IF n = 0 THEN 1 ELSE Radix * f[n - 1]]
           V == Nat \ {0}
           s == [i \in Nat |-> [v \in V |-> Radix * v]]
<1>1. Radix \in Nat \ {0} BY StringAssumption
<1>2. s \in [Nat -> [V -> V]]
  <2>1. ASSUME NEW v \in V PROVE Radix * v \in V BY <1>1
  <2> QED BY <2>1
<1>3. PICK f \in [Nat -> V] : f[0] = 1 /\ \A n \in Nat : Follows(f, n, s)
  <2>1. 1 \in V OBVIOUS
  <2> HIDE DEF s, V
  <2> QED BY <2>1, <1>2, RecursionOnNat
<1>4. ASSUME NEW i \in Nat \ {0} PROVE f[i] = Radix * f[i - 1]
  <2>1. i \in 1..i /\ i - 1 \in Nat /\ f[i - 1] \in V OBVIOUS
  <2> QED BY <2>1, <1>3 DEF Follows
<1>5. Rec(f)
  <2>1. \A n \in Nat : f[n] = IF n = 0 THEN 1 ELSE Radix * f[n - 1] BY <1>3, <1>4
  <2> QED BY <2>1
<1> DEFINE h == CHOOSE g : Rec(g)
<1>6. Rec(h) BY <1>5
<1>7. Power = h BY DEF Power
<1> HIDE DEF h
<1>8. Power[0] = 1 BY <1>6, <1>7
<1>9. \A i \in Nat \ {0} : Power[i] = Radix * Power[i - 1] BY <1>6, <1>7
<1>10. \A i \in Nat : Power[i] \in Nat \ {0}
  <2>1. ASSUME NEW n \in Nat PROVE Power[n] \in Nat \ {0}
    <3> DEFINE S == {i \in 0..n : Power[i] \in Nat \ {0}}
    <3>1. 0 \in S BY <1>8
    <3>2. ASSUME NEW i \in 0..n, i \in S, i < n PROVE i + 1 \in S
      <4>1. i + 1 \in Nat \ {0} /\ (i + 1) - 1 = i /\ i + 1 \in 0..n BY <3>2
      <4> QED BY <4>1, <3>2, <1>1, <1>9
    <3>3. S \in SUBSET (0..n) /\ n \in 0..n OBVIOUS
    <3> HIDE DEF S
    <3>4. n \in S BY <3>1, <3>2, <3>3, UpTo
    <3> QED BY <3>4 DEF S
  <2> QED BY <2>1
<1> QED BY <1>8, <1>9, <1>10

\* They outgrow every number.
LEMMA PowerGrows == \A n \in Nat : n < Power[n]
<1>1. ASSUME NEW n \in Nat PROVE n < Power[n]
  <2> DEFINE S == {i \in 0..n : i < Power[i]}
  <2>1. 0 \in S BY PowerFact
  <2>2. ASSUME NEW i \in 0..n, i \in S, i < n PROVE i + 1 \in S
    <3>1. i + 1 \in Nat \ {0} /\ (i + 1) - 1 = i /\ i + 1 \in 0..n BY <2>2
    <3>2. Power[i + 1] = Radix * Power[i] /\ Power[i] \in Nat BY <3>1, PowerFact
    <3>3. Radix \in Nat /\ Radix >= 2 BY StringAssumption
    <3>4. Radix * Power[i] >= 2 * Power[i] BY <3>2, <3>3
    <3>5. i < Power[i] /\ Power[i + 1] >= 2 * Power[i] BY <3>2, <3>4, <2>2
    <3>6. i + 1 < Power[i + 1]
      <4> DEFINE p == Power[i]
                 q == Power[i + 1]
      <4>1. p \in Nat /\ q \in Nat /\ i < p /\ q >= 2 * p BY <3>1, <3>2, <3>5, PowerFact
      <4> HIDE DEF p, q
      <4>2. i + 1 < q BY <4>1
      <4> QED BY <4>2 DEF q
    <3> QED BY <3>1, <3>6
  <2>3. S \in SUBSET (0..n) /\ n \in 0..n OBVIOUS
  <2> HIDE DEF S
  <2>4. n \in S BY <2>1, <2>2, <2>3, UpTo
  <2> QED BY <2>4 DEF S
<1> QED BY <1>1

\* A number has its digits: no power below is above it.
LEMMA DigitFact ==
    ASSUME NEW n \in Nat
    PROVE  /\ DigitCount(n) \in Nat \ {0}
           /\ n < Power[DigitCount(n)]
<1> DEFINE Fit(i) == n < Power[i] /\ (i = 1 \/ Power[i - 1] <= n)
           T == {i \in Nat : i >= 1 /\ n < Power[i]}
<1>1. n + 1 \in T
  <2>1. n + 1 < Power[n + 1] /\ Power[n + 1] \in Nat BY PowerGrows, PowerFact
  <2> QED BY <2>1
<1>2. PICK i \in T : \A j \in T : i <= j
  <2>1. T \in SUBSET Nat /\ T # {} BY <1>1
  <2> HIDE DEF T
  <2> QED BY <2>1, LeastNat
<1>3. i \in 1..n + 1 /\ Fit(i)
  <2>1. i <= n + 1 BY <1>1, <1>2
  <2>2. i # 1 => Power[i - 1] <= n
    <3>1. SUFFICES ASSUME i # 1, ~(Power[i - 1] <= n) PROVE FALSE OBVIOUS
    <3>2. i - 1 \in Nat /\ i - 1 >= 1 /\ Power[i - 1] \in Nat BY <3>1, <1>2, PowerFact
    <3>3. i - 1 \in T BY <3>1, <3>2
    <3> QED BY <3>2, <3>3, <1>2
  <2> QED BY <2>1, <2>2, <1>2
<1> DEFINE d == CHOOSE k \in 1..n + 1 : Fit(k)
<1>4. d \in 1..n + 1 /\ Fit(d) BY <1>3
<1>5. DigitCount(n) = d BY DEF DigitCount
<1> HIDE DEF d
<1> QED BY <1>4, <1>5

-----------------------------------------------------------------------------
(* How far a try has come                                                  *)

TryFields == {"op", "e0", "pattern", "mem", "res", "flags", "num", "nd", "len1", "len2", "s1",
              "s2", "at", "mark", "fill2", "pads", "first"}
AcFields  == {"len1", "bp1", "len2", "bp2", "num", "at", "flags", "mark"}
Results   == {"RUN", "WON", "TRUNC", "EQ", "LT", "GT", "PF", "PI"}
Ongoing(y) == y.res \in {"RUN", "PF", "PI"}

Shape(y) == DOMAIN y = TryFields /\ y.res \in Results

\* What a turn never changes.
Same(y, z) == Shape(z) /\ z.op = y.op /\ z.pattern = y.pattern /\ z.e0 = y.e0

\* The counts of each kind of instruction, while there is something left to do.
Counting(y) ==
    /\ y.op \in Moves \cup {"CMPS"} => y.len1 \in Nat /\ y.len2 \in Nat
    /\ y.op \in Moves /\ y.res = "RUN" => y.len2 >= 1
    /\ y.op = "MOVSRJ" /\ y.res = "RUN" => y.len1 <= y.len2
    /\ y.op \in ToText => /\ y.nd \in Nat /\ y.len2 \in Nat /\ y.num \in Nat
                          /\ y.pads \in BOOLEAN /\ (y.pads => y.nd <= y.len2)
                          /\ y.res = "RUN" => y.nd >= 1
    /\ y.op \in ToNumber => y.len1 \in Nat /\ (y.res = "RUN" => y.len1 >= 1)
    /\ y.op = "EDIT" => y.at \in Nat /\ (Ongoing(y) => y.at < Len(y.pattern))
    /\ y.op = "XBLT" => y.num \in Int /\ (y.res = "RUN" => y.num # 0)
    /\ y.op \in Bytes => y.len1 \in Nat /\ y.len2 \in Nat /\ y.res # "PI"

\* What would be left to do if the try were given up here: ToDo of what Leave stores.
Rest(a, y) ==
    CASE y.op = "EDIT"      -> Len(y.pattern) - y.at
      [] y.op = "XBLT"      -> Magnitude(y.num)
      [] y.op \in ToText    -> a.len1 + (IF y.pads THEN y.len2 ELSE y.nd)
      [] y.op \in ToNumber  -> y.len1 + a.len2
      [] OTHER              -> y.len1 + y.len2

\* A turn leaves no more to do, and less if it ends in an interrupt.
Onwards(a, y, z) ==
    /\ Same(y, z) /\ Counting(z)
    /\ z.res = "RUN" => Rest(a, z) <= Rest(a, y)
    /\ z.res = "PI" => Rest(a, z) < Rest(a, y)

\* A fill byte is one less to store.
LEMMA PadFact ==
    ASSUME NEW y, NEW gone, NEW brk, Shape(y), y.len2 \in Nat \ {0}
    PROVE  LET z == Pad(y, gone, brk)
           IN /\ Same(y, z) /\ z.len1 = y.len1
              /\ \/ z.res = "PF" /\ z.len2 = y.len2
                 \/ /\ z.len2 = y.len2 - 1
                    /\ z.res = Later(y.len2 = 1, brk)
BY DEF Pad, Same, Shape, TryFields, Results, Later

\* A byte that is moved is one less to read and to store.
LEMMA DepositFact ==
    ASSUME NEW y, NEW gone, NEW s, NEW b, NEW flags, NEW next \in Results, Shape(y),
           y.len1 \in Nat, y.len2 \in Nat
    PROVE  LET z == Deposit(y, gone, s, b, flags, next)
           IN /\ Same(y, z)
              /\ \/ z.res = "PF" /\ z.len1 = y.len1 /\ z.len2 = y.len2
                 \/ z.res = next /\ z.len1 = y.len1 - 1 /\ z.len2 = y.len2 - 1
BY DEF Deposit, Same, Shape, TryFields, Results

\* What the turn lemmas begin with.
Turning(a, y) == /\ Shape(y) /\ y.res = "RUN" /\ Counting(y)
                 /\ a.len1 \in Nat /\ a.len2 \in Nat

\* A turn of a move: a page fail, the end, or one byte less and something left.
Shorter(y, z) ==
    /\ Same(y, z)
    /\ \/ z.res = "PF" /\ z.len1 = y.len1 /\ z.len2 = y.len2
       \/ z.res \in {"WON", "TRUNC"} /\ z.len1 \in Nat /\ z.len2 \in Nat
       \/ /\ z.res \in {"RUN", "PI"} /\ z.len1 \in Nat /\ z.len2 \in Nat \ {0}
          /\ z.len1 + z.len2 < y.len1 + y.len2
          /\ y.op = "MOVSRJ" => z.len1 <= z.len2

LEMMA ShorterGoesOn ==
    ASSUME NEW a, NEW y, NEW z, Turning(a, y), y.op \in Moves, Shorter(y, z)
    PROVE  Onwards(a, y, z)
<1>1. y.len1 \in Nat /\ y.len2 \in Nat BY DEF Turning, Counting
<1>2. z.op = y.op /\ Same(y, z) BY DEF Shorter, Same
<1>3. Rest(a, z) = z.len1 + z.len2 /\ Rest(a, y) = y.len1 + y.len2
  BY <1>2 DEF Rest, ToText, ToNumber, Moves
<1>4. Counting(z)
  BY <1>1, <1>2 DEF Shorter, Counting, Moves, ToText, ToNumber, Bytes
<1> QED BY <1>1, <1>2, <1>3, <1>4 DEF Onwards, Shorter

\* Each instruction has its own loop.
LEMMA StepFact ==
    ASSUME NEW y, NEW gone, NEW brk
    PROVE  /\ y.op \in {"MOVSLJ", "MOVSO"} => Step(y, gone, brk) = MoveStep(y, gone, brk)
           /\ y.op = "MOVST" => Step(y, gone, brk) = TranslateStep(y, gone, brk)
           /\ y.op = "MOVSRJ" => Step(y, gone, brk) = RightStep(y, gone, brk)
           /\ y.op = "CMPS" => Step(y, gone, brk) = CompareStep(y, gone, brk)
           /\ y.op \in ToText => Step(y, gone, brk) = BinaryStep(y, gone, brk)
           /\ y.op \in ToNumber => Step(y, gone, brk) = DecimalStep(y, gone, brk)
           /\ y.op = "EDIT" => Step(y, gone, brk) = EditStep(y, gone, brk)
           /\ y.op = "BLT" => Step(y, gone, brk) = BltStep(y, gone, brk)
           /\ y.op = "XBLT" => Step(y, gone, brk) = XbltStep(y, gone, brk)
           /\ y.op \in Bytes => Step(y, gone, brk) = ByteStep(y, gone)
BY DEF Step, ToText, ToNumber, Bytes

LEMMA MoveTurn ==
    ASSUME NEW a, NEW y, NEW gone, NEW brk \in BOOLEAN, Turning(a, y), y.op \in Moves
    PROVE  Onwards(a, y, Step(y, gone, brk))
<1> DEFINE z == Step(y, gone, brk)
<1>1. /\ Shape(y) /\ y.len1 \in Nat /\ y.len2 \in Nat /\ y.len2 >= 1
      /\ y.op = "MOVSRJ" => y.len1 <= y.len2
  BY DEF Turning, Counting
<1>2. SUFFICES Shorter(y, z) BY ShorterGoesOn
<1>3. CASE y.op \in {"MOVSLJ", "MOVSO"}
  <2>1. z = MoveStep(y, gone, brk) BY <1>3, StepFact
  <2> HIDE DEF z
  <2>2. CASE y.len1 = 0
    <3>1. z = Pad(y, gone, FALSE) BY <2>1, <2>2 DEF MoveStep
    <3>2. /\ Same(y, z) /\ z.len1 = y.len1
          /\ \/ z.res = "PF" /\ z.len2 = y.len2
             \/ z.len2 = y.len2 - 1 /\ z.res = (IF y.len2 = 1 THEN "WON" ELSE "RUN")
      BY <1>1, <3>1, <2>2 DEF Pad, Same, Shape, TryFields, Results, Later
    <3> QED BY <1>1, <1>3, <3>2, <2>2 DEF Shorter, Later
  <2>3. CASE y.len1 # 0
    <3> DEFINE src == xildb(y.mem, gone, y.s1)
               b == src.b + (IF y.op = "MOVSO" THEN Offset ELSE 0)
               next == IF y.len2 = 1 THEN IF y.len1 = y.len2 THEN "WON" ELSE "TRUNC"
                       ELSE IF brk THEN "PI" ELSE "RUN"
    <3>1. CASE ~src.ok
      <4>1. z = [y EXCEPT !.s1 = src.s, !.res = "PF"] BY <2>1, <2>3, <3>1 DEF MoveStep
      <4> HIDE DEF src
      <4> QED BY <1>1, <4>1 DEF Shorter, Same, Shape, TryFields, Results
    <3>2. CASE src.ok /\ b \notin Byte
      <4>1. z = [y EXCEPT !.s1 = src.s, !.len1 = @ - 1, !.res = "TRUNC"]
        BY <2>1, <2>3, <3>2 DEF MoveStep
      <4> HIDE DEF src
      <4> QED BY <1>1, <2>3, <4>1 DEF Shorter, Same, Shape, TryFields, Results
    <3>3. CASE src.ok /\ b \in Byte
      <4>1. z = Deposit(y, gone, src.s, b, y.flags, next) BY <2>1, <2>3, <3>3 DEF MoveStep
      <4> HIDE DEF src, b
      <4>2. next \in Results BY DEF Results
      <4> HIDE DEF Shorter, next
      <4>3. /\ Same(y, z)
            /\ \/ z.res = "PF" /\ z.len1 = y.len1 /\ z.len2 = y.len2
               \/ z.res = next /\ z.len1 = y.len1 - 1 /\ z.len2 = y.len2 - 1
        BY <1>1, <4>1, <4>2, DepositFact
      <4> QED BY <1>1, <1>3, <2>3, <4>3 DEF Shorter, next
    <3> QED BY <3>1, <3>2, <3>3
  <2> QED BY <2>2, <2>3
<1>4. CASE y.op = "MOVST"
  <2>1. z = TranslateStep(y, gone, brk) BY <1>4, StepFact
  <2> HIDE DEF z
  <2>2. CASE y.len1 = 0
    <3>1. z = Pad(y, gone, brk) BY <2>1, <2>2 DEF TranslateStep
    <3>2. /\ Same(y, z) /\ z.len1 = y.len1
          /\ \/ z.res = "PF" /\ z.len2 = y.len2
             \/ z.len2 = y.len2 - 1 /\ z.res = Later(y.len2 = 1, brk)
      BY <1>1, <3>1, PadFact
    <3> QED BY <1>1, <1>4, <3>2, <2>2 DEF Shorter, Later
  <2>3. CASE y.len1 # 0
    <3> DEFINE src == xildb(y.mem, gone, y.s1)
               ent == Table[src.b]
               flags == Coded(ent.code, y.flags)
               goes == IF y.len1 > 1 /\ brk THEN "PI" ELSE "RUN"
               next == IF y.len2 > 1 THEN goes ELSE IF y.len1 > 1 THEN "TRUNC" ELSE "WON"
    <3>1. \/ z = [y EXCEPT !.s1 = src.s, !.res = "PF"]
          \/ z = [y EXCEPT !.s1 = xdecbp(src.s), !.res = "PF"]
          \/ z = [y EXCEPT !.s1 = src.s, !.len1 = @ - 1, !.flags = flags, !.res = "TRUNC"]
          \/ z = [y EXCEPT !.s1 = src.s, !.len1 = @ - 1, !.flags = flags, !.res = goes]
          \/ z = Deposit(y, gone, src.s, ent.byte, flags, next)
      BY <2>1, <2>3 DEF TranslateStep
    <3> HIDE DEF src, ent, flags
    <3>2. CASE z = [y EXCEPT !.s1 = src.s, !.res = "PF"] \/ z = [y EXCEPT !.s1 = xdecbp(src.s), !.res = "PF"]
      BY <1>1, <3>2 DEF Shorter, Same, Shape, TryFields, Results
    <3>3. CASE z = [y EXCEPT !.s1 = src.s, !.len1 = @ - 1, !.flags = flags, !.res = "TRUNC"]
      BY <1>1, <2>3, <3>3 DEF Shorter, Same, Shape, TryFields, Results
    <3>4. CASE z = [y EXCEPT !.s1 = src.s, !.len1 = @ - 1, !.flags = flags, !.res = goes]
      BY <1>1, <1>4, <2>3, <3>4 DEF Shorter, Same, Shape, TryFields, Results
    <3>5. CASE z = Deposit(y, gone, src.s, ent.byte, flags, next)
      <4>1. next \in Results BY DEF Results
      <4> HIDE DEF Shorter, next
      <4>2. /\ Same(y, z)
            /\ \/ z.res = "PF" /\ z.len1 = y.len1 /\ z.len2 = y.len2
               \/ z.res = next /\ z.len1 = y.len1 - 1 /\ z.len2 = y.len2 - 1
        BY <1>1, <3>5, <4>1, DepositFact
      <4> QED BY <1>1, <1>4, <2>3, <4>2 DEF Shorter, next
    <3> QED BY <3>1, <3>2, <3>3, <3>4, <3>5
  <2> QED BY <2>2, <2>3
<1>5. CASE y.op = "MOVSRJ"
  <2>1. z = RightStep(y, gone, brk) BY <1>5, StepFact
  <2> HIDE DEF z
  <2>2. CASE y.len1 < y.len2
    <3> DEFINE pad == Pad(y, gone, brk)
    <3>1. z = IF pad.len2 = y.len1 /\ pad.res = "PI" THEN [pad EXCEPT !.res = "RUN"] ELSE pad
      BY <2>1, <2>2 DEF RightStep
    <3> HIDE DEF pad
    <3>2. /\ Same(y, pad) /\ pad.len1 = y.len1
          /\ \/ pad.res = "PF" /\ pad.len2 = y.len2
             \/ pad.len2 = y.len2 - 1 /\ pad.res = Later(y.len2 = 1, brk)
      BY <1>1, PadFact DEF pad
    <3>3. Same(y, z) /\ z.len1 = pad.len1 /\ z.len2 = pad.len2
      BY <3>1, <3>2 DEF Same, Shape, TryFields, Results
    <3>4. z.res = pad.res \/ (z.res = "RUN" /\ pad.res = "PI")
      BY <3>1, <3>2 DEF Same, Shape, TryFields
    <3>5. y.len2 = 1 => y.len1 = 0 BY <1>1, <2>2
    <3> QED BY <1>1, <1>5, <2>2, <3>2, <3>3, <3>4 DEF Shorter, Later
  <2>3. CASE ~(y.len1 < y.len2)
    <3> DEFINE src == xildb(y.mem, gone, y.s1)
               next == Later(y.len2 = 1, brk)
    <3>1. \/ z = [y EXCEPT !.s1 = src.s, !.res = "PF"]
          \/ z = Deposit(y, gone, src.s, src.b, y.flags, next)
      BY <2>1, <2>3 DEF RightStep
    <3> HIDE DEF src
    <3>2. CASE z = [y EXCEPT !.s1 = src.s, !.res = "PF"]
      BY <1>1, <3>2 DEF Shorter, Same, Shape, TryFields, Results
    <3>3. CASE z = Deposit(y, gone, src.s, src.b, y.flags, next)
      <4>1. next \in Results BY DEF Results, Later
      <4> HIDE DEF Shorter, next
      <4>2. /\ Same(y, z)
            /\ \/ z.res = "PF" /\ z.len1 = y.len1 /\ z.len2 = y.len2
               \/ z.res = next /\ z.len1 = y.len1 - 1 /\ z.len2 = y.len2 - 1
        BY <1>1, <3>3, <4>1, DepositFact
      <4> QED BY <1>1, <1>5, <2>3, <4>2 DEF Shorter, next, Later
    <3> QED BY <3>1, <3>2, <3>3
  <2> QED BY <2>2, <2>3
<1> QED BY <1>3, <1>4, <1>5 DEF Moves

\* CMPSx goes on while there is something in one of the strings.
LEMMA CompareTurn ==
    ASSUME NEW a, NEW y, NEW gone, NEW brk \in BOOLEAN, Turning(a, y), y.op = "CMPS"
    PROVE  Onwards(a, y, Step(y, gone, brk))
<1> DEFINE z == Step(y, gone, brk)
           less(n) == IF n > 0 THEN n - 1 ELSE 0
           one == IF y.len1 > 0 THEN xildb(y.mem, gone, y.s1)
                  ELSE [ok |-> TRUE, s |-> y.s1, b |-> y.e0[IF y.fill2 THEN 2 ELSE 1]]
           two == IF y.len2 > 0 THEN xildb(y.mem, gone, y.s2)
                  ELSE [ok |-> TRUE, s |-> y.s2, b |-> y.e0[IF y.fill2 THEN 2 ELSE 1]]
           back == IF y.len1 > 0 THEN xdecbp(one.s) ELSE one.s
           next == IF one.b < two.b THEN "LT" ELSE IF one.b > two.b THEN "GT"
                   ELSE IF brk THEN "PI" ELSE "RUN"
<1>0. SUFFICES Onwards(a, y, z) OBVIOUS
<1>1. Shape(y) /\ y.len1 \in Nat /\ y.len2 \in Nat /\ y.res = "RUN" BY DEF Turning, Counting
<1>2. \/ z = [y EXCEPT !.res = "EQ"]
      \/ z = [y EXCEPT !.s1 = one.s, !.res = "PF"]
      \/ z = [y EXCEPT !.s1 = back, !.s2 = two.s, !.res = "PF"]
      \/ /\ ~(y.len1 = 0 /\ y.len2 = 0)
         /\ z = [y EXCEPT !.s1 = one.s, !.s2 = two.s, !.len1 = less(@), !.len2 = less(@), !.res = next]
  <2>1. z = CompareStep(y, gone, brk) BY StepFact
  <2>2. CompareStep(y, gone, brk) =
           IF y.len1 = 0 /\ y.len2 = 0 THEN [y EXCEPT !.res = "EQ"]
           ELSE IF ~one.ok THEN [y EXCEPT !.s1 = one.s, !.res = "PF"]
           ELSE IF ~two.ok THEN [y EXCEPT !.s1 = back, !.s2 = two.s, !.res = "PF"]
           ELSE [y EXCEPT !.s1 = one.s, !.s2 = two.s, !.len1 = less(@), !.len2 = less(@), !.res = next]
    BY DEF CompareStep
  <2> HIDE DEF z, one, two, back, next
  <2> QED BY <2>1, <2>2
<1>3. next \in {"LT", "GT", "PI", "RUN"} OBVIOUS
<1> HIDE DEF z, one, two, back, next
<1>4. /\ Same(y, z)
      /\ z.len1 \in {y.len1, less(y.len1)} /\ z.len2 \in {y.len2, less(y.len2)}
      /\ z.res \in {"RUN", "PI"} => z.len1 + z.len2 < y.len1 + y.len2
  <2> DEFINE l1 == less(y.len1)
             l2 == less(y.len2)
  <2>1. l1 \in Nat /\ l2 \in Nat /\ l1 <= y.len1 /\ l2 <= y.len2
        /\ (~(y.len1 = 0 /\ y.len2 = 0) => l1 + l2 < y.len1 + y.len2)
    BY <1>1
  <2>2. \/ z = [y EXCEPT !.res = "EQ"]
        \/ z = [y EXCEPT !.s1 = one.s, !.res = "PF"]
        \/ z = [y EXCEPT !.s1 = back, !.s2 = two.s, !.res = "PF"]
        \/ /\ ~(y.len1 = 0 /\ y.len2 = 0)
           /\ z = [y EXCEPT !.s1 = one.s, !.s2 = two.s, !.len1 = l1, !.len2 = l2, !.res = next]
    BY <1>1, <1>2
  <2> HIDE DEF l1, l2
  <2> DEFINE Told(v) == /\ Same(y, v)
                        /\ v.len1 \in {y.len1, l1} /\ v.len2 \in {y.len2, l2}
                        /\ v.res \in {"RUN", "PI"} => v.len1 + v.len2 < y.len1 + y.len2
  <2>3. Told(z)
    <3>1. Told([y EXCEPT !.res = "EQ"]) BY <1>1 DEF Same, Shape, TryFields, Results
    <3>2. Told([y EXCEPT !.s1 = one.s, !.res = "PF"])
      BY <1>1 DEF Same, Shape, TryFields, Results
    <3>3. Told([y EXCEPT !.s1 = back, !.s2 = two.s, !.res = "PF"])
      BY <1>1 DEF Same, Shape, TryFields, Results
    <3>4. ASSUME ~(y.len1 = 0 /\ y.len2 = 0)
          PROVE  Told([y EXCEPT !.s1 = one.s, !.s2 = two.s, !.len1 = l1, !.len2 = l2,
                                !.res = next])
      BY <1>1, <1>3, <2>1, <3>4 DEF Same, Shape, TryFields, Results
    <3> QED BY <2>2, <3>1, <3>2, <3>3, <3>4
  <2> QED BY <2>3 DEF l1, l2
<1>5. z.op = "CMPS" /\ Rest(a, z) = z.len1 + z.len2 /\ Rest(a, y) = y.len1 + y.len2
  BY <1>4 DEF Same, Rest, ToText, ToNumber
<1>6. Counting(z) BY <1>1, <1>4, <1>5 DEF Counting, Moves, ToText, ToNumber, Bytes
<1>7. z.len1 \in Nat /\ z.len2 \in Nat BY <1>1, <1>4
<1> QED BY <1>1, <1>4, <1>5, <1>6, <1>7 DEF Onwards

\* CVTBDx: a fill byte less, or a digit.
LEMMA BinaryTurn ==
    ASSUME NEW a, NEW y, NEW gone, NEW brk \in BOOLEAN, Turning(a, y), y.op \in ToText
    PROVE  Onwards(a, y, Step(y, gone, brk))
<1> DEFINE z == Step(y, gone, brk)
<1>0. SUFFICES Onwards(a, y, z) OBVIOUS
<1>1. /\ Shape(y) /\ y.nd \in Nat /\ y.nd >= 1 /\ y.len2 \in Nat /\ y.num \in Nat /\ y.pads \in BOOLEAN
      /\ y.pads => y.nd <= y.len2
      /\ a.len1 \in Nat
  BY DEF Turning, Counting
<1>2. z = IF y.pads /\ y.len2 > y.nd THEN PadNumber(y, gone, brk)
          ELSE [DigitStep(y, gone, brk) EXCEPT !.pads = FALSE]
  BY StepFact DEF BinaryStep
<1> HIDE DEF z
<1>3. CASE y.pads /\ y.len2 > y.nd
  <2> DEFINE dst == xidpb(y.mem, gone, y.s2, y.e0[1])
             next == IF brk THEN "PI" ELSE "RUN"
  <2>1. \/ z = [y EXCEPT !.s2 = dst.s, !.res = "PF"]
        \/ z = [y EXCEPT !.mem = dst.mem, !.s2 = dst.s, !.len2 = @ - 1, !.res = next]
    BY <1>2, <1>3 DEF PadNumber
  <2>2. next \in {"PI", "RUN"} OBVIOUS
  <2> HIDE DEF dst, next
  <2> DEFINE Told(v) ==
               /\ Same(y, v) /\ v.nd = y.nd /\ v.num = y.num /\ v.pads = y.pads
               /\ v.len2 = y.len2 - 1 \/ (v.len2 = y.len2 /\ v.res = "PF")
  <2>3. Told(z)
    <3>1. Told([y EXCEPT !.s2 = dst.s, !.res = "PF"]) BY <1>1 DEF Same, Shape, TryFields, Results
    <3>2. Told([y EXCEPT !.mem = dst.mem, !.s2 = dst.s, !.len2 = @ - 1, !.res = next])
      BY <1>1, <2>2 DEF Same, Shape, TryFields, Results
    <3> QED BY <2>1, <3>1, <3>2
  <2>4. z.op = y.op BY <2>3 DEF Same
  <2>5. Rest(a, z) = a.len1 + z.len2 /\ Rest(a, y) = a.len1 + y.len2
    BY <1>3, <2>3, <2>4 DEF Rest, ToText, ToNumber
  <2>6. Counting(z) BY <1>1, <1>3, <2>3, <2>4 DEF Counting, Moves, ToText, ToNumber, Bytes
  <2> QED BY <1>1, <2>3, <2>5, <2>6 DEF Onwards
<1>4. CASE ~(y.pads /\ y.len2 > y.nd)
  <2> DEFINE unit == Power[y.nd - 1]
             dig == y.num \div unit
             dst == xidpb(y.mem, gone, y.s2, DigitByte(y, dig))
             num == IF y.nd = 1 THEN 0 ELSE y.num % unit
             next == Later(y.nd = 1, brk)
  <2>1. \/ z = [[y EXCEPT !.res = "PF"] EXCEPT !.pads = FALSE]
        \/ z = [[y EXCEPT !.s2 = dst.s, !.res = "PF"] EXCEPT !.pads = FALSE]
        \/ z = [[y EXCEPT !.mem = dst.mem, !.s2 = dst.s, !.nd = @ - 1, !.num = num, !.res = next]
                  EXCEPT !.pads = FALSE]
    BY <1>2, <1>4 DEF DigitStep
  <2>2. num \in Nat
    <3>1. y.nd - 1 \in Nat /\ unit \in Nat \ {0} BY <1>1, PowerFact
    <3> HIDE DEF unit
    <3> QED BY <1>1, <3>1
  <2>3. next \in {"PI", "RUN", "WON"} /\ (y.nd = 1 => next = "WON") BY DEF Later
  <2> HIDE DEF dst, next, num
  <2> DEFINE Told(v) ==
               /\ Same(y, v) /\ v.pads = FALSE /\ v.len2 = y.len2 /\ v.num \in {y.num, num}
               /\ (v.nd = y.nd - 1 /\ v.res = next) \/ (v.nd = y.nd /\ v.res = "PF")
  <2>4. Told(z)
    <3>1. Told([[y EXCEPT !.res = "PF"] EXCEPT !.pads = FALSE])
      BY <1>1 DEF Same, Shape, TryFields, Results
    <3>2. Told([[y EXCEPT !.s2 = dst.s, !.res = "PF"] EXCEPT !.pads = FALSE])
      BY <1>1 DEF Same, Shape, TryFields, Results
    <3>3. Told([[y EXCEPT !.mem = dst.mem, !.s2 = dst.s, !.nd = @ - 1, !.num = num, !.res = next]
                  EXCEPT !.pads = FALSE])
      BY <1>1, <2>3 DEF Same, Shape, TryFields, Results
    <3> QED BY <2>1, <3>1, <3>2, <3>3
  <2>5. z.op = y.op BY <2>4 DEF Same
  <2>6. Rest(a, z) = a.len1 + z.nd /\ Rest(a, y) >= a.len1 + y.nd
    BY <1>1, <2>4, <2>5 DEF Rest, ToText, ToNumber
  <2>7. Counting(z)
    <3>1. z.nd \in Nat /\ (z.res = "RUN" => z.nd >= 1) BY <1>1, <2>3, <2>4
    <3>2. z.len2 \in Nat /\ z.num \in Nat BY <1>1, <2>2, <2>4
    <3>3. ~z.pads /\ z.pads \in BOOLEAN BY <2>4
    <3> QED BY <2>5, <3>1, <3>2, <3>3 DEF Counting, Moves, ToText, ToNumber, Bytes
  <2>8. Rest(a, y) \in Int BY <1>1 DEF Rest, ToText, ToNumber
  <2> QED BY <1>1, <2>3, <2>4, <2>6, <2>7, <2>8 DEF Onwards
<1> QED BY <1>3, <1>4

\* CVTDBx: a byte less.
LEMMA DecimalTurn ==
    ASSUME NEW a, NEW y, NEW gone, NEW brk \in BOOLEAN, Turning(a, y), y.op \in ToNumber
    PROVE  Onwards(a, y, Step(y, gone, brk))
<1> DEFINE z == Step(y, gone, brk)
           src == xildb(y.mem, gone, y.s1)
           ent == Table[src.b]
           flags == IF y.op = "CVTDBT" THEN Coded(ent.code, y.flags) ELSE y.flags
           dig == IF y.op = "CVTDBT" THEN ent.byte ELSE src.b + Offset
           num == IF (y.op = "CVTDBT" => "S" \in flags) THEN y.num * Radix + dig ELSE y.num
           after == [y EXCEPT !.s1 = src.s, !.len1 = @ - 1, !.flags = flags]
           next == Later(y.len1 = 1, brk)
<1>0. SUFFICES Onwards(a, y, z) OBVIOUS
<1>1. Shape(y) /\ y.len1 \in Nat /\ y.len1 >= 1 /\ a.len2 \in Nat BY DEF Turning, Counting
<1>2. \/ z = [y EXCEPT !.s1 = src.s, !.res = "PF"]
      \/ z = [y EXCEPT !.s1 = xdecbp(src.s), !.res = "PF"]
      \/ z = [after EXCEPT !.res = "TRUNC"]
      \/ z = [after EXCEPT !.num = num, !.res = next]
  <2>1. z = DecimalStep(y, gone, brk) BY StepFact
  <2>2. DecimalStep(y, gone, brk) =
           IF ~src.ok THEN [y EXCEPT !.s1 = src.s, !.res = "PF"]
           ELSE IF y.op = "CVTDBT" /\ gone = Entry(src.b) THEN [y EXCEPT !.s1 = xdecbp(src.s), !.res = "PF"]
           ELSE IF \/ y.op = "CVTDBT" /\ Stops(ent.code)
                   \/ (y.op = "CVTDBT" => "S" \in flags) /\ dig \notin 0..Radix - 1
           THEN [after EXCEPT !.res = "TRUNC"]
           ELSE [after EXCEPT !.num = num, !.res = next]
    BY DEF DecimalStep
  <2> HIDE DEF z, src, ent, flags, dig, num, after, next
  <2> QED BY <2>1, <2>2
<1>3. next \in {"PI", "RUN", "WON"} /\ (y.len1 = 1 => next = "WON") BY DEF Later
<1> HIDE DEF z, src, ent, flags, num, next
<1> DEFINE Told(v) ==
             /\ Same(y, v)
             /\ (v.len1 = y.len1 - 1 /\ v.res \in {"TRUNC", next}) \/ (v.len1 = y.len1 /\ v.res = "PF")
<1>4. Told(z)
  <2>1. Told([y EXCEPT !.s1 = src.s, !.res = "PF"]) BY <1>1 DEF Same, Shape, TryFields, Results
  <2>2. Told([y EXCEPT !.s1 = xdecbp(src.s), !.res = "PF"])
    BY <1>1 DEF Same, Shape, TryFields, Results
  <2>3. Told([after EXCEPT !.res = "TRUNC"]) BY <1>1 DEF Same, Shape, TryFields, Results
  <2>4. Told([after EXCEPT !.num = num, !.res = next])
    BY <1>1, <1>3 DEF Same, Shape, TryFields, Results
  <2> QED BY <1>2, <2>1, <2>2, <2>3, <2>4
<1>5. z.op = y.op BY <1>4 DEF Same
<1>6. Rest(a, z) = z.len1 + a.len2 /\ Rest(a, y) = y.len1 + a.len2
  BY <1>5 DEF Rest, ToText, ToNumber
<1>7. Counting(z) BY <1>1, <1>3, <1>4, <1>5 DEF Counting, Moves, ToText, ToNumber, Bytes
<1> QED BY <1>1, <1>4, <1>6, <1>7 DEF Onwards

\* XBLT: a word less, up or down.
LEMMA XbltTurn ==
    ASSUME NEW a, NEW y, NEW gone, NEW brk \in BOOLEAN, Turning(a, y), y.op = "XBLT"
    PROVE  Onwards(a, y, Step(y, gone, brk))
<1> DEFINE z == Step(y, gone, brk)
           here == IF y.num < 0 THEN Stepped(y, -1) ELSE y
           c == Copied(here, y.mem[here.s1.y])
           w == IF y.num < 0 THEN c ELSE Stepped(c, 1)
           next == Later(w.num = 0, brk)
<1>0. SUFFICES Onwards(a, y, z) OBVIOUS
<1>1. Shape(y) /\ y.num \in Int /\ y.num # 0 BY DEF Turning, Counting
<1>2. z = [y EXCEPT !.res = "PF"] \/ z = [w EXCEPT !.res = next]
  BY StepFact DEF XbltStep
<1>3. DOMAIN here = TryFields /\ here.op = y.op /\ here.pattern = y.pattern /\ here.e0 = y.e0
      /\ here.num = IF y.num < 0 THEN y.num + 1 ELSE y.num
  BY <1>1 DEF Stepped, Shape, TryFields
<1> HIDE DEF here
<1>4. DOMAIN c = TryFields /\ c.op = y.op /\ c.pattern = y.pattern /\ c.e0 = y.e0 /\ c.num = here.num
  BY <1>3 DEF Copied, TryFields
<1> HIDE DEF c
<1>5. DOMAIN w = TryFields /\ w.op = y.op /\ w.pattern = y.pattern /\ w.e0 = y.e0
      /\ w.num = IF y.num < 0 THEN y.num + 1 ELSE y.num - 1
  BY <1>1, <1>3, <1>4 DEF Stepped, TryFields
<1> HIDE DEF w
<1>6. next \in {"PI", "RUN", "WON"} /\ (w.num = 0 => next = "WON") BY DEF Later
<1> HIDE DEF z, next
<1>7. /\ Same(y, z)
      /\ (z.num = w.num /\ z.res = next) \/ (z.num = y.num /\ z.res = "PF")
  BY <1>1, <1>2, <1>5, <1>6 DEF Same, Shape, TryFields, Results
<1>8. z.op = y.op BY <1>7 DEF Same
<1>9. Rest(a, z) = Magnitude(z.num) /\ Rest(a, y) = Magnitude(y.num) BY <1>8 DEF Rest, ToText, ToNumber
<1>10. Counting(z) BY <1>1, <1>5, <1>6, <1>7, <1>8 DEF Counting, Moves, ToText, ToNumber, Bytes
<1> QED BY <1>1, <1>5, <1>7, <1>9, <1>10 DEF Onwards, Magnitude

\* The byte instructions are not interrupted.
LEMMA ByteTurn ==
    ASSUME NEW a, NEW y, NEW gone, NEW brk \in BOOLEAN, Turning(a, y), y.op \in Bytes
    PROVE  Onwards(a, y, Step(y, gone, brk))
<1> DEFINE z == Step(y, gone, brk)
<1>0. SUFFICES Onwards(a, y, z) OBVIOUS
<1>1. Shape(y) /\ y.len1 \in Nat /\ y.len2 \in Nat BY DEF Turning, Counting
<1>2. z = ByteStep(y, gone) BY StepFact
<1> HIDE DEF z
<1>3. Same(y, z) /\ z.res \in {"PF", "WON"} /\ z.len1 = y.len1 /\ z.len2 = y.len2
  BY <1>1, <1>2 DEF ByteStep, Same, Shape, TryFields, Results
<1>4. z.op = y.op BY <1>3 DEF Same
<1>5. Counting(z) BY <1>1, <1>3, <1>4 DEF Counting, Moves, ToText, ToNumber, Bytes
<1> QED BY <1>3, <1>5 DEF Onwards

-----------------------------------------------------------------------------
(* EDIT                                                                    *)

\* What a command does before the next is gone on to: the place in the pattern stays.
Held(y, z) ==
    /\ Same(y, z) /\ z.at = y.at
    /\ z.res \in {y.res, "PF"}

LEMMA HeldTwice ==
    ASSUME NEW y, NEW u, NEW z, Held(y, u), Held(u, z)
    PROVE  Held(y, z)
BY DEF Held, Same

LEMMA EmitFact ==
    ASSUME NEW y, NEW gone, NEW b, Shape(y)
    PROVE  Held(y, Emit(y, gone, b)) /\ Held(y, EmitUnlessNull(y, gone, b))
<1> DEFINE dst == xidpb(y.mem, gone, y.s2, b)
           z == [y EXCEPT !.mem = dst.mem, !.s2 = dst.s, !.res = IF dst.ok THEN @ ELSE "PF"]
<1>1. Emit(y, gone, b) = z BY DEF Emit, Once
<1> HIDE DEF dst
<1>2. Held(y, z) BY DEF Held, Same, Shape, TryFields, Results
<1> HIDE DEF z
<1>3. Held(y, y) BY DEF Held, Same
<1> QED BY <1>1, <1>2, <1>3 DEF EmitUnlessNull

LEMMA SignificanceFact ==
    ASSUME NEW y, NEW gone, Shape(y)
    PROVE  Held(y, StartSignificance(y, gone))
<1> DEFINE s2 == Updated(y)
           u == [y EXCEPT !.s2 = s2, !.mark = s2.bp]
           v == EmitUnlessNull(u, gone, y.e0[2])
           w == IF v.res = "PF" THEN v ELSE [v EXCEPT !.flags = @ \cup {"S"}]
           z == StartSignificance(y, gone)
<1>1. z = IF "S" \in y.flags THEN y
          ELSE IF gone \in {FillAt(2), Mark} THEN [y EXCEPT !.res = "PF"] ELSE w
  BY DEF StartSignificance, Once
<1> HIDE DEF s2, z
<1>2. Held(y, u) BY DEF Held, Same, Shape, TryFields, Results
<1>3. Shape(u) BY <1>2 DEF Held, Same
<1> HIDE DEF u
<1>4. Held(u, v) BY <1>3, EmitFact
<1> HIDE DEF v
<1>5. Held(v, w) BY <1>4 DEF Held, Same, Shape, TryFields, Results
<1> HIDE DEF w
<1>6. Held(y, w) BY <1>2, <1>4, <1>5, HeldTwice
<1>7. Held(y, y) /\ Held(y, [y EXCEPT !.res = "PF"]) BY DEF Held, Same, Shape, TryFields, Results
<1>8. Held(y, z) BY <1>1, <1>6, <1>7
<1> QED BY <1>8 DEF z

LEMMA ExchangeFact ==
    ASSUME NEW y, NEW gone, Shape(y)
    PROVE  Held(y, Exchange(y, gone))
<1> DEFINE z == Exchange(y, gone)
           s2 == [Updated(y) EXCEPT !.bp = y.mark, !.p = y.mark.p]
<1>1. \/ z = [y EXCEPT !.s2 = Updated(y), !.res = "PF"]
      \/ z = [y EXCEPT !.s2 = Clean(y.mark), !.mark = Updated(y).bp]
      \/ z = [y EXCEPT !.s2 = s2, !.mark = Updated(y).bp, !.res = "PF"]
  BY DEF Exchange
<1> HIDE DEF z, s2
<1>2. Held(y, z) BY <1>1 DEF Held, Same, Shape, TryFields, Results
<1> QED BY <1>2 DEF z

LEMMA TranslatedFact ==
    ASSUME NEW y, NEW gone, NEW ent, Shape(y)
    PROVE  Held(y, Translated(y, gone, ent))
<1> DEFINE coded == [y EXCEPT !.flags = Coded(ent.code, @)]
           first == [y EXCEPT !.flags = Coded(ent.code, @) \ ({"S"} \ @)]
           u == StartSignificance(first, gone)
           v == Emit(u, gone, ent.byte)
           c == ent.code \in {4, 6, 7}
           z == Translated(y, gone, ent)
<1>1. z = IF c THEN IF u.res = "PF" THEN u ELSE v
          ELSE IF "S" \in y.flags THEN Emit(coded, gone, ent.byte)
          ELSE IF gone = FillAt(1) THEN [coded EXCEPT !.res = "PF"]
          ELSE EmitUnlessNull(coded, gone, y.e0[1])
  BY DEF Translated, Once
<1> HIDE DEF z, c
<1>2. Held(y, coded) /\ Held(y, first) /\ Held(coded, [coded EXCEPT !.res = "PF"])
  BY DEF Held, Same, Shape, TryFields, Results
<1>3. Shape(coded) /\ Shape(first) BY <1>2 DEF Held, Same
<1> HIDE DEF coded, first
<1>4. Held(first, u) /\ Shape(u) BY <1>3, SignificanceFact DEF Held, Same
<1> HIDE DEF u
<1>5. Held(u, v) BY <1>4, EmitFact
<1> HIDE DEF v
<1>6. /\ Held(coded, Emit(coded, gone, ent.byte))
      /\ Held(coded, EmitUnlessNull(coded, gone, y.e0[1]))
  BY <1>3, EmitFact
<1>7. Held(y, u) /\ Held(y, v) BY <1>2, <1>4, <1>5, HeldTwice
<1>8. /\ Held(y, Emit(coded, gone, ent.byte))
      /\ Held(y, EmitUnlessNull(coded, gone, y.e0[1]))
      /\ Held(y, [coded EXCEPT !.res = "PF"])
  BY <1>2, <1>6, HeldTwice
<1>9. Held(y, z) BY <1>1, <1>7, <1>8
<1> QED BY <1>9 DEF z

\* On by n commands.
Advanced(y, z, n) ==
    /\ Same(y, z) /\ z.at = y.at + n
    /\ z.res \in {"RUN", "PI", "PF"}

LEMMA OnwardFact ==
    ASSUME NEW y, NEW gone, NEW brk, NEW n, Shape(y)
    PROVE  Advanced(y, Onward(y, gone, brk, n), n)
<1> DEFINE at == y.at + n
           over == at \div PatternWord # y.at \div PatternWord
           res == IF over /\ brk THEN "PI" ELSE IF over /\ gone = PatternAt(at) THEN "PF" ELSE "RUN"
<1>1. Onward(y, gone, brk, n) = [y EXCEPT !.at = at, !.res = res] BY DEF Onward
<1>2. res \in {"RUN", "PI", "PF"} OBVIOUS
<1> HIDE DEF at, res
<1>3. Advanced(y, [y EXCEPT !.at = at, !.res = res], n)
  BY <1>2 DEF Advanced, Same, Shape, TryFields, Results, at
<1> QED BY <1>1, <1>3

\* The steps on to the next command there can be from one.
Strides(c) == {1} \cup (IF c[1] \in Skips THEN {c[2] + 2} ELSE {})

\* What a command comes to.
Obeyed(y, z) ==
    \/ Held(y, z) /\ z.res = "PF"
    \/ Same(y, z) /\ z.at = y.at + 1 /\ z.res \in {"WON", "TRUNC"}
    \/ /\ y.pattern[y.at + 1][1] # "STOP"
       /\ \E n \in Strides(y.pattern[y.at + 1]) : Advanced(y, z, n)

LEMMA HeldThenOn ==
    ASSUME NEW y, NEW u, NEW z, NEW n, Held(y, u), Advanced(u, z, n)
    PROVE  Advanced(y, z, n)
BY DEF Held, Advanced, Same

LEMMA GoingFact ==
    ASSUME NEW u, NEW gone, NEW brk
    PROVE  Going(u, gone, brk) = IF u.res = "PF" THEN u ELSE Onward(u, gone, brk, 1)
BY DEF Going, Once

\* A command that is held up, or done and the next come to.
LEMMA NextFact ==
    ASSUME NEW y, NEW u, NEW gone, NEW brk, Held(y, u), y.pattern[y.at + 1][1] # "STOP"
    PROVE  Obeyed(y, Going(u, gone, brk))
<1>0. SUFFICES Obeyed(y, IF u.res = "PF" THEN u ELSE Onward(u, gone, brk, 1)) BY GoingFact
<1> DEFINE z == Onward(u, gone, brk, 1)
<1>1. CASE u.res = "PF" BY <1>1 DEF Obeyed
<1>2. CASE u.res # "PF"
  <2>1. Shape(u) BY DEF Held, Same
  <2>2. Advanced(u, z, 1) BY <2>1, OnwardFact
  <2> HIDE DEF z
  <2>3. Advanced(y, z, 1) BY <2>2, HeldThenOn
  <2>4. 1 \in Strides(y.pattern[y.at + 1]) BY DEF Strides
  <2> HIDE DEF Advanced
  <2>5. Obeyed(y, z) BY <2>3, <2>4 DEF Obeyed
  <2> QED BY <1>2, <2>5 DEF z
<1> QED BY <1>1, <1>2

LEMMA SelectFact ==
    ASSUME NEW y, NEW gone, NEW brk, Shape(y), y.pattern[y.at + 1][1] # "STOP"
    PROVE  Obeyed(y, Select(y, gone, brk))
<1> DEFINE src == xildb(y.mem, gone, y.s1)
           undo == xdecbp(src.s)
           ent == Table[src.b]
           ended == Over([y EXCEPT !.s1 = src.s, !.flags = Coded(ent.code, @)], "TRUNC")
           u == Translated(y, gone, ent)
           v == [u EXCEPT !.s1 = src.s]
           z == Select(y, gone, brk)
<1>1. \/ z = GiveUp(y, src.s)
      \/ z = GiveUp(y, undo)
      \/ z = ended
      \/ z = IF u.res = "PF" THEN GiveUp(u, undo) ELSE Onward(v, gone, brk, 1)
  <2>1. z = Selected(y, gone, brk, src) BY DEF Select, Once
  <2>2. Selected(y, gone, brk, src) =
           IF ~src.ok THEN GiveUp(y, src.s)
           ELSE IF gone = Entry(src.b) THEN GiveUp(y, undo)
           ELSE IF Stops(ent.code) THEN ended
           ELSE IF u.res = "PF" THEN GiveUp(u, undo) ELSE Onward(v, gone, brk, 1)
    BY DEF Selected, Once
  <2> HIDE DEF z, src, undo, ent, ended, u, v
  <2> QED BY <2>1, <2>2
<1>2. Held(y, u) BY TranslatedFact
<1>3. Same(y, ended) /\ ended.at = y.at + 1 /\ ended.res = "TRUNC"
  <2> HIDE DEF src, ent
  <2> QED BY DEF Over, Same, Shape, TryFields, Results
<1> HIDE DEF z, src, undo, ent, ended, u
<1>4. Held(y, GiveUp(y, src.s)) /\ Held(y, GiveUp(y, undo))
  BY DEF GiveUp, Held, Same, Shape, TryFields, Results
<1>5. GiveUp(y, src.s).res = "PF" /\ GiveUp(y, undo).res = "PF"
  BY DEF GiveUp, Shape, TryFields
<1>6. Held(u, GiveUp(u, undo)) /\ GiveUp(u, undo).res = "PF"
  BY <1>2 DEF GiveUp, Held, Same, Shape, TryFields, Results
<1>7. Held(y, GiveUp(u, undo)) BY <1>2, <1>6, HeldTwice
<1>8. Held(u, v) /\ v.res = u.res BY <1>2 DEF Held, Same, Shape, TryFields, Results
<1>9. Held(y, v) BY <1>2, <1>8, HeldTwice
<1>10. u.res # "PF" => Obeyed(y, Onward(v, gone, brk, 1))
  <2>1. Obeyed(y, Going(v, gone, brk)) BY <1>9, NextFact
  <2> QED BY <1>8, <2>1, GoingFact
<1> HIDE DEF v
<1>11. Obeyed(y, z)
  <2>1. CASE z \in {GiveUp(y, src.s), GiveUp(y, undo)} BY <1>4, <1>5, <2>1 DEF Obeyed
  <2>2. CASE z = ended BY <1>3, <2>2 DEF Obeyed
  <2>3. CASE z = IF u.res = "PF" THEN GiveUp(u, undo) ELSE Onward(v, gone, brk, 1)
    BY <1>6, <1>7, <1>10, <2>3 DEF Obeyed
  <2> QED BY <1>1, <2>1, <2>2, <2>3
<1> QED BY <1>11 DEF z

LEMMA EditFact ==
    ASSUME NEW y, NEW gone, NEW brk, Shape(y), y.at \in Nat, y.at < Len(y.pattern),
           y.pattern \in Seq(Commands)
    PROVE  Obeyed(y, EditStep(y, gone, brk))
<1> DEFINE c == y.pattern[y.at + 1]
           insert == IF "S" \in y.flags THEN c[2] + 1 ELSE 1
           after(u) == Going(u, gone, brk)
           on(n) == Onward(y, gone, brk, n)
           stop == [y EXCEPT !.res = "PF"]
           said == IF gone = FillAt(insert) THEN stop
                   ELSE IF "S" \in y.flags THEN Emit(y, gone, y.e0[insert])
                   ELSE EmitUnlessNull(y, gone, y.e0[insert])
           off == [y EXCEPT !.flags = @ \ {"S", "N", "M"}]
           z == EditStep(y, gone, brk)
<1>1. c \in Commands
  <2>1. y.at + 1 \in 1..Len(y.pattern) OBVIOUS
  <2> QED BY <2>1
<1>2. c[1] \in {"MESSAG", "SKPM", "SKPN", "SKPA", "STOP", "SELECT", "SIGST", "FLDSEP", "EXCHMD", "NOP"}
      /\ c[2] \in 0..2
  BY <1>1 DEF Commands
<1>3. /\ c[1] = "MESSAG" => z = after(said)
      /\ c[1] = "SKPM" => z = on(IF "M" \in y.flags THEN c[2] + 2 ELSE 1)
      /\ c[1] = "SKPN" => z = on(IF "N" \in y.flags THEN c[2] + 2 ELSE 1)
      /\ c[1] = "SKPA" => z = on(c[2] + 2)
      /\ c[1] = "SELECT" => z = Select(y, gone, brk)
      /\ c[1] = "SIGST" => z = after(StartSignificance(y, gone))
      /\ c[1] = "FLDSEP" => z = after(off)
      /\ c[1] = "EXCHMD" => z = after(Exchange(y, gone))
      /\ c[1] = "NOP" => z = after(y)
      /\ c[1] = "STOP" => z = Over(y, "WON")
  BY DEF EditStep
<1>4. Held(y, y) /\ Held(y, stop) /\ Held(y, off)
  BY DEF Held, Same, Shape, TryFields, Results
<1>5. Held(y, said) BY <1>4, EmitFact
<1>6. Held(y, StartSignificance(y, gone)) /\ Held(y, Exchange(y, gone))
  BY SignificanceFact, ExchangeFact
<1>7. ASSUME NEW u, Held(y, u), c[1] # "STOP" PROVE Obeyed(y, after(u))
  BY <1>7, NextFact
<1>8. ASSUME NEW n \in {1, c[2] + 2}, c[1] \in Skips PROVE Obeyed(y, on(n))
  <2>1. n \in Strides(c) BY <1>8 DEF Strides
  <2>2. Advanced(y, Onward(y, gone, brk, n), n) BY OnwardFact
  <2>3. c[1] # "STOP" BY <1>8 DEF Skips
  <2> HIDE DEF Advanced
  <2> QED BY <2>1, <2>2, <2>3 DEF Obeyed
<1>9. c[1] = "STOP" => Obeyed(y, z)
  <2>1. Same(y, Over(y, "WON")) /\ Over(y, "WON").at = y.at + 1 /\ Over(y, "WON").res = "WON"
    BY DEF Over, Same, Shape, TryFields, Results
  <2> HIDE DEF z
  <2> QED BY <1>3, <2>1 DEF Obeyed
<1>10. c[1] = "SELECT" => Obeyed(y, z)
  <2> HIDE DEF z
  <2> QED BY <1>3, SelectFact
<1> HIDE DEF z, said, off, after, on
<1>11. c[1] \in Skips => Obeyed(y, z)
  <2>1. c[1] = "SKPM" => Obeyed(y, z) BY <1>3, <1>8 DEF Skips
  <2>2. c[1] = "SKPN" => Obeyed(y, z) BY <1>3, <1>8 DEF Skips
  <2>3. c[1] = "SKPA" => Obeyed(y, z) BY <1>3, <1>8 DEF Skips
  <2> QED BY <2>1, <2>2, <2>3 DEF Skips
<1>12. c[1] \in {"MESSAG", "SIGST", "FLDSEP", "EXCHMD", "NOP"} => Obeyed(y, z)
  BY <1>3, <1>4, <1>5, <1>6, <1>7
<1>13. Obeyed(y, z) BY <1>2, <1>9, <1>10, <1>11, <1>12 DEF Skips
<1> QED BY <1>13 DEF z

\* EDIT goes on to a later command, of which the pattern has one.
LEMMA EditTurn ==
    ASSUME NEW a, NEW y, NEW gone, NEW brk \in BOOLEAN, Turning(a, y), y.op = "EDIT",
           begun \in Starts, op = "EDIT", y.pattern = begun.pattern
    PROVE  Onwards(a, y, Step(y, gone, brk))
<1> DEFINE z == Step(y, gone, brk)
           c == y.pattern[y.at + 1]
<1>0. SUFFICES Onwards(a, y, z) OBVIOUS
<1>1. Shape(y) /\ y.at \in Nat /\ y.at < Len(y.pattern) BY DEF Turning, Counting, Ongoing
<1>2. y.pattern \in Seq(Commands) BY StartsAssumption
<1>3. Obeyed(y, z) BY <1>1, <1>2, StepFact, EditFact
<1> HIDE DEF z
<1>4. y.at + 1 \in 1..Len(y.pattern) BY <1>1, <1>2
<1>5. c \in Commands BY <1>2, <1>4
<1>6. c[2] \in Nat BY <1>5 DEF Commands
<1>7. c[1] # "STOP" =>
          (y.at + 1) + (IF c[1] \in Skips THEN c[2] + 2 ELSE 1) <= Len(y.pattern)
  BY <1>4, PatternsAssumption DEF op
<1>8. c[1] # "STOP" => \A n \in Strides(c) : n \in Nat \ {0} /\ y.at + n < Len(y.pattern)
    <2>1. c[1] # "STOP" => y.at + 1 < Len(y.pattern) BY <1>1, <1>2, <1>6, <1>7
  <2>2. c[1] # "STOP" /\ c[1] \in Skips => y.at + (c[2] + 2) < Len(y.pattern) BY <1>1, <1>2, <1>6, <1>7
  <2>3. c[2] + 2 \in Nat \ {0} BY <1>6
  <2> HIDE DEF c
  <2> QED BY <2>1, <2>2, <2>3 DEF Strides
<1>9. /\ Same(y, z) /\ z.at \in Nat
      /\ Ongoing(z) => z.at < Len(y.pattern)
      /\ z.res = "RUN" => z.at >= y.at
      /\ z.res = "PI" => z.at > y.at
  <2>1. CASE Held(y, z) /\ z.res = "PF" BY <1>1, <2>1 DEF Held
  <2>2. CASE Same(y, z) /\ z.at = y.at + 1 /\ z.res \in {"WON", "TRUNC"}
    BY <1>1, <2>2 DEF Ongoing
  <2>3. ASSUME c[1] # "STOP", NEW n \in Strides(c), Advanced(y, z, n)
        PROVE  /\ Same(y, z) /\ z.at \in Nat /\ z.at < Len(y.pattern) /\ z.at > y.at
    <3>1. n \in Nat \ {0} /\ y.at + n < Len(y.pattern) BY <1>8, <2>3
    <3> QED BY <1>1, <2>3, <3>1 DEF Advanced
  <2> HIDE DEF c
  <2>4. CASE c[1] # "STOP" /\ \E n \in Strides(c) : Advanced(y, z, n) BY <1>1, <2>3, <2>4
  <2> QED BY <1>3, <2>1, <2>2, <2>4 DEF Obeyed, c
<1>10. z.op = "EDIT" /\ z.pattern = y.pattern BY <1>9 DEF Same
<1>11. Rest(a, z) = Len(y.pattern) - z.at /\ Rest(a, y) = Len(y.pattern) - y.at
  BY <1>10 DEF Rest, ToText, ToNumber
<1>12. Counting(z) BY <1>9, <1>10 DEF Counting, Moves, ToText, ToNumber, Bytes
<1> QED BY <1>1, <1>2, <1>9, <1>11, <1>12 DEF Onwards

\* The instructions of which a try has turns that an interrupt ends.
Tried == Ops \ {"BLT", "IBP", "ADJBP"}

\* Whatever the instruction.
LEMMA AnyTurn ==
    ASSUME NEW a, NEW y, NEW gone, NEW brk \in BOOLEAN, Turning(a, y), y.op = op, op \in Tried,
           begun \in Starts, y.pattern = begun.pattern
    PROVE  Onwards(a, y, Step(y, gone, brk))
<1>1. y.op \in Moves \cup ToText \cup ToNumber \cup {"CMPS", "EDIT", "XBLT"} \cup Bytes
  BY DEF Ops, Tried
<1> QED BY <1>1, MoveTurn, CompareTurn, BinaryTurn, DecimalTurn, EditTurn, XbltTurn, ByteTurn

-----------------------------------------------------------------------------
(* From try to try                                                         *)

\* The ACs an instruction that has not ended can be tried from.
Able(a) ==
    /\ DOMAIN a = AcFields /\ a.len1 \in Nat /\ a.len2 \in Nat
    /\ op \in ToText \cup {"XBLT"} => a.num \in Int
    /\ op = "EDIT" => a.at \in Nat /\ a.at < Len(begun.pattern)

\* A try from them.
Under(a, y) ==
    /\ Shape(y) /\ y.op = op /\ op \in Tried /\ y.pattern = begun.pattern /\ Counting(y)
    /\ y.res = "RUN" => Rest(a, y) <= ToDo(a)
    /\ y.res = "PI" => Rest(a, y) < ToDo(a)

PInv ==
    /\ begun \in Starts
    /\ op # "BLT" =>
          /\ out = "" => Able(ac)
          /\ x = Idle \/ (out = "" /\ Under(ac, x))

\* What is left to do is a number.
LEMMA RestFact ==
    ASSUME NEW a, NEW y, begun \in Starts, Able(a), Shape(y), y.op = op, op \in Tried,
           y.pattern = begun.pattern, Counting(y)
    PROVE  Rest(a, y) \in Int /\ ToDo(a) \in Int
<1>1. op \in Moves \cup ToText \cup ToNumber \cup {"CMPS", "EDIT", "XBLT"} \cup Bytes
  BY DEF Ops, Tried
<1>2. a.len1 \in Nat /\ a.len2 \in Nat BY DEF Able
<1>3. op = "EDIT" => Rest(a, y) = Len(begun.pattern) - y.at /\ ToDo(a) = Len(begun.pattern) - a.at
  BY DEF Rest, ToDo, ToText, ToNumber
<1>4. op = "EDIT" => /\ Len(begun.pattern) \in Nat /\ a.at \in Nat /\ y.at \in Nat
  BY StartsAssumption DEF Able, Counting
<1>5. op = "XBLT" => Rest(a, y) = Magnitude(y.num) /\ ToDo(a) = Magnitude(a.num)
  BY DEF Rest, ToDo, ToText, ToNumber
<1>6. op = "XBLT" => y.num \in Int /\ a.num \in Int BY DEF Able, Counting
<1>7. op \notin {"EDIT", "XBLT"} => ToDo(a) = a.len1 + a.len2 BY DEF ToDo
<1>8. op \in ToText => /\ Rest(a, y) = a.len1 + (IF y.pads THEN y.len2 ELSE y.nd)
                       /\ y.len2 \in Nat /\ y.nd \in Nat
  BY DEF Rest, ToText, ToNumber, Counting
<1>9. op \in ToNumber => Rest(a, y) = y.len1 + a.len2 /\ y.len1 \in Nat
  BY DEF Rest, ToText, ToNumber, Counting
<1>10. op \in Moves \cup {"CMPS"} \cup Bytes =>
          Rest(a, y) = y.len1 + y.len2 /\ y.len1 \in Nat /\ y.len2 \in Nat
  BY DEF Rest, ToText, ToNumber, Moves, Bytes, Counting
<1>11. op = "EDIT" => Rest(a, y) \in Int /\ ToDo(a) \in Int BY <1>3, <1>4
<1>12. op = "XBLT" => Rest(a, y) \in Int /\ ToDo(a) \in Int BY <1>5, <1>6 DEF Magnitude
<1>13. op \notin {"EDIT", "XBLT"} => Rest(a, y) \in Int /\ ToDo(a) \in Int
  <2>1. op \notin {"EDIT", "XBLT"} => ToDo(a) \in Int BY <1>2, <1>7
  <2>2. op \in ToText => Rest(a, y) \in Int
    <3>1. (IF y.pads THEN y.len2 ELSE y.nd) \in Nat \/ op \notin ToText BY <1>8
    <3> QED BY <1>2, <1>8, <3>1
  <2>3. op \in ToNumber => Rest(a, y) \in Int BY <1>2, <1>9
  <2>4. op \in Moves \cup {"CMPS"} \cup Bytes => Rest(a, y) \in Int BY <1>10
  <2> QED BY <1>1, <2>1, <2>2, <2>3, <2>4
<1> QED BY <1>11, <1>12, <1>13

\* A turn keeps what is left within what was to do.
LEMMA TurnGoesOn ==
    ASSUME NEW gone, NEW brk \in BOOLEAN, PInv, op # "BLT", x # Idle, x.res = "RUN"
    PROVE  Under(ac, Step(x, gone, brk))
<1> DEFINE z == Step(x, gone, brk)
<1>1. begun \in Starts /\ Able(ac) /\ Under(ac, x) BY DEF PInv
<1>2. op \in Tried /\ x.op = op /\ x.pattern = begun.pattern /\ Shape(x) /\ Counting(x)
  BY <1>1 DEF Under
<1>3. Turning(ac, x) BY <1>1, <1>2 DEF Turning, Able
<1>4. Onwards(ac, x, z) BY <1>1, <1>2, <1>3, AnyTurn
<1>5. Rest(ac, x) <= ToDo(ac) BY <1>1 DEF Under
<1> HIDE DEF z
<1>6. Shape(z) /\ z.op = op /\ z.pattern = begun.pattern /\ Counting(z)
  BY <1>2, <1>4 DEF Onwards, Same
<1>7. Rest(ac, x) \in Int /\ ToDo(ac) \in Int /\ Rest(ac, z) \in Int
  BY <1>1, <1>2, <1>6, RestFact
<1>8. /\ z.res = "RUN" => Rest(ac, z) <= ToDo(ac)
      /\ z.res = "PI" => Rest(ac, z) < ToDo(ac)
  BY <1>4, <1>5, <1>7 DEF Onwards
<1>9. Under(ac, z) BY <1>2, <1>6, <1>8 DEF Under
<1> QED BY <1>9 DEF z

\* What a trapped try stores can be tried from, and asks for what was left.
LEMMA StoredFact ==
    ASSUME PInv, op # "BLT", x # Idle, Trapped(x)
    PROVE  Able(Stored(x)) /\ (x.res = "PI" => ToDo(Stored(x)) = Rest(ac, x))
<1> DEFINE z == Stored(x)
           bp1 == xbpupdate(x.s1)
           bp2 == xbpupdate(x.s2)
<1>0. SUFFICES Able(z) /\ (x.res = "PI" => ToDo(z) = Rest(ac, x)) OBVIOUS
<1>1. /\ begun \in Starts /\ Able(ac) /\ Under(ac, x)
      /\ op \in Tried /\ x.op = op /\ x.pattern = begun.pattern /\ Shape(x) /\ Counting(x)
  BY DEF PInv, Under
<1>2. DOMAIN ac = AcFields /\ ac.len1 \in Nat /\ ac.len2 \in Nat BY <1>1 DEF Able
<1>3. Ongoing(x) /\ x.res # "WON" BY DEF Trapped, Ongoing
<1>4. CASE op \in ToText
  <2>1. z = [ac EXCEPT !.flags = x.flags, !.bp2 = bp2, !.len2 = IF x.pads THEN x.len2 ELSE x.nd,
                       !.num = IF x.pads THEN @ ELSE x.num]
    BY <1>1, <1>4 DEF Stored, Trapped, ToText, ToNumber, Bytes
  <2>2. x.nd \in Nat /\ x.len2 \in Nat /\ x.num \in Nat /\ ac.num \in Int
    BY <1>1, <1>4 DEF Counting, Able
  <2> HIDE DEF z, bp1, bp2
  <2>3. /\ DOMAIN z = AcFields /\ z.len1 = ac.len1
        /\ z.len2 = (IF x.pads THEN x.len2 ELSE x.nd)
        /\ z.num = (IF x.pads THEN ac.num ELSE x.num)
    BY <1>2, <2>1 DEF AcFields
  <2>4. z.len1 \in Nat /\ z.len2 \in Nat /\ z.num \in Int BY <1>2, <2>2, <2>3
  <2>5. ToDo(z) = ac.len1 + (IF x.pads THEN x.len2 ELSE x.nd) BY <1>4, <2>3 DEF ToDo, ToText
  <2>6. Rest(ac, x) = ac.len1 + (IF x.pads THEN x.len2 ELSE x.nd) BY <1>1, <1>4 DEF Rest, ToText, ToNumber
  <2> QED BY <1>4, <2>3, <2>4, <2>5, <2>6 DEF Able, ToText
<1>5. CASE op \in ToNumber
  <2>1. z = [ac EXCEPT !.flags = x.flags, !.bp1 = bp1, !.len1 = x.len1, !.num = x.num]
    BY <1>1, <1>3, <1>5 DEF Stored, ToText, ToNumber, Bytes
  <2>2. x.len1 \in Nat BY <1>1, <1>5 DEF Counting
  <2> HIDE DEF z, bp1, bp2
  <2>3. DOMAIN z = AcFields /\ z.len1 = x.len1 /\ z.len2 = ac.len2 BY <1>2, <2>1 DEF AcFields
  <2>4. ToDo(z) = x.len1 + ac.len2 BY <1>5, <2>3 DEF ToDo, ToNumber
  <2>5. Rest(ac, x) = x.len1 + ac.len2 BY <1>1, <1>5 DEF Rest, ToText, ToNumber
  <2> QED BY <1>2, <1>5, <2>2, <2>3, <2>4, <2>5 DEF Able, ToText, ToNumber
<1>6. CASE op = "EDIT"
  <2>1. z = [ac EXCEPT !.flags = x.flags, !.bp1 = bp1, !.bp2 = bp2, !.at = x.at, !.mark = x.mark]
    BY <1>1, <1>6 DEF Stored, ToText, ToNumber, Bytes
  <2>2. x.at \in Nat /\ x.at < Len(begun.pattern) BY <1>1, <1>3, <1>6 DEF Counting
  <2> HIDE DEF z, bp1, bp2
  <2>3. DOMAIN z = AcFields /\ z.len1 = ac.len1 /\ z.len2 = ac.len2 /\ z.at = x.at
    BY <1>2, <2>1 DEF AcFields
  <2>4. ToDo(z) = Len(begun.pattern) - x.at /\ Rest(ac, x) = Len(begun.pattern) - x.at
    BY <1>1, <1>6, <2>3 DEF ToDo, Rest, ToText, ToNumber
  <2> QED BY <1>2, <1>6, <2>2, <2>3, <2>4 DEF Able, ToText
<1>7. CASE op = "XBLT"
  <2>1. z = [ac EXCEPT !.bp1.y = x.s1.y, !.bp2.y = x.s2.y, !.num = x.num]
    BY <1>1, <1>7 DEF Stored, ToText, ToNumber, Bytes
  <2>2. x.num \in Int BY <1>1, <1>7 DEF Counting
  <2> HIDE DEF z, bp1, bp2
  <2>3. DOMAIN z = AcFields /\ z.len1 = ac.len1 /\ z.len2 = ac.len2 /\ z.num = x.num
    BY <1>2, <2>1 DEF AcFields
  <2>4. ToDo(z) = Magnitude(x.num) /\ Rest(ac, x) = Magnitude(x.num)
    BY <1>1, <1>7, <2>3 DEF ToDo, Rest, ToText, ToNumber
  <2> QED BY <1>2, <1>7, <2>2, <2>3, <2>4 DEF Able, ToText
<1>8. CASE op \in Bytes
  <2>1. z = [ac EXCEPT !.flags = x.flags, !.num = x.num]
    BY <1>1, <1>8 DEF Stored, ToText, ToNumber, Bytes
  <2> HIDE DEF z, bp1, bp2
  <2>2. DOMAIN z = AcFields /\ z.len1 = ac.len1 /\ z.len2 = ac.len2 BY <1>2, <2>1 DEF AcFields
  <2>3. x.res # "PI" BY <1>1, <1>8 DEF Counting
  <2> QED BY <1>2, <1>8, <2>2, <2>3 DEF Able, ToText, Bytes
<1>9. CASE op \in Moves \cup {"CMPS"}
  <2>1. z = [ac EXCEPT !.flags = x.flags, !.bp1 = bp1, !.bp2 = bp2, !.len1 = x.len1, !.len2 = x.len2]
    BY <1>1, <1>9 DEF Stored, ToText, ToNumber, Moves, Bytes
  <2>2. x.len1 \in Nat /\ x.len2 \in Nat BY <1>1, <1>9 DEF Counting
  <2> HIDE DEF z, bp1, bp2
  <2>3. DOMAIN z = AcFields /\ z.len1 = x.len1 /\ z.len2 = x.len2 BY <1>2, <2>1 DEF AcFields
  <2>4. ToDo(z) = x.len1 + x.len2 /\ Rest(ac, x) = x.len1 + x.len2
    BY <1>1, <1>9, <2>3 DEF ToDo, Rest, ToText, ToNumber, Moves
  <2> QED BY <1>9, <2>2, <2>3, <2>4 DEF Able, ToText, Moves
<1> QED BY <1>1, <1>4, <1>5, <1>6, <1>7, <1>8, <1>9 DEF Tried, Ops

\* What a step leaves when the invariant goes on.
Kept ==
    /\ begun' = begun
    /\ out' = "" => Able(ac')
    /\ x' = Idle \/ (out' = "" /\ Under(ac', x'))

LEMMA KeptFact ==
    ASSUME PInv, op # "BLT", Kept
    PROVE  PInv'
<1>1. begun' = begun /\ op' = op /\ begun \in Starts BY DEF Kept, PInv, op
<1>2. Able(ac)' <=> Able(ac') BY <1>1 DEF Able
<1>3. Under(ac, x)' <=> Under(ac', x')
  <2>1. ToDo(ac)' = ToDo(ac') BY <1>1 DEF ToDo
  <2> HIDE DEF ToDo
  <2> QED BY <1>1, <2>1 DEF Under, Shape, Counting, Ongoing, Rest
<1>4. Idle' = Idle BY DEF Idle
<1> QED BY <1>1, <1>2, <1>3, <1>4 DEF Kept, PInv

\* There is something to do.
Some(num) ==
    /\ op \in Moves => ac.len2 # 0
    /\ op = "XBLT" => ac.num # 0 /\ num = ac.num
    /\ op \in ToNumber => ac.len1 # 0

\* A try that begins as the ACs say.
LEMMA BeginFact ==
    ASSUME NEW flags, NEW num, begun \in Starts, Able(ac),
           op \in Tried \ (ToText \cup {"MOVSRJ"}), Some(num)
    PROVE  Under(ac, Fresh(flags, num))
<1> DEFINE y == Fresh(flags, num)
<1>0. SUFFICES Under(ac, y) OBVIOUS
<1>1. /\ Shape(y) /\ y.op = op /\ y.pattern = begun.pattern /\ y.res = "RUN" /\ y.num = num
      /\ y.at = ac.at /\ y.len1 = ac.len1 /\ y.len2 = ac.len2
  BY DEF Fresh, Shape, TryFields, Results
<1> HIDE DEF y
<1>2. begun \in Starts /\ Able(ac) /\ op \in Tried OBVIOUS
<1>3. ac.len1 \in Nat /\ ac.len2 \in Nat BY <1>2 DEF Able
<1>4. Counting(y)
  <2>1. op \in Moves \cup {"CMPS"} \cup Bytes => y.len1 \in Nat /\ y.len2 \in Nat BY <1>1, <1>3
  <2>2. op \in Moves => y.len2 >= 1 BY <1>1, <1>3 DEF Some
  <2>3. op \in ToNumber => y.len1 \in Nat /\ y.len1 >= 1 BY <1>1, <1>3 DEF Some
  <2>4. op = "EDIT" => y.at \in Nat /\ y.at < Len(y.pattern) BY <1>1, <1>2 DEF Able
  <2>5. op = "XBLT" => y.num \in Int /\ y.num # 0 BY <1>1, <1>2 DEF Able, Some
  <2>6. op \notin ToText /\ op # "MOVSRJ" OBVIOUS
  <2> QED BY <1>1, <2>1, <2>2, <2>3, <2>4, <2>5, <2>6 DEF Counting
<1>5. Rest(ac, y) \in Int /\ ToDo(ac) \in Int BY <1>1, <1>2, <1>4, RestFact
<1>6. Rest(ac, y) = ToDo(ac)
  <2>1. op = "EDIT" => Rest(ac, y) = ToDo(ac) BY <1>1 DEF Rest, ToDo, ToText, ToNumber
  <2>2. op = "XBLT" => Rest(ac, y) = ToDo(ac) BY <1>1 DEF Some, Rest, ToDo, ToText, ToNumber
  <2>3. op \in ToNumber => Rest(ac, y) = ToDo(ac) BY <1>1 DEF Rest, ToDo, ToText, ToNumber
  <2>4. op \notin ToNumber \cup ToText \cup {"EDIT", "XBLT"} => Rest(ac, y) = ToDo(ac)
    BY <1>1 DEF Rest, ToDo, ToText, ToNumber
  <2> QED BY <2>1, <2>2, <2>3, <2>4
<1>7. Rest(ac, y) <= ToDo(ac) BY <1>5, <1>6
<1>8. y.res = "RUN" /\ y.res # "PI" BY <1>1
<1> QED BY <1>1, <1>2, <1>4, <1>7, <1>8 DEF Under

LEMMA IdleFact ==
    ASSUME PInv, op # "BLT", out = "", x = Idle
    PROVE  /\ UNCHANGED vars => Kept
           /\ begun' = begun /\ x' = x /\ out' # "" => Kept
           /\ begun' = begun /\ x' = x /\ Able(ac') => Kept
           /\ begun' = begun /\ out' = out /\ Able(ac') /\ Under(ac', x') => Kept
BY DEF Kept, PInv, vars

\* Each way to begin, with the ACs as an instruction that has not ended may find them.
Begun == PInv /\ op # "BLT" /\ out = "" /\ x = Idle

LEMMA BeginMoveKeeps ==
    ASSUME NEW gone, Begun, BeginMove(gone)
    PROVE  Kept
<1> DEFINE y == Fresh(ac.flags, 0)
           z == RightJustified(y, gone)
<1>1. begun \in Starts /\ Able(ac) BY DEF Begun, PInv
<1>2. op \in Moves /\ op \in Tried BY <1>1, StartsAssumption DEF BeginMove, Tried, Moves, Ops
<1>3. CASE Fails BY <1>3, IdleFact DEF Fails, Begun
<1>4. ASSUME NEW how \in {"WON", "TRUNC"}, Ends(how) PROVE Kept
  <2>1. out' # "" BY <1>4 DEF Ends
  <2> QED BY <1>4, <2>1, IdleFact DEF Ends, Begun
<1>5. CASE ac.len2 > 0 /\ op # "MOVSRJ" /\ Goes(y) /\ ac' = ac
  <2>1. Some(0) BY <1>1, <1>2, <1>5 DEF Some, Able, Moves, ToNumber
  <2>2. op \in Tried \ (ToText \cup {"MOVSRJ"}) BY <1>2, <1>5 DEF Moves, ToText
  <2>3. Under(ac, y) BY <1>1, <2>1, <2>2, BeginFact
  <2> HIDE DEF y
  <2> QED BY <1>1, <1>5, <2>3, IdleFact DEF Goes, Begun
<1>6. CASE ac.len2 > 0 /\ op = "MOVSRJ" /\ Goes(z) /\ ac' = ac
  <2> DEFINE s == xadjbp(y.s1, gone, y.len1 - y.len2)
  <2>1. z = IF y.len1 > y.len2
            THEN [y EXCEPT !.s1 = s.s, !.len1 = y.len2, !.res = IF s.ok THEN "RUN" ELSE "PF"]
            ELSE y
    BY DEF RightJustified
  <2>2. /\ Shape(y) /\ y.op = op /\ y.pattern = begun.pattern /\ y.res = "RUN"
        /\ y.len1 = ac.len1 /\ y.len2 = ac.len2
    BY DEF Fresh, Shape, TryFields, Results
  <2>3. ac.len1 \in Nat /\ ac.len2 \in Nat BY <1>1 DEF Able
  <2> HIDE DEF y, z, s
  <2>4. /\ Shape(z) /\ z.op = op /\ z.pattern = begun.pattern /\ z.res \in {"RUN", "PF"}
        /\ z.len1 \in Nat /\ z.len2 \in Nat /\ z.len2 = ac.len2 /\ z.len1 <= z.len2
        /\ z.len1 <= ac.len1
    BY <2>1, <2>2, <2>3 DEF Shape, TryFields, Results
  <2>5. Counting(z) BY <1>6, <2>3, <2>4 DEF Counting, Moves, ToText, ToNumber, Bytes
  <2>6. Rest(ac, z) = z.len1 + z.len2 /\ ToDo(ac) = ac.len1 + ac.len2
    BY <1>6, <2>4 DEF Rest, ToDo, ToText, ToNumber
  <2>7. Rest(ac, z) <= ToDo(ac) BY <2>3, <2>4, <2>6
  <2>8. z.res # "PI" BY <2>4
  <2>9. Under(ac, z) BY <1>2, <2>4, <2>5, <2>7, <2>8 DEF Under
  <2> QED BY <1>1, <1>6, <2>9, IdleFact DEF Goes, Begun
<1> QED BY <1>3, <1>4, <1>5, <1>6 DEF BeginMove

LEMMA BeginCompareKeeps ==
    ASSUME NEW gone, Begun, BeginCompare(gone)
    PROVE  Kept
<1> DEFINE y == Fresh(ac.flags, 0)
<1>1. begun \in Starts /\ Able(ac) BY DEF Begun, PInv
<1>2. op = "CMPS" BY DEF BeginCompare
<1>3. Under(ac, y)
  <2>1. Some(0) BY <1>2 DEF Some, Moves, ToNumber
  <2>2. op \in Tried \ (ToText \cup {"MOVSRJ"}) BY <1>2 DEF Tried, Ops, ToText
  <2> QED BY <1>1, <2>1, <2>2, BeginFact
<1>4. Fails \/ (Goes(y) /\ ac' = ac) BY DEF BeginCompare
<1> HIDE DEF y
<1>5. CASE Fails BY <1>5, IdleFact DEF Fails, Begun
<1>6. CASE Goes(y) /\ ac' = ac BY <1>1, <1>3, <1>6, IdleFact DEF Goes, Begun
<1> QED BY <1>4, <1>5, <1>6

LEMMA BeginEditKeeps ==
    ASSUME NEW gone, Begun, BeginEdit(gone)
    PROVE  Kept
<1> DEFINE y == Fresh(ac.flags, 0)
<1>1. begun \in Starts /\ Able(ac) BY DEF Begun, PInv
<1>2. op = "EDIT" BY DEF BeginEdit
<1>3. Under(ac, y)
  <2>1. Some(0) BY <1>2 DEF Some, Moves, ToNumber
  <2>2. op \in Tried \ (ToText \cup {"MOVSRJ"}) BY <1>2 DEF Tried, Ops, ToText
  <2> QED BY <1>1, <2>1, <2>2, BeginFact
<1>4. Fails \/ (Goes(y) /\ ac' = ac) BY DEF BeginEdit
<1> HIDE DEF y
<1>5. CASE Fails BY <1>5, IdleFact DEF Fails, Begun
<1>6. CASE Goes(y) /\ ac' = ac BY <1>1, <1>3, <1>6, IdleFact DEF Goes, Begun
<1> QED BY <1>4, <1>5, <1>6

LEMMA BeginBlockKeeps ==
    ASSUME NEW gone, Begun, BeginBlock(gone)
    PROVE  Kept
<1> DEFINE y == Fresh(ac.flags, ac.num)
<1>1. begun \in Starts /\ Able(ac) BY DEF Begun, PInv
<1>2. op = "XBLT" BY DEF BeginBlock, Begun
<1>3. ac.num # 0 => Under(ac, y)
  <2>1. ac.num # 0 => Some(ac.num) BY <1>2 DEF Some, Moves, ToNumber
  <2>2. op \in Tried \ (ToText \cup {"MOVSRJ"}) BY <1>2 DEF Tried, Ops, ToText
  <2> QED BY <1>1, <2>1, <2>2, BeginFact
<1>4. \/ Ends("WON") /\ ac' = ac
      \/ ac.num # 0 /\ Goes(y) /\ ac' = ac
  BY <1>2 DEF BeginBlock
<1> HIDE DEF y
<1>5. CASE Ends("WON")
  <2>1. out' # "" BY <1>5 DEF Ends
  <2> QED BY <1>5, <2>1, IdleFact DEF Ends, Begun
<1>6. CASE ac.num # 0 /\ Goes(y) /\ ac' = ac BY <1>1, <1>3, <1>6, IdleFact DEF Goes, Begun
<1> QED BY <1>4, <1>5, <1>6

LEMMA BeginPointerKeeps ==
    ASSUME NEW gone, Begun, BeginPointer(gone)
    PROVE  Kept
<1>1. Fails \/ Ends("WON") BY DEF BeginPointer
<1>2. CASE Fails BY <1>2, IdleFact DEF Fails, Begun
<1>3. CASE Ends("WON")
  <2>1. out' # "" BY <1>3 DEF Ends
  <2> QED BY <1>3, <2>1, IdleFact DEF Ends, Begun
<1> QED BY <1>1, <1>2, <1>3

LEMMA BeginToTextKeeps ==
    ASSUME NEW gone, Begun, BeginToText(gone)
    PROVE  Kept
<1> DEFINE flags == Signed(ac.num, ac.flags)
           nd == DigitCount(Magnitude(ac.num))
           pads == ac.len2 > nd /\ "S" \in flags
           y == [Fresh(flags, Magnitude(ac.num)) EXCEPT !.nd = nd, !.pads = pads]
<1>1. begun \in Starts /\ Able(ac) BY DEF Begun, PInv
<1>2. op \in ToText /\ op \in Tried BY DEF BeginToText, Tried, ToText, Ops
<1>3. /\ ac' = [ac EXCEPT !.flags = flags]
      /\ \/ Ends("TRUNC")
         \/ UNCHANGED <<begun, mem, x, out>>
         \/ nd <= ac.len2 /\ Goes(y)
  <2>1. nd \in Nat
    <3>1. ac.num \in Int BY <1>1, <1>2 DEF Able
    <3>2. Magnitude(ac.num) \in Nat BY <3>1 DEF Magnitude
    <3> QED BY <3>2, DigitFact
  <2>2. ac.len2 \in Nat BY <1>1 DEF Able
  <2>3. /\ ac' = [ac EXCEPT !.flags = flags]
        /\ Ends("TRUNC") \/ UNCHANGED <<begun, mem, x, out>> \/ (~(nd > ac.len2) /\ Goes(y))
    BY DEF BeginToText
  <2> HIDE DEF flags, nd, y
  <2> QED BY <2>1, <2>2, <2>3
<1>4. ac.len1 \in Nat /\ ac.len2 \in Nat /\ ac.num \in Int /\ DOMAIN ac = AcFields
  BY <1>1, <1>2 DEF Able
<1>5. Magnitude(ac.num) \in Nat BY <1>4 DEF Magnitude
<1>6. nd \in Nat \ {0} BY <1>5, DigitFact
<1>7. pads \in BOOLEAN /\ (pads => nd <= ac.len2) BY <1>4, <1>6
<1>8. /\ Shape(y) /\ y.op = op /\ y.pattern = begun.pattern /\ y.res = "RUN"
      /\ y.nd = nd /\ y.pads = pads /\ y.num = Magnitude(ac.num) /\ y.len2 = ac.len2
  <2> HIDE DEF nd, pads, flags
  <2> QED BY DEF Fresh, Shape, TryFields, Results
<1> HIDE DEF flags, nd, pads, y
<1>9. /\ DOMAIN ac' = AcFields /\ ac'.len1 = ac.len1 /\ ac'.len2 = ac.len2 /\ ac'.num = ac.num
  BY <1>3, <1>4 DEF AcFields
<1>10. Able(ac')
  <2>1. ac'.len1 \in Nat /\ ac'.len2 \in Nat /\ ac'.num \in Int BY <1>4, <1>9
  <2> QED BY <1>2, <1>9, <2>1 DEF Able, ToText
<1>11. CASE Ends("TRUNC")
  <2>1. out' # "" BY <1>11 DEF Ends
  <2> QED BY <1>11, <2>1, IdleFact DEF Ends, Begun
<1>12. CASE UNCHANGED <<begun, mem, x, out>> BY <1>10, <1>12, IdleFact DEF Begun
<1>13. CASE nd <= ac.len2 /\ Goes(y)
  <2>1. Counting(y)
    <3>1. y.nd \in Nat /\ y.nd >= 1 /\ y.len2 \in Nat /\ y.num \in Nat BY <1>4, <1>5, <1>6, <1>8
    <3>2. y.pads \in BOOLEAN /\ (y.pads => y.nd <= y.len2) BY <1>7, <1>8, Zenon
    <3> QED BY <1>2, <1>8, <3>1, <3>2 DEF Counting, Moves, ToText, ToNumber, Bytes
  <2>2. Rest(ac', y) = ac.len1 + (IF y.pads THEN ac.len2 ELSE nd)
    BY <1>2, <1>8, <1>9 DEF Rest, ToText, ToNumber
  <2>3. ToDo(ac') = ac.len1 + ac.len2 BY <1>2, <1>9 DEF ToDo, ToText
  <2>4. Rest(ac', y) <= ToDo(ac') BY <1>4, <1>6, <1>13, <2>2, <2>3
  <2>5. y.res # "PI" BY <1>8
  <2>6. Under(ac', y) BY <1>2, <1>8, <2>1, <2>4, <2>5 DEF Under
  <2> QED BY <1>10, <1>13, <2>6, IdleFact DEF Goes, Begun
<1> QED BY <1>3, <1>11, <1>12, <1>13

LEMMA BeginToNumberKeeps ==
    ASSUME NEW gone, Begun, BeginToNumber(gone)
    PROVE  Kept
<1> DEFINE has == "S" \in ac.flags
           flags == IF op = "CVTDBO" THEN ac.flags \cup {"S"} ELSE ac.flags
           num == IF has THEN ac.num ELSE 0
           y == Fresh(flags, num)
           z == [y EXCEPT !.res = IF ac.len1 = 0 THEN "WON" ELSE "RUN"]
<1>1. begun \in Starts /\ Able(ac) BY DEF Begun, PInv
<1>2. op \in ToNumber /\ op \in Tried BY DEF BeginToNumber, Tried, ToNumber, Ops
<1>3. Fails \/ (Goes(z) /\ ac' = ac) BY DEF BeginToNumber
<1>4. ac.len1 \in Nat /\ ac.len2 \in Nat BY <1>1 DEF Able
<1> HIDE DEF flags, num
<1>5. /\ Shape(z) /\ z.op = op /\ z.pattern = begun.pattern
      /\ z.res = (IF ac.len1 = 0 THEN "WON" ELSE "RUN") /\ z.len1 = ac.len1
  BY DEF Fresh, Shape, TryFields, Results
<1> HIDE DEF y, z
<1>6. Counting(z) BY <1>2, <1>4, <1>5 DEF Counting, Moves, ToText, ToNumber, Bytes
<1>7. Rest(ac, z) = ac.len1 + ac.len2 /\ ToDo(ac) = ac.len1 + ac.len2
  BY <1>2, <1>5 DEF Rest, ToDo, ToText, ToNumber
<1>8. Under(ac, z)
  <2>1. Rest(ac, z) <= ToDo(ac) BY <1>4, <1>7
  <2>2. z.res # "PI" BY <1>5
  <2> QED BY <1>2, <1>5, <1>6, <2>1, <2>2 DEF Under
<1>9. CASE Fails BY <1>9, IdleFact DEF Fails, Begun
<1>10. CASE Goes(z) /\ ac' = ac BY <1>1, <1>8, <1>10, IdleFact DEF Goes, Begun
<1> QED BY <1>3, <1>9, <1>10

LEMMA BeginByteKeeps ==
    ASSUME NEW gone, Begun, BeginByte(gone)
    PROVE  Kept
<1> DEFINE first == op \in {"ILDB", "IDPB"} /\ "FPD" \notin ac.flags
           bp == IF first THEN Incremented(ac.bp1) ELSE ac.bp1
           flags == IF first THEN ac.flags \cup {"FPD"} ELSE ac.flags
           z == [Fresh(flags, ac.num) EXCEPT !.s1 = Clean(bp)]
<1>1. begun \in Starts /\ Able(ac) BY DEF Begun, PInv
<1>2. op \in Bytes /\ op \in Tried BY DEF BeginByte, Tried, Bytes, Ops
<1>3. \/ Fails
      \/ /\ ac' = [ac EXCEPT !.bp1 = bp, !.flags = flags]
         /\ Goes(z) \/ UNCHANGED <<begun, mem, x, out>>
  BY DEF BeginByte
<1>4. ac.len1 \in Nat /\ ac.len2 \in Nat /\ DOMAIN ac = AcFields BY <1>1 DEF Able
<1> HIDE DEF bp, flags
<1>5. /\ Shape(z) /\ z.op = op /\ z.pattern = begun.pattern /\ z.res = "RUN"
      /\ z.len1 = ac.len1 /\ z.len2 = ac.len2
  BY DEF Fresh, Shape, TryFields, Results
<1> HIDE DEF z
<1>6. Counting(z) BY <1>2, <1>4, <1>5 DEF Counting, Moves, ToText, ToNumber, Bytes
<1>7. CASE Fails BY <1>7, IdleFact DEF Fails, Begun
<1>8. ASSUME ac' = [ac EXCEPT !.bp1 = bp, !.flags = flags]
      PROVE  Able(ac') /\ ac'.len1 = ac.len1 /\ ac'.len2 = ac.len2
  <2>1. DOMAIN ac' = AcFields /\ ac'.len1 = ac.len1 /\ ac'.len2 = ac.len2
    BY <1>4, <1>8 DEF AcFields
  <2> QED BY <1>2, <1>4, <2>1 DEF Able, Bytes, ToText
<1>9. ASSUME ac' = [ac EXCEPT !.bp1 = bp, !.flags = flags], Goes(z)
      PROVE  Kept
  <2>1. Able(ac') /\ ac'.len1 = ac.len1 /\ ac'.len2 = ac.len2 BY <1>8, <1>9
  <2>2. Rest(ac', z) = ac.len1 + ac.len2 /\ ToDo(ac') = ac.len1 + ac.len2
    BY <1>2, <1>5, <2>1 DEF Rest, ToDo, ToText, ToNumber, Bytes
  <2>3. Rest(ac', z) <= ToDo(ac') BY <1>4, <2>2
  <2>4. z.res # "PI" BY <1>5
  <2>5. Under(ac', z) BY <1>2, <1>5, <1>6, <2>3, <2>4 DEF Under
  <2> QED BY <1>9, <2>1, <2>5, IdleFact DEF Goes, Begun
<1>10. ASSUME ac' = [ac EXCEPT !.bp1 = bp, !.flags = flags], UNCHANGED <<begun, mem, x, out>>
       PROVE  Kept
  <2>1. Able(ac') BY <1>8, <1>10
  <2> QED BY <1>10, <2>1, IdleFact DEF Begun
<1> QED BY <1>3, <1>7, <1>9, <1>10

LEMMA BeginKeeps ==
    ASSUME PInv, op # "BLT", Begin
    PROVE  Kept /\ x = Idle
<1>1. PICK gone \in Missing : Try(gone) BY DEF Begin
<1>2. Begun /\ x = Idle BY <1>1 DEF Try, Begun
<1> QED BY <1>1, <1>2, BeginMoveKeeps, BeginCompareKeeps, BeginToTextKeeps, BeginToNumberKeeps,
           BeginEditKeeps, BeginBlockKeeps, BeginByteKeeps, BeginPointerKeeps DEF Try

LEMMA TurnKeeps ==
    ASSUME PInv, op # "BLT", Turn
    PROVE  Kept /\ x.res = "RUN"
<1>1. PICK gone \in Missing, brk \in BOOLEAN : TurnWith(gone, brk) BY DEF Turn
<1> DEFINE z == Step(x, gone, brk)
<1>2. x.res = "RUN" /\ x' = z /\ begun' = begun /\ ac' = ac /\ out' = out BY <1>1 DEF TurnWith
<1>3. x # Idle BY <1>2 DEF Idle
<1>4. Under(ac, z) BY <1>2, <1>3, TurnGoesOn
<1> HIDE DEF z
<1>5. out = "" /\ Able(ac) BY <1>3 DEF PInv
<1> QED BY <1>2, <1>4, <1>5 DEF Kept

LEMMA LeaveKeeps ==
    ASSUME PInv, op # "BLT", Leave
    PROVE  Kept /\ (x.res = "PI" => ToDo(ac') < ToDo(ac))
<1>1. /\ x.res \notin {"idle", "RUN"} /\ ac' = Stored(x) /\ x' = Idle /\ begun' = begun
      /\ ~Trapped(x) => out' = x.res
  <2>1. x.res \notin {"idle", "RUN"} /\ ac' = Stored(x) /\ x' = Idle /\ begun' = begun BY DEF Leave
  <2>2. ~Trapped(x) => out' = x.res BY DEF Leave
  <2> QED BY <2>1, <2>2
<1>2. x # Idle BY <1>1 DEF Idle
<1>3. Under(ac, x) BY <1>2 DEF PInv
<1>4. ~Trapped(x) => out' # "" BY <1>1, <1>3 DEF Under, Shape, Results
<1>5. Trapped(x) => Able(ac') BY <1>1, <1>2, StoredFact
<1>6. Kept BY <1>1, <1>4, <1>5 DEF Kept
<1>7. x.res = "PI" => ToDo(ac') = Rest(ac, x) /\ Rest(ac, x) < ToDo(ac)
  BY <1>1, <1>2, <1>3, StoredFact DEF Trapped, Under
<1> QED BY <1>6, <1>7

LEMMA Starting == Init => PInv
<1>1. SUFFICES ASSUME Init PROVE PInv OBVIOUS
<1>2. begun \in Starts /\ ac = begun.ac /\ x = Idle BY <1>1 DEF Init
<1>3. ac \in ACs BY <1>2, StartsAssumption
<1>4. DOMAIN ac = AcFields /\ ac.len1 \in Nat /\ ac.len2 \in Nat /\ ac.num \in Int /\ ac.at \in Nat
  BY <1>3 DEF ACs, AcFields
<1>5. op = "EDIT" => ac.at < Len(begun.pattern) BY <1>2, PatternsAssumption DEF op
<1>6. Able(ac) BY <1>4, <1>5 DEF Able
<1> QED BY <1>2, <1>6 DEF PInv

LEMMA StepKeeps ==
    ASSUME PInv, [Next]_vars
    PROVE  PInv' /\ (x # Idle /\ x.res = "PI" /\ op # "BLT" /\ x' = Idle => ToDo(ac') < ToDo(ac)
                     \/ UNCHANGED vars)
<1>1. CASE op = "BLT" /\ Next
  <2>1. begun' = begun
    BY <1>1 DEF Next, Begin, Turn, Leave, Try, TurnWith, BeginMove, BeginCompare, BeginToText,
                BeginToNumber, BeginEdit, BeginBlock, BeginByte, BeginPointer, Fails, Ends, Goes, vars
  <2> QED BY <1>1, <2>1 DEF PInv, op
<1>2. CASE op # "BLT" /\ Next
  <2>1. CASE Begin BY <1>2, <2>1, BeginKeeps, KeptFact
  <2>2. CASE Turn BY <1>2, <2>2, TurnKeeps, KeptFact
  <2>3. CASE Leave BY <1>2, <2>3, LeaveKeeps, KeptFact
  <2> QED BY <1>2, <2>1, <2>2, <2>3 DEF Next
<1>3. CASE UNCHANGED vars
  <2>1. Kept \/ op = "BLT" BY <1>3 DEF vars, Kept, PInv
  <2>2. CASE op = "BLT" BY <1>3, <2>2 DEF PInv, vars, op
  <2>3. CASE op # "BLT" BY <1>3, <2>1, <2>3, KeptFact
  <2> QED BY <1>3, <2>2, <2>3
<1> QED BY <1>1, <1>2, <1>3

\* However often interrupts stop an instruction other than BLT, each try that one stops has
\* left less to do: the loops of inexts.c look for an interrupt after a turn only, and what
\* they store is what the turns have come to.
THEOREM Progress == Spec => Advances
<1>1. PInv /\ [Next]_vars => PInv' BY StepKeeps
<1>2. PInv /\ [Next]_vars =>
        [x # Idle /\ x.res = "PI" /\ op # "BLT" /\ x' = Idle => ToDo(ac') < ToDo(ac)]_vars
  BY StepKeeps
<1> QED BY Starting, <1>1, <1>2, PTL DEF Spec, Advances

-----------------------------------------------------------------------------
(* Blocks                                                                  *)

\* The word that is moved as the k-th, from the address in the AC.
By(n, k) == IF n < 0 THEN -k ELSE k - 1

\* Memory with the word so far from the addresses moved.
WordMoved(w, src, dst, by) == [w EXCEPT ![dst + by] = w[src + by]]

\* f is the memories a block goes through.
Through(f, m, src, dst, n) ==
    /\ f = [k \in 0..Magnitude(n) |-> f[k]] /\ f[0] = m
    /\ \A k \in 1..Magnitude(n) : f[k] = WordMoved(f[k - 1], src, dst, By(n, k))

\* The words are moved in one order: there is one such sequence of memories,
LEMMA ThroughUnique ==
    ASSUME NEW m, NEW src, NEW dst, NEW n \in Int, NEW f, NEW g,
           Through(f, m, src, dst, n), Through(g, m, src, dst, n)
    PROVE  \A k \in 0..Magnitude(n) : f[k] = g[k]
<1> DEFINE top == Magnitude(n)
           S == {k \in 0..top : f[k] = g[k]}
           after(w, k) == WordMoved(w, src, dst, By(n, k))
<1>1. top \in Nat BY DEF Magnitude
<1>2. f[0] = g[0] BY DEF Through
<1>3. ASSUME NEW k \in 1..top PROVE f[k] = after(f[k - 1], k) /\ g[k] = after(g[k - 1], k)
  BY DEF Through
<1> HIDE DEF top, after
<1>4. 0 \in S BY <1>1, <1>2
<1>5. ASSUME NEW k \in 0..top, k \in S, k < top PROVE k + 1 \in S
  <2>1. k + 1 \in 1..top /\ k + 1 \in 0..top /\ (k + 1) - 1 = k BY <1>1, <1>5
  <2>2. f[k + 1] = after(f[k], k + 1) /\ g[k + 1] = after(g[k], k + 1) BY <1>3, <2>1
  <2> QED BY <1>5, <2>1, <2>2
<1>6. S \in SUBSET (0..top) OBVIOUS
<1> HIDE DEF S
<1>7. \A k \in 0..top : k \in S BY <1>1, <1>4, <1>5, <1>6, UpTo
<1> QED BY <1>7 DEF S, top

\* and there is one.
LEMMA ThroughExists ==
    ASSUME NEW m, NEW src, NEW dst, NEW n \in Int
    PROVE  \E f : Through(f, m, src, dst, n)
<1> DEFINE top == Magnitude(n)
           after(w, k) == WordMoved(w, src, dst, By(n, k))
           Upto(f, j) == /\ f = [k \in 0..j |-> f[k]] /\ f[0] = m
                         /\ \A k \in 1..j : f[k] = after(f[k - 1], k)
           S == {j \in 0..top : \E f : Upto(f, j)}
<1>1. top \in Nat BY DEF Magnitude
<1>2. SUFFICES top \in S BY DEF Through
<1> HIDE DEF top, after
<1>3. 0 \in S
  <2> DEFINE c == [k \in 0..0 |-> m]
  <2>1. Upto(c, 0) OBVIOUS
  <2> HIDE DEF c, Upto
  <2> QED BY <1>1, <2>1
<1>4. ASSUME NEW j \in 0..top, j \in S, j < top PROVE j + 1 \in S
  <2>1. PICK f : Upto(f, j) BY <1>4
  <2> DEFINE v == after(f[j], j + 1)
             g == [k \in 0..(j + 1) |-> IF k = j + 1 THEN v ELSE f[k]]
  <2>2. g = [k \in 0..(j + 1) |-> g[k]] OBVIOUS
  <2>3. ASSUME NEW k \in 1..(j + 1) PROVE g[k] = after(g[k - 1], k)
    <3>1. CASE k = j + 1
      <4>1. g[k] = v /\ g[k - 1] = f[j] /\ k = j + 1 BY <3>1
      <4> HIDE DEF v, g
      <4>2. g[k] = v /\ after(g[k - 1], k) = after(f[j], j + 1) BY <4>1
      <4> QED BY <4>2 DEF v
    <3>2. CASE k # j + 1
      <4>1. k \in 1..j /\ k \in 0..j /\ k - 1 \in 0..j BY <3>2
      <4>2. g[k] = f[k] /\ g[k - 1] = f[k - 1] BY <4>1
      <4>3. f[k] = after(f[k - 1], k) BY <2>1, <4>1
      <4> HIDE DEF g
      <4> QED BY <4>2, <4>3
    <3> QED BY <3>1, <3>2
  <2>4. g[0] = m BY <2>1
  <2> HIDE DEF g
  <2>5. Upto(g, j + 1) BY <2>2, <2>3, <2>4
  <2>6. j + 1 \in 0..top BY <1>1, <1>4
  <2> HIDE DEF Upto
  <2> QED BY <2>5, <2>6
<1>5. S \in SUBSET (0..top) OBVIOUS
<1> HIDE DEF S
<1>6. \A j \in 0..top : j \in S BY <1>1, <1>3, <1>4, <1>5, UpTo
<1> QED BY <1>1, <1>6

\* Blocked is the last of them.
LEMMA BlockedIs ==
    ASSUME NEW m, NEW src, NEW dst, NEW n \in Int, NEW f, Through(f, m, src, dst, n)
    PROVE  Blocked(m, src, dst, n) = f[Magnitude(n)]
<1> DEFINE top == Magnitude(n)
           Def(W) == W = [k \in 0..top |->
                            IF k = 0 THEN m ELSE WordMoved(W[k - 1], src, dst, By(n, k))]
           h == CHOOSE W : Def(W)
<1>1. top \in Nat BY DEF Magnitude
<1>2. Def(f)
  <2>1. \A k \in 0..top : f[k] = IF k = 0 THEN m ELSE WordMoved(f[k - 1], src, dst, By(n, k))
    <3>1. f[0] = m /\ \A k \in 1..top : f[k] = WordMoved(f[k - 1], src, dst, By(n, k)) BY DEF Through
    <3> HIDE DEF top
    <3> QED BY <1>1, <3>1
  <2>2. f = [k \in 0..top |-> f[k]] BY DEF Through
  <2> HIDE DEF top
  <2> QED BY <2>1, <2>2
<1>3. Def(h) BY <1>2
<1>4. Blocked(m, src, dst, n) = h[top] BY DEF Blocked, WordMoved, By
<1> HIDE DEF h
<1>5. Through(h, m, src, dst, n)
  <2>1. h = [k \in 0..top |-> h[k]] BY <1>3
  <2>2. h[0] = m BY <1>1, <1>3
  <2>3. \A k \in 1..top : h[k] = WordMoved(h[k - 1], src, dst, By(n, k))
    BY <1>1, <1>3
  <2> QED BY <2>1, <2>2, <2>3 DEF Through
<1>6. top \in 0..top BY <1>1
<1>7. h[top] = f[top] BY <1>5, <1>6, ThroughUnique
<1> QED BY <1>4, <1>7

\* Nothing to move.
LEMMA BlockedNone ==
    ASSUME NEW m, NEW src, NEW dst
    PROVE  Blocked(m, src, dst, 0) = m
<1>1. PICK f : Through(f, m, src, dst, 0) BY ThroughExists
<1>2. Magnitude(0) = 0 BY DEF Magnitude
<1>3. Blocked(m, src, dst, 0) = f[0] BY <1>1, <1>2, BlockedIs
<1> QED BY <1>1, <1>3 DEF Through

\* One word and the rest of them, up and down.
LEMMA BlockedOn ==
    ASSUME NEW m, NEW src \in Int, NEW dst \in Int, NEW n \in Int, NEW d \in {-1, 1},
           IF n < 0 THEN d = -1 ELSE n # 0 /\ d = 1
    PROVE  LET by == IF n < 0 THEN -1 ELSE 0
           IN Blocked(m, src, dst, n) =
                  Blocked(WordMoved(m, src, dst, by), src + d, dst + d, n - d)
<1> DEFINE by == IF n < 0 THEN -1 ELSE 0
           m1 == WordMoved(m, src, dst, by)
           top == Magnitude(n)
           left == Magnitude(n - d)
<1>1. top \in Nat \ {0} /\ left = top - 1 /\ n - d \in Int BY DEF Magnitude
<1>2. PICK f : Through(f, m, src, dst, n) BY ThroughExists
<1> DEFINE g == [k \in 0..left |-> f[k + 1]]
<1>3. By(n, 1) = by BY DEF By
<1>4. f[1] = m1
  <2>1. 1 \in 1..top /\ 1 - 1 = 0 BY <1>1
  <2>2. f[1] = WordMoved(f[1 - 1], src, dst, By(n, 1)) /\ f[0] = m BY <1>2, <2>1 DEF Through
  <2> HIDE DEF by
  <2> QED BY <2>1, <2>2, <1>3
<1>5. ASSUME NEW k \in 1..left
      PROVE  g[k] = WordMoved(g[k - 1], src + d, dst + d, By(n - d, k))
  <2>1. k \in 0..left /\ k - 1 \in 0..left /\ k + 1 \in 1..top /\ k \in 1..top /\ k \in Int
    BY <1>1
  <2>2. g[k] = f[k + 1] /\ g[k - 1] = f[k] BY <2>1
  <2>3. f[k + 1] = WordMoved(f[(k + 1) - 1], src, dst, By(n, k + 1)) BY <2>1, <1>2 DEF Through
  <2>4. (k + 1) - 1 = k BY <2>1
  <2>5. By(n, k + 1) = By(n - d, k) + d /\ By(n - d, k) \in Int
    BY <2>1, <1>1 DEF By, Magnitude
  <2>6. src + By(n, k + 1) = (src + d) + By(n - d, k) /\ dst + By(n, k + 1) = (dst + d) + By(n - d, k)
    BY <2>5
  <2> HIDE DEF g
  <2> QED BY <2>2, <2>3, <2>4, <2>6 DEF WordMoved
<1>6. g[0] = m1 /\ g[left] = f[top] BY <1>1, <1>4
<1>7. g = [k \in 0..left |-> g[k]] OBVIOUS
<1> HIDE DEF g
<1>8. Through(g, m1, src + d, dst + d, n - d) BY <1>5, <1>6, <1>7 DEF Through
<1> HIDE DEF m1
<1>9. Blocked(m1, src + d, dst + d, n - d) = g[left] BY <1>1, <1>8, BlockedIs
<1>10. Blocked(m, src, dst, n) = f[top] BY <1>2, BlockedIs
<1>11. Blocked(m, src, dst, n) = Blocked(m1, src + d, dst + d, n - d) BY <1>6, <1>9, <1>10
<1> QED BY <1>11 DEF m1

\* How many words a block has, up to the last one or as many as AC says.
Words(i) == IF i.op = "BLT" THEN i.e - i.ac.bp2.y + 1 ELSE i.ac.num

\* How many words BLT moves, one at least, and XBLT.
Count(n) == IF op = "BLT" /\ n < 1 THEN 1 ELSE n

\* The memory the whole block leaves.
Whole == Blocked(begun.mem, begun.ac.bp1.y, begun.ac.bp2.y, Count(Words(begun)))

\* n words are left to move, from y1 to y2.
Left(m, y1, y2, n) ==
    /\ y1 \in Int /\ y2 \in Int /\ n \in Int /\ DOMAIN m = Addr
    /\ y1 + n = begun.ac.bp1.y + Words(begun) /\ y2 + n = begun.ac.bp2.y + Words(begun)
    /\ Blocked(m, y1, y2, Count(n)) = Whole
    /\ op = "BLT" => n <= Words(begun) /\ (n >= 1 \/ n = Words(begun))

\* The block is where it should be and the addresses are behind it.
Done(m, y1, y2, n) ==
    /\ m = Whole
    /\ y1 = begun.ac.bp1.y + Words(begun) /\ y2 = begun.ac.bp2.y + Words(begun)
    /\ op = "XBLT" => n = 0

\* Where the instruction begins.
LEMMA BlockBegun ==
    ASSUME begun \in Starts, op \in {"BLT", "XBLT"}
    PROVE  /\ begun.ac.bp1.y \in Nat /\ begun.ac.bp2.y \in Nat /\ begun.ac.num \in Int /\ begun.e \in Nat
           /\ Words(begun) \in Int /\ DOMAIN begun.mem = Addr
           /\ ~begun.ac.bp1.ind /\ ~begun.ac.bp2.ind
<1>1. begun.ac \in ACs /\ begun.e \in Nat /\ begun.mem \in [Addr -> [1..BytesPerWord -> Byte]]
  BY StartsAssumption
<1>2. begun.ac.bp1 \in Pointer /\ begun.ac.bp2 \in Pointer /\ begun.ac.num \in Int BY <1>1 DEF ACs
<1>3. begun.ac.bp1.y \in Nat /\ begun.ac.bp2.y \in Nat BY <1>2 DEF Pointer
<1>4. ~begun.ac.bp1.ind /\ ~begun.ac.bp2.ind BY BlocksAssumption DEF op
<1> QED BY <1>1, <1>2, <1>3, <1>4 DEF Words

\* A word more, up or down.
LEMMA LeftOn ==
    ASSUME NEW m, NEW y1, NEW y2, NEW n, NEW d \in {-1, 1}, begun \in Starts,
           op \in {"BLT", "XBLT"}, Left(m, y1, y2, n),
           IF op = "BLT" THEN n >= 1 ELSE n # 0,
           IF n < 0 THEN d = -1 ELSE n # 0 /\ d = 1
    PROVE  LET m1 == WordMoved(m, y1, y2, IF n < 0 THEN -1 ELSE 0)
           IN IF n - d = 0 THEN Done(m1, y1 + d, y2 + d, n - d) ELSE Left(m1, y1 + d, y2 + d, n - d)
<1> DEFINE by == IF n < 0 THEN -1 ELSE 0
           m1 == WordMoved(m, y1, y2, by)
<1>1. y1 \in Int /\ y2 \in Int /\ n \in Int /\ DOMAIN m = Addr BY DEF Left
<1>2. Words(begun) \in Int /\ begun.ac.bp1.y \in Int /\ begun.ac.bp2.y \in Int BY BlockBegun
<1>3. Count(n) = n BY <1>1 DEF Count
<1>4. Blocked(m, y1, y2, n) = Blocked(m1, y1 + d, y2 + d, n - d) BY <1>1, BlockedOn
<1>5. DOMAIN m1 = Addr BY <1>1 DEF WordMoved
<1> HIDE DEF m1
<1>6. Whole = Blocked(m1, y1 + d, y2 + d, n - d) BY <1>3, <1>4 DEF Left
<1>7. /\ y1 + d \in Int /\ y2 + d \in Int /\ n - d \in Int
      /\ (y1 + d) + (n - d) = begun.ac.bp1.y + Words(begun)
      /\ (y2 + d) + (n - d) = begun.ac.bp2.y + Words(begun)
  BY <1>1, <1>2 DEF Left
<1>8. CASE n - d = 0
  <2>1. Whole = m1 BY <1>6, <1>8, BlockedNone
  <2>2. y1 + d = begun.ac.bp1.y + Words(begun) /\ y2 + d = begun.ac.bp2.y + Words(begun)
    BY <1>7, <1>8
  <2>3. Done(m1, y1 + d, y2 + d, n - d) BY <1>8, <2>1, <2>2 DEF Done
  <2> QED BY <1>8, <2>3 DEF m1
<1>9. CASE n - d # 0
  <2>1. Count(n - d) = n - d BY <1>1, <1>9 DEF Count
  <2>2. op = "BLT" => n - d <= Words(begun) /\ n - d >= 1 BY <1>1, <1>2, <1>9 DEF Left
  <2>3. Left(m1, y1 + d, y2 + d, n - d) BY <1>5, <1>6, <1>7, <2>1, <2>2 DEF Left
  <2> QED BY <1>9, <2>3 DEF m1
<1> QED BY <1>8, <1>9

\* BLT of one word, or of a block that ends before it begins.
LEMMA LeftOne ==
    ASSUME NEW m, NEW y1, NEW y2, NEW n, begun \in Starts, op = "BLT", Left(m, y1, y2, n), n <= 1
    PROVE  Done(WordMoved(m, y1, y2, 0), y1 + n, y2 + n, 0)
<1> DEFINE m1 == WordMoved(m, y1, y2, 0)
<1>1. y1 \in Int /\ y2 \in Int /\ n \in Int BY DEF Left
<1>2. Count(n) = 1 BY <1>1 DEF Count
<1>3. Blocked(m, y1, y2, 1) = Blocked(m1, y1 + 1, y2 + 1, 1 - 1) BY <1>1, BlockedOn
<1>4. Blocked(m1, y1 + 1, y2 + 1, 1 - 1) = m1
  <2>1. 1 - 1 = 0 OBVIOUS
  <2> HIDE DEF m1
  <2> QED BY <2>1, BlockedNone
<1>5. m1 = Whole BY <1>2, <1>3, <1>4 DEF Left
<1> HIDE DEF m1
<1>6. Done(m1, y1 + n, y2 + n, 0) BY <1>5 DEF Left, Done
<1> QED BY <1>6 DEF m1

CleanFields == {"bp", "p", "y", "ycnt", "vp", "wd"}

\* A try that moves a block; a word that BLT keeps is the one it reads next.
Moving(y) ==
    /\ y.op = op /\ DOMAIN y = TryFields /\ DOMAIN y.s1 = CleanFields /\ DOMAIN y.s2 = CleanFields
    /\ y.res \in {"RUN", "PF", "PI", "WON"}
    /\ y.res # "WON" => Left(y.mem, y.s1.y, y.s2.y, y.num)
    /\ y.res = "WON" => Done(y.mem, y.s1.y, y.s2.y, y.num)
    /\ y.res = "RUN" => IF op = "XBLT" THEN y.num # 0 ELSE y.first \/ y.num >= 1
    /\ op = "BLT" /\ y.res = "RUN" /\ y.s1.vp => y.s1.y + 1 = y.s2.y /\ y.s1.wd = y.mem[y.s1.y]

\* A trap leaves the try as it is.
LEMMA StoppedMoving ==
    ASSUME NEW y, NEW res \in {"PF", "PI"}, Moving(y), y.res = "RUN"
    PROVE  Moving([y EXCEPT !.res = res])
BY DEF Moving, TryFields

\* XBLT: a turn moves one word, up or down, and counts it, or nothing happens.
LEMMA XbltMoves ==
    ASSUME NEW y, NEW gone, NEW brk \in BOOLEAN, begun \in Starts, op = "XBLT", Moving(y), y.res = "RUN"
    PROVE  Moving(XbltStep(y, gone, brk))
<1> DEFINE d == IF y.num < 0 THEN -1 ELSE 1
           by == IF y.num < 0 THEN -1 ELSE 0
           m1 == WordMoved(y.mem, y.s1.y, y.s2.y, by)
           here == IF y.num < 0 THEN Stepped(y, -1) ELSE y
           c == Copied(here, y.mem[here.s1.y])
           w == IF y.num < 0 THEN c ELSE Stepped(c, 1)
           next == Later(w.num = 0, brk)
           z == XbltStep(y, gone, brk)
<1>1. z = [y EXCEPT !.res = "PF"] \/ z = [w EXCEPT !.res = next] BY DEF XbltStep
<1>2. /\ DOMAIN y = TryFields /\ DOMAIN y.s1 = CleanFields /\ DOMAIN y.s2 = CleanFields /\ y.op = op
      /\ Left(y.mem, y.s1.y, y.s2.y, y.num) /\ y.num # 0
  BY DEF Moving
<1>3. y.num \in Int /\ y.s1.y \in Int /\ y.s2.y \in Int BY <1>2 DEF Left
<1>4. /\ w.op = op /\ DOMAIN w = TryFields /\ DOMAIN w.s1 = CleanFields /\ DOMAIN w.s2 = CleanFields
      /\ w.mem = m1 /\ w.s1.y = y.s1.y + d /\ w.s2.y = y.s2.y + d /\ w.num = y.num - d
  <2>1. CASE y.num < 0
    <3>1. /\ here.op = op /\ DOMAIN here = TryFields /\ DOMAIN here.s1 = CleanFields
          /\ DOMAIN here.s2 = CleanFields /\ here.mem = y.mem /\ here.s1.y = y.s1.y + d
          /\ here.s2.y = y.s2.y + d /\ here.num = y.num - d
      BY <1>2, <1>3, <2>1 DEF Stepped, TryFields, CleanFields
    <3> HIDE DEF here
    <3>2. /\ c.op = op /\ DOMAIN c = TryFields /\ c.s1 = here.s1 /\ c.s2 = here.s2 /\ c.num = here.num
          /\ c.mem = [y.mem EXCEPT ![here.s2.y] = y.mem[here.s1.y]]
      BY <3>1 DEF Copied, TryFields
    <3>3. w = c BY <2>1
    <3>4. c.mem = m1 BY <2>1, <3>1, <3>2 DEF WordMoved
    <3> HIDE DEF c, w, m1
    <3> QED BY <3>1, <3>2, <3>3, <3>4
  <2>2. CASE ~(y.num < 0)
    <3>1. here = y BY <2>2
    <3> HIDE DEF here
    <3>2. /\ c.op = op /\ DOMAIN c = TryFields /\ c.s1 = y.s1 /\ c.s2 = y.s2 /\ c.num = y.num
          /\ c.mem = [y.mem EXCEPT ![y.s2.y] = y.mem[y.s1.y]]
      BY <1>2, <3>1 DEF Copied, TryFields
    <3>3. c.mem = m1
      <4>1. y.s2.y + by = y.s2.y /\ y.s1.y + by = y.s1.y BY <1>3, <2>2
      <4> HIDE DEF c, by
      <4> QED BY <3>2, <4>1 DEF WordMoved
    <3> HIDE DEF c, m1
    <3>4. w = Stepped(c, 1) BY <2>2
    <3> HIDE DEF w
    <3> QED BY <1>2, <2>2, <3>2, <3>3, <3>4 DEF Stepped, TryFields, CleanFields
  <2> QED BY <2>1, <2>2
<1>5. IF y.num - d = 0 THEN Done(m1, y.s1.y + d, y.s2.y + d, y.num - d)
      ELSE Left(m1, y.s1.y + d, y.s2.y + d, y.num - d)
  BY <1>2, <1>3, LeftOn
<1>6. next \in {"RUN", "PI", "WON"} /\ (next = "WON" <=> w.num = 0) BY DEF Later
<1> HIDE DEF w, next, m1, d, by, here, c, z
<1>7. CASE z = [w EXCEPT !.res = next]
  <2>1. /\ z.op = op /\ DOMAIN z = TryFields /\ z.s1 = w.s1 /\ z.s2 = w.s2 /\ z.mem = m1
        /\ z.num = w.num /\ z.res = next
    BY <1>4, <1>7 DEF TryFields
  <2>2. z.res = "WON" => Done(z.mem, z.s1.y, z.s2.y, z.num) BY <1>4, <1>5, <1>6, <2>1
  <2>3. z.res # "WON" => Left(z.mem, z.s1.y, z.s2.y, z.num) BY <1>4, <1>5, <1>6, <2>1
  <2>4. Moving(z) BY <1>4, <1>6, <2>1, <2>2, <2>3 DEF Moving
  <2> QED BY <2>4 DEF z
<1>8. CASE z = [y EXCEPT !.res = "PF"]
  <2>1. Moving(z) BY <1>8, StoppedMoving
  <2> QED BY <2>1 DEF z
<1> QED BY <1>1, <1>7, <1>8

\* BLT: a word that is kept is the one just written, which is the next to be read.
LEMMA BltMoves ==
    ASSUME NEW y, NEW gone, NEW brk \in BOOLEAN, begun \in Starts, op = "BLT", Moving(y), y.res = "RUN"
    PROVE  Moving(BltStep(y, gone, brk))
<1> DEFINE same == y.s1.y + 1 = y.s2.y
           w == IF same /\ y.s1.vp THEN y.s1.wd ELSE y.mem[y.s1.y]
           kept == [y EXCEPT !.s1.vp = same, !.s1.wd = IF same THEN w ELSE <<>>]
           last == Stepped(Copied(y, y.mem[y.s1.y]), y.num)
           next == Stepped(Copied(kept, w), 1)
           res == IF y.num = 1 THEN "WON" ELSE "RUN"
           m1 == WordMoved(y.mem, y.s1.y, y.s2.y, 0)
           z == BltStep(y, gone, brk)
<1>1. \/ z = [y EXCEPT !.res = "PF"] \/ z = [y EXCEPT !.res = "PI"]
      \/ y.num <= 1 /\ y.first /\ z = [last EXCEPT !.res = "WON"]
      \/ ~(y.num <= 1 /\ y.first) /\ z = [next EXCEPT !.first = FALSE, !.res = res]
  BY DEF BltStep, OneWordStep
<1>2. /\ DOMAIN y = TryFields /\ DOMAIN y.s1 = CleanFields /\ DOMAIN y.s2 = CleanFields /\ y.op = op
      /\ Left(y.mem, y.s1.y, y.s2.y, y.num) /\ (y.first \/ y.num >= 1)
      /\ y.s1.vp => y.s1.y + 1 = y.s2.y /\ y.s1.wd = y.mem[y.s1.y]
  BY DEF Moving
<1>3. /\ y.num \in Int /\ y.s1.y \in Int /\ y.s2.y \in Int /\ DOMAIN y.mem = Addr
      /\ y.s1.y + 0 = y.s1.y /\ y.s2.y + 0 = y.s2.y
  BY <1>2 DEF Left
<1>4. w = y.mem[y.s1.y] BY <1>2
<1>5. m1 = [y.mem EXCEPT ![y.s2.y] = y.mem[y.s1.y]] BY <1>3 DEF WordMoved
<1>6. CASE z = [y EXCEPT !.res = "PF"] \/ z = [y EXCEPT !.res = "PI"]
  <2> HIDE DEF z
  <2> QED BY <1>6, StoppedMoving DEF z
<1>7. CASE y.num <= 1 /\ y.first /\ z = [last EXCEPT !.res = "WON"]
  <2>1. /\ z.op = op /\ DOMAIN z = TryFields /\ DOMAIN z.s1 = CleanFields /\ DOMAIN z.s2 = CleanFields
        /\ z.mem = m1 /\ z.s1.y = y.s1.y + y.num /\ z.s2.y = y.s2.y + y.num /\ z.num = 0
        /\ z.res = "WON"
    <3> HIDE DEF z, m1
    <3> QED BY <1>2, <1>3, <1>5, <1>7 DEF Copied, Stepped, TryFields, CleanFields
  <2> HIDE DEF z, m1
  <2>2. Done(z.mem, z.s1.y, z.s2.y, z.num) BY <1>2, <1>7, <2>1, LeftOne DEF m1
  <2>3. Moving(z) BY <2>1, <2>2 DEF Moving
  <2> QED BY <2>3 DEF z
<1>8. CASE ~(y.num <= 1 /\ y.first) /\ z = [next EXCEPT !.first = FALSE, !.res = res]
  <2>1. y.num >= 1 BY <1>2, <1>3, <1>8
  <2>2. /\ z.op = op /\ DOMAIN z = TryFields /\ DOMAIN z.s1 = CleanFields /\ DOMAIN z.s2 = CleanFields
        /\ z.mem = m1 /\ z.s1.y = y.s1.y + 1 /\ z.s2.y = y.s2.y + 1 /\ z.num = y.num - 1
        /\ z.res = res /\ z.s1.vp = same /\ z.s1.wd = IF same THEN w ELSE <<>>
    <3>1. /\ kept.op = op /\ DOMAIN kept = TryFields /\ DOMAIN kept.s1 = CleanFields /\ kept.s2 = y.s2
          /\ kept.mem = y.mem /\ kept.s1.y = y.s1.y /\ kept.num = y.num
          /\ kept.s1.vp = same /\ kept.s1.wd = IF same THEN w ELSE <<>>
      <4> HIDE DEF same, w
      <4> QED BY <1>2 DEF TryFields, CleanFields
    <3> HIDE DEF kept, same
    <3>2. /\ next.op = op /\ DOMAIN next = TryFields /\ DOMAIN next.s1 = CleanFields
          /\ DOMAIN next.s2 = CleanFields /\ next.mem = m1 /\ next.s1.y = y.s1.y + 1
          /\ next.s2.y = y.s2.y + 1 /\ next.num = y.num - 1
          /\ next.s1.vp = same /\ next.s1.wd = IF same THEN w ELSE <<>>
      <4> HIDE DEF m1, w
      <4> QED BY <1>2, <1>3, <1>4, <1>5, <3>1 DEF Copied, Stepped, TryFields, CleanFields
    <3> HIDE DEF next, m1, w, z, res
    <3> QED BY <1>8, <3>2 DEF TryFields
  <2>3. IF y.num - 1 = 0 THEN Done(m1, y.s1.y + 1, y.s2.y + 1, y.num - 1)
        ELSE Left(m1, y.s1.y + 1, y.s2.y + 1, y.num - 1)
    <3>1. ~(y.num < 0) /\ y.num # 0 BY <1>3, <2>1
    <3> DEFINE d == 1
    <3>2. LET m2 == WordMoved(y.mem, y.s1.y, y.s2.y, IF y.num < 0 THEN -1 ELSE 0)
          IN IF y.num - d = 0 THEN Done(m2, y.s1.y + d, y.s2.y + d, y.num - d)
             ELSE Left(m2, y.s1.y + d, y.s2.y + d, y.num - d)
      <4>1. d \in {-1, 1} OBVIOUS
      <4> HIDE DEF d
      <4> QED BY <1>2, <2>1, <3>1, <4>1, LeftOn DEF d
    <3> QED BY <3>1, <3>2
  <2>4. same => w = m1[y.s1.y + 1]
    <3>1. y.s2.y \in begun.ac.bp2.y..begun.e
      <4>1. y.s2.y + y.num = begun.ac.bp2.y + Words(begun) /\ y.num <= Words(begun)
        BY <1>2 DEF Left
      <4>2. Words(begun) = begun.e - begun.ac.bp2.y + 1 BY DEF Words, op
      <4>3. begun.ac.bp2.y \in Int /\ begun.e \in Int BY BlockBegun
      <4> QED BY <1>3, <2>1, <4>1, <4>2, <4>3
    <3>2. y.s2.y \in DOMAIN y.mem BY <1>3, <3>1, BlocksAssumption DEF op
    <3> HIDE DEF m1, w
    <3> QED BY <1>4, <1>5, <3>2
  <2>5. res \in {"WON", "RUN"} /\ (res = "WON" <=> y.num - 1 = 0)
        /\ (res = "RUN" => y.num - 1 >= 1)
    BY <1>3, <2>1
  <2> HIDE DEF z, m1, w, res, next, last, kept
  <2>6. z.res = "WON" => Done(z.mem, z.s1.y, z.s2.y, z.num) BY <2>2, <2>3, <2>5
  <2>7. z.res # "WON" => Left(z.mem, z.s1.y, z.s2.y, z.num) BY <2>2, <2>3, <2>5
  <2>8. z.s1.vp => z.s1.y + 1 = z.s2.y /\ z.s1.wd = z.mem[z.s1.y]
    <3>1. same => (y.s1.y + 1) + 1 = y.s2.y + 1 BY <1>3
    <3> HIDE DEF same
    <3> QED BY <2>2, <2>4, <3>1
  <2>9. Moving(z) BY <2>2, <2>5, <2>6, <2>7, <2>8 DEF Moving
  <2> QED BY <2>9 DEF z
<1> QED BY <1>1, <1>6, <1>7, <1>8

\* The ACs of a block that is not done: only the addresses and XBLT's count have changed.
PtrFields == {"fmt", "p", "y", "ind"}
Blocks == {"BLT", "XBLT"}
BlockAc(a) ==
    /\ DOMAIN a = AcFields /\ DOMAIN a.bp1 = PtrFields /\ DOMAIN a.bp2 = PtrFields
    /\ ~a.bp1.ind /\ ~a.bp2.ind /\ a.bp1.p = begun.ac.bp1.p /\ a.bp2.p = begun.ac.bp2.p
    /\ a.len1 = begun.ac.len1 /\ a.len2 = begun.ac.len2 /\ a.at = begun.ac.at
    /\ a.flags = begun.ac.flags /\ a.mark = begun.ac.mark
    /\ op = "BLT" => a.num = begun.ac.num
ToMove(a) == IF op = "BLT" THEN begun.e - a.bp2.y + 1 ELSE a.num

\* What is to be seen when it is done, field by field.
Report(m, a, num, p1, p2) ==
    [mem |-> m, how |-> "WON", flags |-> a.flags, num |-> num, at |-> a.at, mark |-> Position(a.mark),
     len1 |-> a.len1, at1 |-> p1, len2 |-> a.len2, at2 |-> p2]
BlockGoal ==
    Report(Whole, begun.ac, IF op = "BLT" THEN begun.ac.num ELSE 0,
           Position(begun.ac.bp1) + Words(begun) * BytesPerWord,
           Position(begun.ac.bp2) + Words(begun) * BytesPerWord)

\* What Seen says, field by field.
LEMMA SeenFact ==
    ASSUME NEW m, NEW a
    PROVE  Seen(m, a, "WON") = Report(m, a, a.num, Position(a.bp1), Position(a.bp2))
BY DEF Seen, Report

\* The addresses q bytes on and XBLT's count gone.
GoneOn(r, q) == [r EXCEPT !.num = IF op = "BLT" THEN @ ELSE 0, !.at1 = @ + q, !.at2 = @ + q]

\* BlockEffect's way to say where the addresses will be, field by field.
LEMMA ReportFact ==
    ASSUME NEW m, NEW a, NEW q
    PROVE  GoneOn(Seen(m, a, "WON"), q)
           = Report(m, a, IF op = "BLT" THEN a.num ELSE 0, Position(a.bp1) + q, Position(a.bp2) + q)
<1> DEFINE r == Seen(m, a, "WON")
           f1 == Position(a.bp1) + q
           f2 == Position(a.bp2) + q
           num == IF op = "BLT" THEN a.num ELSE 0
           z == [r EXCEPT !.num = IF op = "BLT" THEN @ ELSE 0, !.at1 = @ + q, !.at2 = @ + q]
<1>1. /\ r = Report(m, a, a.num, Position(a.bp1), Position(a.bp2))
      /\ r.num = a.num /\ r.at1 = Position(a.bp1) /\ r.at2 = Position(a.bp2)
  BY SeenFact DEF Report
<1> HIDE DEF r
<1>2. z.num = num /\ z.at1 = f1 /\ z.at2 = f2 BY <1>1 DEF Report
<1>3. /\ DOMAIN z = DOMAIN r
      /\ \A k \in DOMAIN r : k \notin {"num", "at1", "at2"} => z[k] = r[k]
      /\ z = [k \in DOMAIN z |-> z[k]]
  OBVIOUS
<1> HIDE DEF z, num, f1, f2
<1>4. z = Report(m, a, num, f1, f2) BY <1>1, <1>2, <1>3 DEF Report
<1> QED BY <1>4 DEF z, num, f1, f2, r, GoneOn
\* An address so many words on.
LEMMA OnByWords ==
    ASSUME NEW a \in Int, NEW b \in Int, NEW m \in Int, NEW n \in Int, a + m = b + n,
           NEW q \in Int
    PROVE  (a * BytesPerWord + q) + m * BytesPerWord = (b * BytesPerWord + q) + n * BytesPerWord
<1>1. BytesPerWord \in Int BY WordAssumption
<1>2. (a + m) * BytesPerWord = a * BytesPerWord + m * BytesPerWord BY <1>1
<1>3. (b + n) * BytesPerWord = b * BytesPerWord + n * BytesPerWord BY <1>1
<1>4. /\ a * BytesPerWord \in Int /\ m * BytesPerWord \in Int /\ b * BytesPerWord \in Int
      /\ n * BytesPerWord \in Int
  BY <1>1
<1> QED BY <1>2, <1>3, <1>4

\* The pointers an instruction begins with.
LEMMA PtrBegun ==
    ASSUME begun \in Starts
    PROVE  /\ begun.ac.bp1 \in Pointer /\ begun.ac.bp2 \in Pointer
           /\ DOMAIN begun.ac = AcFields
           /\ DOMAIN begun.ac.bp1 = PtrFields /\ DOMAIN begun.ac.bp2 = PtrFields
           /\ begun.ac.bp1.p \in Int /\ begun.ac.bp2.p \in Int
<1>1. begun.ac \in ACs BY StartsAssumption
<1>2. begun.ac.bp1 \in Pointer /\ begun.ac.bp2 \in Pointer /\ DOMAIN begun.ac = AcFields
  BY <1>1 DEF ACs, AcFields
<1>3. \A bp \in Pointer : DOMAIN bp = PtrFields /\ bp.p \in Int
  BY WordAssumption DEF Pointer, PtrFields
<1> QED BY <1>2, <1>3

\* With the words left to move the same is asked for.
LEMMA LeftAsks ==
    ASSUME begun \in Starts, op \in Blocks, NEW m, NEW a, BlockAc(a),
           Left(m, a.bp1.y, a.bp2.y, ToMove(a))
    PROVE  Effect(begun, m, a) = BlockGoal
<1> DEFINE n == ToMove(a)
           what == Blocked(m, a.bp1.y, a.bp2.y, Count(n))
           on == n * BytesPerWord
           all == Words(begun) * BytesPerWord
<1>1. Effect(begun, m, a) = BlockEffect(begun, m, a)
  BY DEF Effect, op, Blocks, ToText, ToNumber, Bytes
<1>2. BlockEffect(begun, m, a) =
        GoneOn(Seen(what, a, "WON"), on)
  BY DEF BlockEffect, op, ToMove, Count, GoneOn
<1>3. what = Whole BY DEF Left
<1>4. /\ a.bp1.y \in Int /\ a.bp2.y \in Int /\ n \in Int
      /\ a.bp1.y + n = begun.ac.bp1.y + Words(begun) /\ a.bp2.y + n = begun.ac.bp2.y + Words(begun)
  BY DEF Left
<1>5. begun.ac.bp1.y \in Int /\ begun.ac.bp2.y \in Int /\ Words(begun) \in Int
  BY BlockBegun DEF Blocks
<1>6. begun.ac.bp1.p \in Int /\ begun.ac.bp2.p \in Int /\ BytesPerWord \in Int
  BY PtrBegun, WordAssumption
<1> HIDE DEF n, what
<1>7. /\ Position(a.bp1) + on = Position(begun.ac.bp1) + all
      /\ Position(a.bp2) + on = Position(begun.ac.bp2) + all
  <2> DEFINE q1 == BytesPerWord - begun.ac.bp1.p
             q2 == BytesPerWord - begun.ac.bp2.p
  <2>1. q1 \in Int /\ q2 \in Int BY <1>6
  <2>2. /\ Position(a.bp1) = a.bp1.y * BytesPerWord + q1
        /\ Position(begun.ac.bp1) = begun.ac.bp1.y * BytesPerWord + q1
        /\ Position(a.bp2) = a.bp2.y * BytesPerWord + q2
        /\ Position(begun.ac.bp2) = begun.ac.bp2.y * BytesPerWord + q2
    BY <1>4, <1>5, <1>6 DEF Position, BlockAc
  <2> HIDE DEF q1, q2
  <2>3. \A y1 \in Int, y2 \in Int, q \in Int :
            y1 + n = y2 + Words(begun) => (y1 * BytesPerWord + q) + on = (y2 * BytesPerWord + q) + all
    BY <1>4, <1>5, OnByWords
  <2>4. /\ (a.bp1.y * BytesPerWord + q1) + on = (begun.ac.bp1.y * BytesPerWord + q1) + all
        /\ (a.bp2.y * BytesPerWord + q2) + on = (begun.ac.bp2.y * BytesPerWord + q2) + all
    <3> HIDE DEF on, all
    <3> QED BY <1>4, <1>5, <2>1, <2>3
  <2> QED BY <2>2, <2>4
<1> HIDE DEF on, all
<1>8. Effect(begun, m, a) =
        Report(Whole, begun.ac, IF op = "BLT" THEN begun.ac.num ELSE 0,
               Position(begun.ac.bp1) + all, Position(begun.ac.bp2) + all)
  <2>1. Effect(begun, m, a) =
          Report(what, a, IF op = "BLT" THEN a.num ELSE 0, Position(a.bp1) + on, Position(a.bp2) + on)
    BY <1>1, <1>2, ReportFact
  <2> QED BY <1>3, <1>7, <2>1 DEF Report, BlockAc
<1> QED BY <1>8 DEF BlockGoal, all

\* And with none left it is there.
LEMMA DoneSeen ==
    ASSUME begun \in Starts, op \in Blocks, NEW m, NEW a, BlockAc(a), NEW n,
           Done(m, a.bp1.y, a.bp2.y, n), op = "XBLT" => a.num = 0
    PROVE  Seen(m, a, "WON") = BlockGoal
<1> DEFINE all == Words(begun) * BytesPerWord
<1>1. /\ m = Whole /\ a.bp1.y = begun.ac.bp1.y + Words(begun)
      /\ a.bp2.y = begun.ac.bp2.y + Words(begun)
  BY DEF Done
<1>2. begun.ac.bp1.y \in Int /\ begun.ac.bp2.y \in Int /\ Words(begun) \in Int
  BY BlockBegun DEF Blocks
<1>3. begun.ac.bp1.p \in Int /\ begun.ac.bp2.p \in Int /\ BytesPerWord \in Int
  BY PtrBegun, WordAssumption
<1>4. /\ Position(a.bp1) = Position(begun.ac.bp1) + all
      /\ Position(a.bp2) = Position(begun.ac.bp2) + all
  <2>1. /\ (begun.ac.bp1.y + Words(begun)) * BytesPerWord = begun.ac.bp1.y * BytesPerWord + all
        /\ (begun.ac.bp2.y + Words(begun)) * BytesPerWord = begun.ac.bp2.y * BytesPerWord + all
    BY <1>2, <1>3
  <2>2. /\ begun.ac.bp1.y * BytesPerWord \in Int /\ begun.ac.bp2.y * BytesPerWord \in Int
        /\ all \in Int
    BY <1>2, <1>3
  <2> HIDE DEF all
  <2> QED BY <1>1, <1>3, <2>1, <2>2 DEF Position, BlockAc
<1>5. op = "BLT" => a.num = begun.ac.num BY DEF BlockAc
<1> HIDE DEF all
<1>6. op \in {"BLT", "XBLT"} BY DEF Blocks
<1>7. Seen(m, a, "WON") = Report(Whole, begun.ac, IF op = "BLT" THEN begun.ac.num ELSE 0,
                                Position(begun.ac.bp1) + all, Position(begun.ac.bp2) + all)
  <2>1. Seen(m, a, "WON") = Report(m, a, a.num, Position(a.bp1), Position(a.bp2)) BY SeenFact
  <2> QED BY <1>1, <1>4, <1>5, <1>6, <2>1 DEF Report, BlockAc
<1> QED BY <1>7 DEF BlockGoal, all

\* A block instruction between tries, in one, and ended.
BlockAt(m, a, y, how) ==
    /\ y = Idle => /\ how = "" => BlockAc(a) /\ Left(m, a.bp1.y, a.bp2.y, ToMove(a))
                   /\ how # "" => Seen(m, a, how) = BlockGoal
    /\ y # Idle => how = "" /\ y.mem = m /\ Moving(y) /\ BlockAc(a)

\* A block instruction as it is first met has the whole block to move.
LEMMA BlockStarts ==
    ASSUME begun \in Starts, op \in Blocks
    PROVE  BlockAt(begun.mem, begun.ac, Idle, "")
<1>1. /\ begun.ac.bp1.y \in Nat /\ begun.ac.bp2.y \in Nat /\ begun.ac.num \in Int /\ begun.e \in Nat
      /\ Words(begun) \in Int /\ DOMAIN begun.mem = Addr
      /\ ~begun.ac.bp1.ind /\ ~begun.ac.bp2.ind
  BY BlockBegun DEF Blocks
<1>2. BlockAc(begun.ac) BY <1>1, PtrBegun DEF BlockAc
<1>3. ToMove(begun.ac) = Words(begun) BY DEF ToMove, Words, op
<1>4. Left(begun.mem, begun.ac.bp1.y, begun.ac.bp2.y, Words(begun)) BY <1>1 DEF Left, Whole
<1> QED BY <1>2, <1>3, <1>4 DEF BlockAt

\* A try begins from what the ACs say, or finds there is nothing to move.
LEMMA BlockBegins ==
    ASSUME begun \in Starts, op \in Blocks, BlockAt(mem, ac, x, out), Begin
    PROVE  begun' = begun /\ BlockAt(mem', ac', x', out')
<1>1. PICK gone \in Missing : Try(gone) BY DEF Begin
<1>2. x = Idle /\ out = "" BY <1>1 DEF Try
<1>3. BlockAc(ac) /\ Left(mem, ac.bp1.y, ac.bp2.y, ToMove(ac)) BY <1>2 DEF BlockAt
<1>4. op \notin Moves \cup ToText \cup ToNumber \cup Bytes \cup {"CMPS", "EDIT", "IBP", "ADJBP"}
  BY DEF Blocks, Moves, ToText, ToNumber, Bytes
<1>5. BeginBlock(gone)
  BY <1>1, <1>4 DEF Try, BeginMove, BeginCompare, BeginToText, BeginToNumber, BeginEdit, BeginByte,
                    BeginPointer
<1>6. op = "BLT" \/ op = "XBLT" BY DEF Blocks
<1>7. CASE op = "XBLT" /\ ac.num = 0
  <2>1. begun' = begun /\ mem' = mem /\ x' = x /\ ac' = ac /\ out' = "WON" BY <1>5, <1>7 DEF BeginBlock, Ends
  <2>2. Left(mem, ac.bp1.y, ac.bp2.y, 0) BY <1>3, <1>7 DEF ToMove
  <2>3. Blocked(mem, ac.bp1.y, ac.bp2.y, 0) = Whole BY <1>7, <2>2 DEF Left, Count
  <2>4. mem = Whole BY <2>3, BlockedNone
  <2>5. Words(begun) \in Int /\ begun.ac.bp1.y \in Int /\ begun.ac.bp2.y \in Int BY BlockBegun DEF Blocks
  <2>6. ac.bp1.y = begun.ac.bp1.y + Words(begun) /\ ac.bp2.y = begun.ac.bp2.y + Words(begun)
    BY <2>2, <2>5 DEF Left
  <2>7. Done(mem, ac.bp1.y, ac.bp2.y, 0) BY <2>4, <2>6 DEF Done
  <2>8. Seen(mem, ac, "WON") = BlockGoal BY <1>3, <1>7, <2>7, DoneSeen
  <2> QED BY <1>2, <2>1, <2>8 DEF BlockAt
<1>8. CASE ~(op = "XBLT" /\ ac.num = 0)
  <2> DEFINE y == Fresh(ac.flags, ToMove(ac))
  <2>1. begun' = begun /\ mem' = mem /\ x' = y /\ ac' = ac /\ out' = out
    BY <1>5, <1>6, <1>8 DEF BeginBlock, Goes, ToMove
  <2>2. /\ DOMAIN y = TryFields /\ y.op = op /\ y.mem = mem /\ y.res = "RUN" /\ y.num = ToMove(ac)
        /\ y.s1 = Clean(ac.bp1) /\ y.s2 = Clean(ac.bp2) /\ y.first = TRUE
    BY DEF Fresh, TryFields
  <2> HIDE DEF y
  <2>3. ac.bp1.ind = FALSE \/ ~ac.bp1.ind BY <1>3 DEF BlockAc
  <2>4. /\ DOMAIN y.s1 = CleanFields /\ DOMAIN y.s2 = CleanFields /\ y.s1.vp = FALSE
        /\ y.s1.y = ac.bp1.y /\ y.s2.y = ac.bp2.y
    BY <1>3, <2>2 DEF Clean, CleanFields, BlockAc
  <2>5. op = "XBLT" => y.num # 0 BY <1>8, <2>2 DEF ToMove
  <2>6. Moving(y) BY <1>3, <2>2, <2>4, <2>5 DEF Moving
  <2>7. y # Idle BY <2>2 DEF Idle
  <2> QED BY <1>2, <1>3, <2>1, <2>2, <2>6, <2>7 DEF BlockAt
<1> QED BY <1>7, <1>8

\* A turn moves a word of what is left.
LEMMA BlockTurns ==
    ASSUME begun \in Starts, op \in Blocks, BlockAt(mem, ac, x, out), Turn
    PROVE  begun' = begun /\ BlockAt(mem', ac', x', out')
<1>1. PICK gone \in Missing, brk \in BOOLEAN : TurnWith(gone, brk) BY DEF Turn
<1> DEFINE z == Step(x, gone, brk)
<1>2. x.res = "RUN" /\ x' = z /\ mem' = z.mem /\ begun' = begun /\ ac' = ac /\ out' = out
  BY <1>1 DEF TurnWith
<1>3. x # Idle BY <1>2 DEF Idle
<1>4. out = "" /\ x.mem = mem /\ Moving(x) /\ BlockAc(ac) BY <1>3 DEF BlockAt
<1>5. x.op = op BY <1>4 DEF Moving
<1>6. Moving(z)
  <2>1. CASE op = "BLT"
    <3>1. z = BltStep(x, gone, brk) BY <1>5, <2>1, StepFact
    <3>2. Moving(BltStep(x, gone, brk)) BY <1>2, <1>4, <2>1, BltMoves
    <3> QED BY <3>1, <3>2
  <2>2. CASE op = "XBLT"
    <3>1. z = XbltStep(x, gone, brk) BY <1>5, <2>2, StepFact
    <3>2. Moving(XbltStep(x, gone, brk)) BY <1>2, <1>4, <2>2, XbltMoves
    <3> QED BY <3>1, <3>2
  <2> QED BY <2>1, <2>2 DEF Blocks
<1> HIDE DEF z
<1>7. z # Idle
  <2>1. z.res # "idle" BY <1>6 DEF Moving
  <2> QED BY <2>1 DEF Idle
<1> QED BY <1>2, <1>4, <1>6, <1>7 DEF BlockAt

\* A try that is over has stored its progress in the ACs.
LEMMA LeaveFact ==
    ASSUME Leave
    PROVE  /\ x # Idle /\ x.res \notin {"idle", "RUN"} /\ ac' = Stored(x) /\ x' = Idle
           /\ begun' = begun /\ mem' = mem
           /\ Trapped(x) => out' = ""
           /\ ~Trapped(x) => out' = x.res
<1>1. x.res \notin {"idle", "RUN"} /\ ac' = Stored(x) /\ x' = Idle BY DEF Leave
<1>2. begun' = begun /\ mem' = mem BY DEF Leave
<1>3. Trapped(x) => out' = "" BY DEF Leave
<1>4. ~Trapped(x) => out' = x.res BY DEF Leave
<1>5. x # Idle
  <2>1. x.res # "idle" BY <1>1
  <2> QED BY <2>1 DEF Idle
<1> QED BY <1>1, <1>2, <1>3, <1>4, <1>5

\* The addresses that are stored are those of what is left, or are behind the block.
LEMMA BlockLeaves ==
    ASSUME begun \in Starts, op \in Blocks, BlockAt(mem, ac, x, out), Leave
    PROVE  begun' = begun /\ BlockAt(mem', ac', x', out')
<1> DEFINE z == Stored(x)
<1>1. /\ x.res \notin {"idle", "RUN"} /\ ac' = z /\ x' = Idle /\ begun' = begun /\ mem' = mem
      /\ Trapped(x) => out' = ""
      /\ ~Trapped(x) => out' = x.res
  BY LeaveFact
<1>2. x # Idle BY LeaveFact
<1>3. out = "" /\ x.mem = mem /\ Moving(x) /\ BlockAc(ac) BY <1>2 DEF BlockAt
<1>4. x.op = op /\ x.res \in {"PF", "PI", "WON"} BY <1>1, <1>3 DEF Moving
<1>5. BlockAc(z) /\ z.bp1.y = x.s1.y /\ z.bp2.y = x.s2.y /\ (op = "XBLT" => z.num = x.num)
  <2>1. CASE op = "BLT"
    <3>1. z = [ac EXCEPT !.bp1.y = x.s1.y, !.bp2.y = x.s2.y]
      BY <1>4, <2>1 DEF Stored, ToText, ToNumber, Bytes
    <3> HIDE DEF z
    <3> QED BY <1>3, <2>1, <3>1 DEF BlockAc, AcFields, PtrFields
  <2>2. CASE op = "XBLT"
    <3>1. z = [ac EXCEPT !.bp1.y = x.s1.y, !.bp2.y = x.s2.y, !.num = x.num]
      BY <1>4, <2>2 DEF Stored, ToText, ToNumber, Bytes
    <3> HIDE DEF z
    <3> QED BY <1>3, <2>2, <3>1 DEF BlockAc, AcFields, PtrFields
  <2> QED BY <2>1, <2>2 DEF Blocks
<1> HIDE DEF z
<1>6. CASE Trapped(x)
  <2>1. Left(mem, z.bp1.y, z.bp2.y, x.num) BY <1>3, <1>4, <1>5, <1>6 DEF Moving, Trapped
  <2>2. ToMove(z) = x.num
    <3>1. CASE op = "BLT"
      <4>1. z.bp2.y + x.num = begun.ac.bp2.y + Words(begun) /\ z.bp2.y \in Int /\ x.num \in Int
        BY <2>1 DEF Left
      <4>2. Words(begun) = begun.e - begun.ac.bp2.y + 1 BY <3>1 DEF Words, op
      <4>3. begun.e \in Int /\ begun.ac.bp2.y \in Int BY BlockBegun DEF Blocks
      <4> QED BY <3>1, <4>1, <4>2, <4>3 DEF ToMove
    <3>2. CASE op = "XBLT" BY <1>5, <3>2 DEF ToMove
    <3> QED BY <3>1, <3>2 DEF Blocks
  <2> QED BY <1>1, <1>5, <1>6, <2>1, <2>2 DEF BlockAt
<1>7. CASE ~Trapped(x)
  <2>1. x.res = "WON" /\ out' = "WON" BY <1>1, <1>4, <1>7 DEF Trapped
  <2>2. Done(mem, z.bp1.y, z.bp2.y, x.num) BY <1>3, <1>5, <2>1 DEF Moving
  <2>3. op = "XBLT" => z.num = 0 BY <1>5, <2>2 DEF Done
  <2>4. Seen(mem, z, "WON") = BlockGoal BY <1>5, <2>2, <2>3, DoneSeen
  <2> QED BY <1>1, <2>1, <2>4 DEF BlockAt
<1> QED BY <1>6, <1>7

\* Whatever a block instruction does, it goes on with what is left of the block.
LEMMA BlocksKeep ==
    ASSUME begun \in Starts, op \in Blocks, BlockAt(mem, ac, x, out), Next
    PROVE  begun' = begun /\ BlockAt(mem', ac', x', out')
BY BlockBegins, BlockTurns, BlockLeaves DEF Next

\* Nothing is known to be wrong with it.
LEMMA NoDeparture == op \notin {"MOVSRJ", "MOVSO", "CVTDBT"} => ~Departs(begun)
BY DEF Departs, op

\* So it is resumable, and does all at once.
LEMMA BlocksServed ==
    ASSUME begun \in Starts, op \in Blocks, BlockAt(mem, ac, x, out)
    PROVE  Resumable /\ AllAtOnce
<1>1. Effect(begun, begun.mem, begun.ac) = BlockGoal
  <2>1. /\ BlockAc(begun.ac)
        /\ Left(begun.mem, begun.ac.bp1.y, begun.ac.bp2.y, ToMove(begun.ac))
    BY BlockStarts DEF BlockAt
  <2> QED BY <2>1, LeftAsks
<1>2. x = Idle /\ out = "" => Effect(begun, mem, ac) = BlockGoal BY LeftAsks DEF BlockAt
<1>3. out # "" => Seen(mem, ac, out) = BlockGoal BY DEF BlockAt
<1>4. ~Departs(begun) BY NoDeparture DEF Blocks
<1> QED BY <1>1, <1>2, <1>3, <1>4 DEF Resumable, AllAtOnce

-----------------------------------------------------------------------------
(* Where pointers are                                                      *)

\* Word and byte of a position.
LEMMA DivFact ==
    ASSUME NEW q \in Int, NEW r \in 0..(BytesPerWord - 1)
    PROVE  (q * BytesPerWord + r) \div BytesPerWord = q /\ (q * BytesPerWord + r) % BytesPerWord = r
<1> DEFINE X == q * BytesPerWord + r
           d == X \div BytesPerWord
           m == X % BytesPerWord
<1>0. BytesPerWord \in Nat \ {0} BY WordAssumption
<1>1. X \in Int BY <1>0
<1>2. d \in Int /\ m \in 0..(BytesPerWord - 1) /\ X = BytesPerWord * d + m
  <2> HIDE DEF X
  <2> QED BY <1>0, <1>1
<1> HIDE DEF d, m
<1> DEFINE k == q - d
<1>3. k \in Int /\ k * BytesPerWord = m - r
  <2>1. k * BytesPerWord = q * BytesPerWord - d * BytesPerWord BY <1>0, <1>2
  <2>2. q * BytesPerWord + r = BytesPerWord * d + m BY <1>0, <1>2
  <2>3. q * BytesPerWord \in Int /\ d * BytesPerWord \in Int /\ BytesPerWord * d = d * BytesPerWord BY <1>0, <1>2
  <2> QED BY <1>0, <1>2, <2>1, <2>2, <2>3
<1>4. k = 0
  <2> HIDE DEF k
  <2>1. ASSUME k >= 1 PROVE FALSE
    <3>1. (k - 1) * BytesPerWord >= 0 BY <1>0, <1>3, <2>1
    <3>2. (k - 1) * BytesPerWord = k * BytesPerWord - BytesPerWord BY <1>0, <1>3
    <3> QED BY <1>0, <1>2, <1>3, <3>1, <3>2
  <2>2. ASSUME k <= -1 PROVE FALSE
    <3>1. ((-1) - k) * BytesPerWord >= 0 BY <1>0, <1>3, <2>2
    <3>2. ((-1) - k) * BytesPerWord = -(k * BytesPerWord) - BytesPerWord BY <1>0, <1>3
    <3>3. k * BytesPerWord \in Int BY <1>0, <1>3
    <3> QED BY <1>0, <1>2, <1>3, <3>1, <3>2, <3>3
  <2> QED BY <1>0, <1>3, <2>1, <2>2
<1>5. q = d /\ m = r BY <1>0, <1>2, <1>3, <1>4
<1> QED BY <1>0, <1>5 DEF d, m

\* A pointer's numbers.
Sane(bp) == bp.p \in 0..BytesPerWord /\ bp.y \in Int

\* Positions are numbers.
LEMMA PositionFact ==
    ASSUME NEW bp, Sane(bp)
    PROVE  /\ Position(bp) = bp.y * BytesPerWord + (BytesPerWord - bp.p)
           /\ Position(bp) \in Int /\ bp.y * BytesPerWord \in Int
<1>1. BytesPerWord \in Nat /\ bp.p \in Int /\ bp.y \in Int BY WordAssumption DEF Sane
<1>2. bp.y * BytesPerWord \in Int BY <1>1
<1> QED BY <1>1, <1>2 DEF Position

\* Where a byte is depends on the position only.
LEMMA PlaceFact ==
    ASSUME NEW bp, NEW bq, Sane(bp), Sane(bq), NEW j \in Int, NEW k \in Int,
           Position(bp) + j = Position(bq) + k, bp.ind = bq.ind
    PROVE  Place(bp, j) = Place(bq, k)
<1>1. Position(bp) + j - 1 = Position(bq) + k - 1 BY PositionFact
<1> QED BY <1>1 DEF Place

\* A place from the two parts of its position.
LEMMA PlaceIs ==
    ASSUME NEW bp, NEW k, NEW y, NEW i,
           (Position(bp) + k - 1) \div BytesPerWord = y, (Position(bp) + k - 1) % BytesPerWord = i
    PROVE  Place(bp, k) = <<IF bp.ind THEN Chain[y] ELSE y, i + 1>>
BY DEF Place

\* The byte a pointer is at.
LEMMA HereFact ==
    ASSUME NEW bp, Sane(bp), bp.p < BytesPerWord
    PROVE  Place(bp, 0) = <<IF bp.ind THEN Chain[bp.y] ELSE bp.y, BytesPerWord - bp.p>>
<1> DEFINE r == BytesPerWord - bp.p
<1>1. BytesPerWord \in Nat \ {0} /\ bp.p \in 0..BytesPerWord /\ bp.y \in Int
  BY WordAssumption DEF Sane
<1>2. Position(bp) = bp.y * BytesPerWord + r /\ bp.y * BytesPerWord \in Int
  BY PositionFact
<1>3. r - 1 \in 0..(BytesPerWord - 1) /\ r \in Int BY <1>1
<1> HIDE DEF r
<1>4. Position(bp) + 0 - 1 = bp.y * BytesPerWord + (r - 1) BY <1>2, <1>3
<1>5. /\ (Position(bp) + 0 - 1) \div BytesPerWord = bp.y
      /\ (Position(bp) + 0 - 1) % BytesPerWord = r - 1
  BY <1>1, <1>3, <1>4, DivFact
<1>6. Place(bp, 0) = <<IF bp.ind THEN Chain[bp.y] ELSE bp.y, (r - 1) + 1>> BY <1>5, PlaceIs
<1>7. (r - 1) + 1 = BytesPerWord - bp.p BY <1>1 DEF r
<1> QED BY <1>6, <1>7

\* An increment is one position more.
LEMMA IncrementedFact ==
    ASSUME NEW bp, Sane(bp), DOMAIN bp = PtrFields
    PROVE  LET b1 == Incremented(bp)
           IN /\ Sane(b1) /\ DOMAIN b1 = PtrFields /\ b1.ind = bp.ind /\ b1.p < BytesPerWord
              /\ Position(b1) = Position(bp) + 1
<1> DEFINE b1 == Incremented(bp)
<1>1. BytesPerWord \in Nat \ {0} /\ bp.p \in 0..BytesPerWord /\ bp.y \in Int
  BY WordAssumption DEF Sane
<1>2. CASE bp.p > 0
  <2>1. b1 = [bp EXCEPT !.p = bp.p - 1] BY <1>2 DEF Incremented
  <2> HIDE DEF b1
  <2>2. DOMAIN b1 = PtrFields /\ b1.ind = bp.ind /\ b1.p = bp.p - 1 /\ b1.y = bp.y
    BY <2>1 DEF PtrFields
  <2>3. Sane(b1) /\ b1.p < BytesPerWord BY <1>1, <1>2, <2>2 DEF Sane
  <2>4. Position(b1) = Position(bp) + 1
    <3>1. /\ Position(b1) = bp.y * BytesPerWord + (BytesPerWord - (bp.p - 1))
          /\ Position(bp) = bp.y * BytesPerWord + (BytesPerWord - bp.p)
          /\ bp.y * BytesPerWord \in Int
      BY <2>2, <2>3, PositionFact
    <3> QED BY <1>1, <3>1
  <2> QED BY <2>2, <2>3, <2>4 DEF b1
<1>3. CASE bp.p = 0
  <2>1. b1 = [bp EXCEPT !.p = BytesPerWord - 1, !.y = bp.y + 1] BY <1>3 DEF Incremented
  <2> HIDE DEF b1
  <2>2. DOMAIN b1 = PtrFields /\ b1.ind = bp.ind /\ b1.p = BytesPerWord - 1 /\ b1.y = bp.y + 1
    BY <2>1 DEF PtrFields
  <2>3. Sane(b1) /\ b1.p < BytesPerWord BY <1>1, <2>2 DEF Sane
  <2>4. Position(b1) = Position(bp) + 1
    <3>1. /\ Position(b1) = (bp.y + 1) * BytesPerWord + (BytesPerWord - (BytesPerWord - 1))
          /\ Position(bp) = bp.y * BytesPerWord + (BytesPerWord - 0)
          /\ bp.y * BytesPerWord \in Int
      BY <1>3, <2>2, <2>3, PositionFact
    <3>2. (bp.y + 1) * BytesPerWord = bp.y * BytesPerWord + BytesPerWord BY <1>1
    <3> QED BY <1>1, <3>1, <3>2
  <2> QED BY <2>2, <2>3, <2>4 DEF b1
<1> QED BY <1>1, <1>2, <1>3

\* ADJBP is as many positions more.
LEMMA AdjustedFact ==
    ASSUME NEW bp, Sane(bp), DOMAIN bp = PtrFields, NEW n \in Int
    PROVE  Position(Adjusted(bp, n)) = Position(bp) + n
<1> DEFINE l == BytesPerWord - bp.p
           cw == n + l
           mag == IF cw < 0 THEN -cw ELSE cw
           d == mag \div BytesPerWord
           r == mag % BytesPerWord
           q == d * (IF cw < 0 THEN -1 ELSE 1)
           back == cw < 0 \/ r = 0
           y == bp.y + q - (IF back THEN 1 ELSE 0)
           p == BytesPerWord - (IF back THEN BytesPerWord - r ELSE r)
           b1 == [bp EXCEPT !.y = y, !.p = p]
<1>1. BytesPerWord \in Nat \ {0} /\ bp.p \in 0..BytesPerWord /\ bp.y \in Int
  BY WordAssumption DEF Sane
<1>2. Adjusted(bp, n) = b1 BY DEF Adjusted
<1>3. l \in Int /\ cw \in Int /\ mag \in Nat BY <1>1
<1>4. d \in Int /\ r \in 0..(BytesPerWord - 1) /\ mag = BytesPerWord * d + r
  <2> HIDE DEF mag
  <2> QED BY <1>1, <1>3
<1>5. b1.y = y /\ b1.p = p BY DEF PtrFields
<1>6. Position(b1) = y * BytesPerWord + BytesPerWord - p BY <1>5 DEF Position
<1>7. BytesPerWord * d \in Int /\ bp.y * BytesPerWord \in Int /\ y \in Int BY <1>1, <1>4
<1>8. y * BytesPerWord + BytesPerWord - p = bp.y * BytesPerWord + cw
  <2>1. CASE cw < 0
    <3>1. y = bp.y - d - 1 /\ p = r BY <1>1, <1>4, <2>1
    <3>2. mag = -cw BY <2>1
    <3> HIDE DEF y, p, d, r, mag, cw
    <3>3. y * BytesPerWord = bp.y * BytesPerWord - BytesPerWord * d - BytesPerWord
      BY <1>1, <1>4, <3>1
    <3> QED BY <1>1, <1>3, <1>4, <1>7, <3>1, <3>2, <3>3
  <2>2. CASE ~(cw < 0) /\ r = 0
    <3>1. y = bp.y + d - 1 /\ p = 0 BY <1>1, <1>4, <2>2
    <3>2. mag = cw BY <2>2
    <3> HIDE DEF y, p, d, r, mag, cw
    <3>3. y * BytesPerWord = bp.y * BytesPerWord + BytesPerWord * d - BytesPerWord
      BY <1>1, <1>4, <3>1
    <3>4. cw = BytesPerWord * d BY <1>3, <1>4, <1>7, <2>2, <3>2
    <3> QED BY <1>1, <1>3, <1>7, <3>1, <3>3, <3>4
  <2>3. CASE ~(cw < 0) /\ r # 0
    <3>1. y = bp.y + d /\ p = BytesPerWord - r BY <1>1, <1>4, <2>3
    <3>2. mag = cw BY <2>3
    <3> HIDE DEF y, p, d, r, mag, cw
    <3>3. y * BytesPerWord = bp.y * BytesPerWord + BytesPerWord * d BY <1>1, <1>4, <3>1
    <3> QED BY <1>1, <1>3, <1>4, <1>7, <3>1, <3>2, <3>3
  <2> QED BY <2>1, <2>2, <2>3
<1>9. Position(bp) + n = bp.y * BytesPerWord + cw
  <2>1. Position(bp) = bp.y * BytesPerWord + l BY PositionFact
  <2> HIDE DEF l
  <2> QED BY <1>3, <1>7, <2>1
<1> HIDE DEF b1, y, p, cw
<1> QED BY <1>2, <1>6, <1>8, <1>9

-----------------------------------------------------------------------------
(* Bytes                                                                   *)

TwoParts == {"ILDB", "IDPB"}
ToTake(a) == IF op \in TwoParts /\ "FPD" \notin a.flags THEN 1 ELSE 0

\* The byte meant, what is to be in memory and in the AC, and all there is to be seen.
TheByte == Place(begun.ac.bp1, ToTake(begun.ac))
MemGoal == IF op \in {"LDB", "ILDB"} THEN begun.mem
           ELSE [begun.mem EXCEPT ![TheByte[1]][TheByte[2]] = begun.ac.num]
NumGoal == IF op \in {"LDB", "ILDB"} THEN begun.mem[TheByte[1]][TheByte[2]] ELSE begun.ac.num
ByteGoal ==
    [mem |-> MemGoal, how |-> "WON", flags |-> begun.ac.flags \ {"FPD"}, num |-> NumGoal,
     at |-> begun.ac.at, mark |-> Position(begun.ac.mark),
     len1 |-> begun.ac.len1, at1 |-> Position(begun.ac.bp1) + ToTake(begun.ac),
     len2 |-> begun.ac.len2, at2 |-> Position(begun.ac.bp2)]

\* The ACs before the first part and after it.
Rested(a) ==
    /\ DOMAIN a = AcFields /\ a.bp2 = begun.ac.bp2 /\ a.num = begun.ac.num /\ a.len1 = begun.ac.len1
    /\ a.len2 = begun.ac.len2 /\ a.at = begun.ac.at /\ a.mark = begun.ac.mark
ByteAc(a) ==
    /\ Rested(a)
    /\ \/ a.bp1 = begun.ac.bp1 /\ a.flags = begun.ac.flags
       \/ /\ ToTake(begun.ac) = 1
          /\ a.bp1 = Incremented(begun.ac.bp1) /\ a.flags = begun.ac.flags \cup {"FPD"}

\* A try with the first part done.
Carrying(y, a) ==
    /\ y.op = op /\ DOMAIN y = TryFields /\ y.res \in {"RUN", "PF", "WON"} /\ ToTake(a) = 0
    /\ y.res # "WON" => y.flags = a.flags /\ y.num = a.num /\ y.s1 = Clean(a.bp1) /\ y.mem = begun.mem
    /\ y.res = "WON" => y.flags = begun.ac.flags \ {"FPD"} /\ y.num = NumGoal /\ y.mem = MemGoal

ByteAt(m, a, y, how) ==
    /\ y = Idle => /\ how = "" => m = begun.mem /\ ByteAc(a)
                   /\ how # "" => Seen(m, a, how) = ByteGoal
    /\ y # Idle => how = "" /\ y.mem = m /\ Carrying(y, a) /\ ByteAc(a)

\* The pointer an instruction begins with, and the flags.
LEMMA ByteBegun ==
    ASSUME begun \in Starts, op \in Bytes
    PROVE  /\ Sane(begun.ac.bp1) /\ DOMAIN begun.ac.bp1 = PtrFields /\ DOMAIN begun.ac = AcFields
           /\ op \notin TwoParts => "FPD" \notin begun.ac.flags
           /\ ToTake(begun.ac) = 0 => begun.ac.bp1.p < BytesPerWord
<1>1. begun.ac \in ACs BY StartsAssumption
<1>2. begun.ac.bp1 \in Pointer /\ DOMAIN begun.ac = AcFields BY <1>1 DEF ACs, AcFields
<1>3. \A bp \in Pointer : DOMAIN bp = PtrFields /\ Sane(bp)
  BY WordAssumption DEF Pointer, PtrFields, Sane
<1>4. /\ op \in {"LDB", "DPB"} => "FPD" \notin begun.ac.flags
      /\ op \in {"LDB", "DPB"} \/ "FPD" \in begun.ac.flags => begun.ac.bp1.p < BytesPerWord
  BY BytesAssumption DEF op
<1>5. op \in {"LDB", "DPB"} \/ op \in TwoParts BY DEF Bytes, TwoParts
<1>6. op \notin TwoParts => "FPD" \notin begun.ac.flags BY <1>4, <1>5
<1>7. ToTake(begun.ac) = 0 => op \notin TwoParts \/ "FPD" \in begun.ac.flags BY DEF ToTake
<1> QED BY <1>2, <1>3, <1>4, <1>5, <1>6, <1>7

\* Where the pointer is, with what is still to be taken of it, does not change.
LEMMA ByteAcFact ==
    ASSUME begun \in Starts, op \in Bytes, NEW a, ByteAc(a)
    PROVE  /\ Sane(a.bp1) /\ DOMAIN a.bp1 = PtrFields
           /\ Position(a.bp1) + ToTake(a) = Position(begun.ac.bp1) + ToTake(begun.ac)
           /\ Place(a.bp1, ToTake(a)) = TheByte
           /\ a.flags \ {"FPD"} = begun.ac.flags \ {"FPD"}
           /\ ToTake(a) = 0 => a.bp1.p < BytesPerWord
           /\ op \notin TwoParts => "FPD" \notin a.flags
<1>1. Sane(begun.ac.bp1) /\ DOMAIN begun.ac.bp1 = PtrFields BY ByteBegun
<1>2. CASE a.bp1 = begun.ac.bp1 /\ a.flags = begun.ac.flags
  <2>1. ToTake(a) = ToTake(begun.ac) BY <1>2 DEF ToTake
  <2> QED BY <1>1, <1>2, <2>1, ByteBegun DEF TheByte
<1>3. CASE /\ ToTake(begun.ac) = 1
           /\ a.bp1 = Incremented(begun.ac.bp1) /\ a.flags = begun.ac.flags \cup {"FPD"}
  <2>1. ToTake(a) = 0 /\ "FPD" \in a.flags BY <1>3 DEF ToTake
  <2>2. op \in TwoParts BY <1>3 DEF ToTake
  <2>3. /\ Sane(a.bp1) /\ DOMAIN a.bp1 = PtrFields /\ a.bp1.ind = begun.ac.bp1.ind
        /\ a.bp1.p < BytesPerWord /\ Position(a.bp1) = Position(begun.ac.bp1) + 1
    BY <1>1, <1>3, IncrementedFact
  <2>4. Position(a.bp1) \in Int BY <2>3, PositionFact
  <2>5. Position(a.bp1) + 0 = Position(begun.ac.bp1) + 1 BY <2>3, <2>4
  <2>6. Place(a.bp1, 0) = Place(begun.ac.bp1, 1) BY <1>1, <2>3, <2>5, PlaceFact
  <2>7. Place(a.bp1, ToTake(a)) = TheByte BY <1>3, <2>1, <2>6 DEF TheByte
  <2>8. a.flags \ {"FPD"} = begun.ac.flags \ {"FPD"} BY <1>3
  <2>9. Position(a.bp1) + ToTake(a) = Position(begun.ac.bp1) + ToTake(begun.ac) BY <1>3, <2>1, <2>5
  <2> QED BY <2>1, <2>2, <2>3, <2>7, <2>8, <2>9
<1> QED BY <1>2, <1>3 DEF ByteAc

\* What a byte instruction is to do from there is what it was to do.
LEMMA ByteAsks ==
    ASSUME begun \in Starts, op \in Bytes, NEW a, ByteAc(a)
    PROVE  Effect(begun, begun.mem, a) = ByteGoal
<1> DEFINE on == ToTake(a)
           m == begun.mem
           r == Seen(m, a, "WON")
           flags == a.flags \ {"FPD"}
           there == Position(a.bp1) + on
           at == Place(a.bp1, on)
           done == [r EXCEPT !.flags = @ \ {"FPD"}, !.at1 = @ + on]
           e == Effect(begun, m, a)
<1>1. e = ByteEffect(begun, m, a)
  <2>1. op \notin ToText \cup ToNumber \cup {"MOVSLJ", "MOVSO", "MOVST", "MOVSRJ", "CMPS", "EDIT", "BLT", "XBLT"}
    BY DEF Bytes, ToText, ToNumber
  <2> QED BY <2>1 DEF Effect, op, Bytes, ToText, ToNumber
<1>2. ByteEffect(begun, m, a) = IF op \in {"LDB", "ILDB"} THEN [done EXCEPT !.num = m[at[1]][at[2]]]
                                ELSE [done EXCEPT !.mem[at[1]][at[2]] = a.num]
  BY DEF ByteEffect, ToTake, TwoParts, op
<1>3. /\ at = TheByte /\ there = Position(begun.ac.bp1) + ToTake(begun.ac)
      /\ flags = begun.ac.flags \ {"FPD"}
  BY ByteAcFact
<1>4. /\ a.bp2 = begun.ac.bp2 /\ a.num = begun.ac.num /\ a.len1 = begun.ac.len1
      /\ a.len2 = begun.ac.len2 /\ a.at = begun.ac.at /\ a.mark = begun.ac.mark
  BY DEF ByteAc, Rested
<1>5. done = [mem |-> m, how |-> "WON", flags |-> flags, num |-> a.num, at |-> a.at,
              mark |-> Position(a.mark), len1 |-> a.len1, at1 |-> there, len2 |-> a.len2,
              at2 |-> Position(a.bp2)]
  <2>1. r = Report(m, a, a.num, Position(a.bp1), Position(a.bp2)) BY SeenFact
  <2>2. done = [r EXCEPT !.flags = flags, !.at1 = there]
    <3>1. r.flags = a.flags /\ r.at1 = Position(a.bp1) BY <2>1 DEF Report
    <3> HIDE DEF r
    <3> QED BY <3>1
  <2> HIDE DEF done, r, flags, there, m
  <2> QED BY <2>1, <2>2 DEF Report
<1> HIDE DEF done, at, there, flags, e, m
<1>6. CASE op \in {"LDB", "ILDB"}
  <2>1. e = [done EXCEPT !.num = m[at[1]][at[2]]] BY <1>1, <1>2, <1>6
  <2>2. MemGoal = m /\ NumGoal = m[at[1]][at[2]] BY <1>3, <1>6 DEF MemGoal, NumGoal, m
  <2> DEFINE v == m[at[1]][at[2]]
  <2>3. e = [done EXCEPT !.num = v] /\ NumGoal = v BY <2>1, <2>2
  <2> HIDE DEF v
  <2>4. e = ByteGoal BY <1>3, <1>4, <1>5, <2>2, <2>3 DEF ByteGoal
  <2> QED BY <2>4 DEF e, m
<1>7. CASE op \notin {"LDB", "ILDB"}
  <2> DEFINE m1 == [m EXCEPT ![at[1]][at[2]] = a.num]
  <2>1. e = [done EXCEPT !.mem[at[1]][at[2]] = a.num] BY <1>1, <1>2, <1>7
  <2>2. e = [done EXCEPT !.mem = m1] BY <1>5, <2>1
  <2>3. MemGoal = m1 /\ NumGoal = a.num BY <1>3, <1>4, <1>7 DEF MemGoal, NumGoal, m
  <2> HIDE DEF m1
  <2>4. e = ByteGoal BY <1>3, <1>4, <1>5, <2>2, <2>3 DEF ByteGoal
  <2> QED BY <2>4 DEF e, m
<1> QED BY <1>6, <1>7

\* Done: what is seen.
LEMMA ByteSeen ==
    ASSUME begun \in Starts, op \in Bytes, NEW a, ByteAc(a), ToTake(a) = 0, NEW z,
           z = [a EXCEPT !.flags = begun.ac.flags \ {"FPD"}, !.num = NumGoal]
    PROVE  Seen(MemGoal, z, "WON") = ByteGoal
<1>1. Position(a.bp1) + ToTake(a) = Position(begun.ac.bp1) + ToTake(begun.ac) /\ Position(a.bp1) \in Int
  BY ByteAcFact, PositionFact
<1>2. Position(a.bp1) = Position(begun.ac.bp1) + ToTake(begun.ac) BY <1>1
<1>3. DOMAIN a = AcFields BY DEF ByteAc, Rested
<1>4. /\ z.flags = begun.ac.flags \ {"FPD"} /\ z.num = NumGoal /\ z.at = begun.ac.at
      /\ z.mark = begun.ac.mark /\ z.len1 = begun.ac.len1 /\ z.bp1 = a.bp1
      /\ z.len2 = begun.ac.len2 /\ z.bp2 = begun.ac.bp2
  BY <1>3 DEF ByteAc, Rested, AcFields
<1> QED BY <1>2, <1>4 DEF Seen, ByteGoal

\* A byte instruction as it is first met.
LEMMA ByteStarts ==
    ASSUME begun \in Starts, op \in Bytes
    PROVE  ByteAc(begun.ac)
BY ByteBegun DEF ByteAc, Rested

\* The first part is done once.
LEMMA ByteBegins ==
    ASSUME begun \in Starts, op \in Bytes, ByteAt(mem, ac, x, out), Begin
    PROVE  begun' = begun /\ ByteAt(mem', ac', x', out')
<1>1. PICK gone \in Missing : Try(gone) BY DEF Begin
<1>2. x = Idle /\ out = "" BY <1>1 DEF Try
<1>3. mem = begun.mem /\ ByteAc(ac) BY <1>2 DEF ByteAt
<1>4. op \notin Moves \cup ToText \cup ToNumber \cup {"CMPS", "EDIT", "BLT", "XBLT", "IBP", "ADJBP"}
  BY DEF Bytes, Moves, ToText, ToNumber
<1>5. BeginByte(gone)
  BY <1>1, <1>4 DEF Try, BeginMove, BeginCompare, BeginToText, BeginToNumber, BeginEdit, BeginBlock,
                    BeginPointer
<1> DEFINE first == op \in {"ILDB", "IDPB"} /\ "FPD" \notin ac.flags
           bp == IF first THEN Incremented(ac.bp1) ELSE ac.bp1
           flags == IF first THEN ac.flags \cup {"FPD"} ELSE ac.flags
           y == [Fresh(flags, ac.num) EXCEPT !.s1 = Clean(bp)]
           a == [ac EXCEPT !.bp1 = bp, !.flags = flags]
<1>6. \/ UNCHANGED vars
      \/ ac' = a /\ (Goes(y) \/ UNCHANGED <<begun, mem, x, out>>)
  BY <1>5 DEF BeginByte, Fails
<1>7. ByteAc(a) /\ ToTake(a) = 0 /\ a.bp1 = bp /\ a.flags = flags /\ a.num = ac.num
  <2>1. DOMAIN ac = AcFields BY <1>3 DEF ByteAc, Rested
  <2>2. Rested(a) /\ a.bp1 = bp /\ a.flags = flags /\ a.num = ac.num
    <3> HIDE DEF bp, flags
    <3> QED BY <1>3, <2>1 DEF ByteAc, Rested, AcFields
  <2> HIDE DEF a
  <2>3. CASE first
    <3>1. ac.bp1 = begun.ac.bp1 /\ ac.flags = begun.ac.flags BY <1>3, <2>3 DEF ByteAc
    <3>2. ToTake(begun.ac) = 1 BY <2>3, <3>1 DEF ToTake, TwoParts
    <3>3. a.bp1 = Incremented(begun.ac.bp1) /\ a.flags = begun.ac.flags \cup {"FPD"}
      BY <2>2, <2>3, <3>1
    <3>4. ToTake(a) = 0 BY <3>3 DEF ToTake
    <3> QED BY <2>2, <3>2, <3>3, <3>4 DEF ByteAc
  <2>4. CASE ~first
    <3>1. a.bp1 = ac.bp1 /\ a.flags = ac.flags BY <2>2, <2>4
    <3>2. ToTake(a) = 0 BY <2>4, <3>1 DEF ToTake, TwoParts
    <3> QED BY <1>3, <2>2, <3>1, <3>2 DEF ByteAc
  <2> QED BY <2>3, <2>4
<1>8. /\ y.op = op /\ DOMAIN y = TryFields /\ y.res = "RUN" /\ y.flags = flags /\ y.num = ac.num
      /\ y.s1 = Clean(bp) /\ y.mem = mem
  BY DEF Fresh, TryFields
<1> HIDE DEF first, bp, flags, y, a
<1>9. CASE UNCHANGED vars BY <1>2, <1>3, <1>9 DEF vars, ByteAt
<1>10. CASE ac' = a /\ UNCHANGED <<begun, mem, x, out>> BY <1>2, <1>3, <1>7, <1>10 DEF ByteAt
<1>11. CASE ac' = a /\ Goes(y)
  <2>1. Carrying(y, a) BY <1>3, <1>7, <1>8 DEF Carrying
  <2>2. y # Idle BY <1>8 DEF Idle
  <2> QED BY <1>2, <1>7, <1>8, <1>11, <2>1, <2>2 DEF ByteAt, Goes
<1> QED BY <1>6, <1>9, <1>10, <1>11

\* The second part moves the byte that was meant, or none.
LEMMA ByteTurns ==
    ASSUME begun \in Starts, op \in Bytes, ByteAt(mem, ac, x, out), Turn
    PROVE  begun' = begun /\ ByteAt(mem', ac', x', out')
<1>1. PICK gone \in Missing, brk \in BOOLEAN : TurnWith(gone, brk) BY DEF Turn
<1> DEFINE z == Step(x, gone, brk)
<1>2. x.res = "RUN" /\ x' = z /\ mem' = z.mem /\ begun' = begun /\ ac' = ac /\ out' = out
  BY <1>1 DEF TurnWith
<1>3. x # Idle BY <1>2 DEF Idle
<1>4. out = "" /\ x.mem = mem /\ Carrying(x, ac) /\ ByteAc(ac) BY <1>3 DEF ByteAt
<1>5. /\ x.op = op /\ DOMAIN x = TryFields /\ ToTake(ac) = 0
      /\ x.flags = ac.flags /\ x.num = ac.num /\ x.s1 = Clean(ac.bp1) /\ x.mem = begun.mem
  BY <1>2, <1>4 DEF Carrying
<1>6. z = ByteStep(x, gone) BY <1>5, StepFact
<1> DEFINE i == BytesPerWord - x.s1.p
<1>7. x.s1.y = TheByte[1] /\ i = TheByte[2]
  <2>1. Sane(ac.bp1) /\ ac.bp1.p < BytesPerWord /\ Place(ac.bp1, 0) = TheByte BY <1>4, <1>5, ByteAcFact
  <2>2. TheByte = <<IF ac.bp1.ind THEN Chain[ac.bp1.y] ELSE ac.bp1.y, BytesPerWord - ac.bp1.p>>
    BY <2>1, HereFact
  <2>3. x.s1.y = (IF ac.bp1.ind THEN Chain[ac.bp1.y] ELSE ac.bp1.y) /\ x.s1.p = ac.bp1.p
    BY <1>5 DEF Clean
  <2> QED BY <2>2, <2>3
<1>8. x.num = begun.ac.num BY <1>4, <1>5 DEF ByteAc, Rested
<1> DEFINE flags == IF op \in {"ILDB", "IDPB"} THEN x.flags \ {"FPD"} ELSE x.flags
<1>9. flags = begun.ac.flags \ {"FPD"}
  <2>1. /\ ac.flags \ {"FPD"} = begun.ac.flags \ {"FPD"}
        /\ op \notin TwoParts => "FPD" \notin ac.flags
    BY <1>4, ByteAcFact
  <2> QED BY <1>5, <2>1 DEF TwoParts
<1> HIDE DEF i, flags
<1>10. CASE z = [x EXCEPT !.res = "PF"]
  <2>1. Carrying(z, ac)
    <3> HIDE DEF z
    <3> QED BY <1>5, <1>10 DEF Carrying, TryFields
  <2>2. z # Idle /\ z.mem = z.mem
    <3>1. z.res = "PF" BY <1>5, <1>10 DEF TryFields
    <3> QED BY <3>1 DEF Idle
  <2> QED BY <1>2, <1>4, <2>1, <2>2 DEF ByteAt
<1>11. ASSUME z # [x EXCEPT !.res = "PF"]
       PROVE  /\ op \in {"LDB", "ILDB"} =>
                    z = [x EXCEPT !.flags = flags, !.res = "WON", !.num = begun.mem[x.s1.y][i]]
              /\ op \notin {"LDB", "ILDB"} =>
                    z = [x EXCEPT !.flags = flags, !.res = "WON",
                                  !.mem[x.s1.y] = [begun.mem[x.s1.y] EXCEPT ![i] = x.num]]
  <2>1. z = IF op \in {"LDB", "ILDB"}
            THEN [[x EXCEPT !.flags = flags, !.res = "WON"] EXCEPT !.num = begun.mem[x.s1.y][i]]
            ELSE [[x EXCEPT !.flags = flags, !.res = "WON"] EXCEPT
                      !.mem[x.s1.y] = [begun.mem[x.s1.y] EXCEPT ![i] = x.num]]
    BY <1>5, <1>6, <1>11, Zenon DEF ByteStep, flags, i
  <2> HIDE DEF z
  <2> QED BY <1>5, <2>1
<1>12. CASE z # [x EXCEPT !.res = "PF"]
  <2>1. z.op = op /\ DOMAIN z = TryFields /\ z.res = "WON" /\ z.flags = flags
        /\ z.num = NumGoal /\ z.mem = MemGoal
    <3>1. CASE op \in {"LDB", "ILDB"}
      <4>1. z = [x EXCEPT !.flags = flags, !.res = "WON", !.num = begun.mem[x.s1.y][i]]
        BY <1>11, <1>12, <3>1
      <4>2. NumGoal = begun.mem[x.s1.y][i] /\ MemGoal = begun.mem
        BY <1>7, <3>1 DEF NumGoal, MemGoal
      <4> HIDE DEF z
      <4> QED BY <1>5, <4>1, <4>2 DEF TryFields
    <3>2. CASE op \notin {"LDB", "ILDB"}
      <4> DEFINE m1 == [begun.mem EXCEPT ![x.s1.y] = [begun.mem[x.s1.y] EXCEPT ![i] = x.num]]
      <4>1. z = [x EXCEPT !.flags = flags, !.res = "WON",
                          !.mem[x.s1.y] = [begun.mem[x.s1.y] EXCEPT ![i] = x.num]]
        BY <1>11, <1>12, <3>2
      <4>2. z = [x EXCEPT !.flags = flags, !.res = "WON", !.mem = m1] BY <1>5, <4>1
      <4>3. NumGoal = x.num
        BY <1>8, <3>2 DEF NumGoal
      <4>4. MemGoal = m1
        BY <1>7, <1>8, <3>2 DEF MemGoal
      <4> HIDE DEF z, m1
      <4> QED BY <1>5, <4>2, <4>3, <4>4 DEF TryFields
    <3> QED BY <3>1, <3>2
  <2> HIDE DEF z
  <2>2. Carrying(z, ac) BY <1>5, <1>9, <2>1 DEF Carrying
  <2>3. z # Idle BY <2>1 DEF Idle
  <2> QED BY <1>2, <1>4, <2>2, <2>3 DEF ByteAt
<1> QED BY <1>10, <1>12

\* A try that a trap ends leaves the ACs with the first part done.
LEMMA ByteLeaves ==
    ASSUME begun \in Starts, op \in Bytes, ByteAt(mem, ac, x, out), Leave
    PROVE  begun' = begun /\ ByteAt(mem', ac', x', out')
<1> DEFINE z == Stored(x)
<1>1. /\ x # Idle /\ x.res \notin {"idle", "RUN"} /\ ac' = z /\ x' = Idle
      /\ begun' = begun /\ mem' = mem
      /\ Trapped(x) => out' = ""
      /\ ~Trapped(x) => out' = x.res
  BY LeaveFact
<1>2. out = "" /\ x.mem = mem /\ Carrying(x, ac) /\ ByteAc(ac) BY <1>1 DEF ByteAt
<1>3. x.op = op /\ x.res \in {"PF", "WON"} /\ ToTake(ac) = 0 BY <1>1, <1>2 DEF Carrying
<1>4. z = [ac EXCEPT !.flags = x.flags, !.num = x.num]
  BY <1>3 DEF Stored, ToText, ToNumber, Bytes
<1>5. DOMAIN ac = AcFields BY <1>2 DEF ByteAc, Rested
<1> HIDE DEF z
<1>6. CASE x.res = "PF"
  <2>1. x.flags = ac.flags /\ x.num = ac.num /\ x.mem = begun.mem BY <1>2, <1>6 DEF Carrying
  <2>2. /\ DOMAIN z = DOMAIN ac /\ z.bp1 = ac.bp1 /\ z.flags = ac.flags /\ z.bp2 = ac.bp2
        /\ z.num = ac.num /\ z.len1 = ac.len1 /\ z.len2 = ac.len2 /\ z.at = ac.at /\ z.mark = ac.mark
    BY <1>4, <1>5, <2>1 DEF AcFields
  <2>3. ByteAc(z) BY <1>2, <2>2 DEF ByteAc, Rested
  <2> QED BY <1>1, <1>2, <1>6, <2>1, <2>3 DEF ByteAt, Trapped
<1>7. CASE x.res = "WON"
  <2>1. out' = "WON" BY <1>1, <1>7 DEF Trapped
  <2>2. x.flags = begun.ac.flags \ {"FPD"} /\ x.num = NumGoal /\ x.mem = MemGoal
    BY <1>2, <1>7 DEF Carrying
  <2>3. Seen(MemGoal, z, "WON") = ByteGoal BY <1>2, <1>3, <1>4, <2>2, ByteSeen
  <2> QED BY <1>1, <1>2, <2>1, <2>2, <2>3 DEF ByteAt
<1> QED BY <1>3, <1>6, <1>7

\* So a byte instruction moves its byte once, however often it is tried.
LEMMA BytesKeep ==
    ASSUME begun \in Starts, op \in Bytes, ByteAt(mem, ac, x, out), Next
    PROVE  begun' = begun /\ ByteAt(mem', ac', x', out')
BY ByteBegins, ByteTurns, ByteLeaves DEF Next

\* And it is resumable, and does all at once.
LEMMA BytesServed ==
    ASSUME begun \in Starts, op \in Bytes, ByteAt(mem, ac, x, out)
    PROVE  Resumable /\ AllAtOnce
<1>1. Effect(begun, begun.mem, begun.ac) = ByteGoal BY ByteStarts, ByteAsks
<1>2. x = Idle /\ out = "" => Effect(begun, mem, ac) = ByteGoal BY ByteAsks DEF ByteAt
<1>3. out # "" => Seen(mem, ac, out) = ByteGoal BY DEF ByteAt
<1>4. ~Departs(begun) BY NoDeparture DEF Bytes
<1> QED BY <1>1, <1>2, <1>3, <1>4 DEF Resumable, AllAtOnce

-----------------------------------------------------------------------------
(* Pointers                                                                *)

OfPointers == {"IBP", "ADJBP"}
PointerAt(m, a, y, how) ==
    /\ y = Idle
    /\ how = "" => m = begun.mem /\ a = begun.ac
    /\ how # "" => Seen(m, a, how) = Effect(begun, begun.mem, begun.ac)

\* IBP and ADJBP say where they will have got to, field by field.
LEMMA PointerAsks ==
    ASSUME op \in OfPointers, NEW m, NEW a
    PROVE  /\ op = "IBP" =>
                Effect(begun, m, a) = Report(m, a, a.num, Position(a.bp1) + 1, Position(a.bp2))
           /\ op = "ADJBP" =>
                Effect(begun, m, a) = Report(m, a, a.num, Position(a.bp1), Position(a.bp1) + a.num)
<1> DEFINE r == Seen(m, a, "WON")
           f1 == Position(a.bp1) + 1
           f2 == Position(a.bp1) + a.num
           e == Effect(begun, m, a)
<1>1. e = PointerEffect(begun, m, a)
  <2>1. op \notin ToText \cup ToNumber \cup Bytes
              \cup {"MOVSLJ", "MOVSO", "MOVST", "MOVSRJ", "CMPS", "EDIT", "BLT", "XBLT"}
    BY DEF OfPointers, Bytes, ToText, ToNumber
  <2> QED BY <2>1 DEF Effect, op, OfPointers, Bytes, ToText, ToNumber
<1>2. r = Report(m, a, a.num, Position(a.bp1), Position(a.bp2)) BY SeenFact
<1>3. r.at1 + 1 = f1 BY <1>2 DEF Report
<1> HIDE DEF r
<1>4. op = "IBP" => e = [r EXCEPT !.at1 = f1] BY <1>1, <1>3 DEF PointerEffect, op, r
<1>5. op = "ADJBP" => e = [r EXCEPT !.at2 = f2] BY <1>1 DEF PointerEffect, op, r
<1> HIDE DEF e, f1, f2
<1>6. op = "IBP" => e = Report(m, a, a.num, f1, Position(a.bp2)) BY <1>2, <1>4 DEF Report
<1>7. op = "ADJBP" => e = Report(m, a, a.num, Position(a.bp1), f2) BY <1>2, <1>5 DEF Report
<1> QED BY <1>6, <1>7 DEF e, f1, f2

\* They do it at one go, or not at all.
LEMMA PointersKeep ==
    ASSUME begun \in Starts, op \in OfPointers, PointerAt(mem, ac, x, out), Next
    PROVE  begun' = begun /\ PointerAt(mem', ac', x', out')
<1>1. x = Idle BY DEF PointerAt
<1>2. x.res = "idle" BY <1>1 DEF Idle
<1>3. Begin BY <1>2 DEF Next, Turn, TurnWith, Leave
<1>4. PICK gone \in Missing : Try(gone) BY <1>3 DEF Begin
<1>5. out = "" BY <1>4 DEF Try
<1>6. mem = begun.mem /\ ac = begun.ac BY <1>5 DEF PointerAt
<1>7. op \notin Moves \cup ToText \cup ToNumber \cup Bytes \cup {"CMPS", "EDIT", "BLT", "XBLT"}
  BY DEF OfPointers, Moves, ToText, ToNumber, Bytes
<1>8. BeginPointer(gone)
  BY <1>4, <1>7 DEF Try, BeginMove, BeginCompare, BeginToText, BeginToNumber, BeginEdit, BeginBlock,
                    BeginByte
<1>9. CASE Fails BY <1>9 DEF Fails, vars
<1> DEFINE a == IF op = "IBP" THEN [ac EXCEPT !.bp1 = Incremented(ac.bp1)]
                ELSE [ac EXCEPT !.bp2 = Adjusted(ac.bp1, ac.num)]
<1>10. CASE Ends("WON") /\ ac' = a
  <2>1. begun' = begun /\ mem' = mem /\ x' = x /\ out' = "WON" BY <1>10 DEF Ends
  <2>2. begun.ac \in ACs BY StartsAssumption
  <2>3. begun.ac.bp1 \in Pointer /\ DOMAIN begun.ac = AcFields /\ begun.ac.num \in Int
    BY <2>2 DEF ACs, AcFields
  <2>4. \A bp \in Pointer : DOMAIN bp = PtrFields /\ Sane(bp)
    BY WordAssumption DEF Pointer, PtrFields, Sane
  <2>5. Sane(ac.bp1) /\ DOMAIN ac.bp1 = PtrFields /\ DOMAIN ac = AcFields /\ ac.num \in Int
    BY <1>6, <2>3, <2>4
  <2>6. Seen(mem, a, "WON") = Effect(begun, mem, ac)
    <3>1. CASE op = "IBP"
      <4>1. a = [ac EXCEPT !.bp1 = Incremented(ac.bp1)] BY <3>1
      <4> HIDE DEF a
      <4>2. /\ a.bp1 = Incremented(ac.bp1) /\ a.bp2 = ac.bp2 /\ a.flags = ac.flags /\ a.num = ac.num
            /\ a.at = ac.at /\ a.mark = ac.mark /\ a.len1 = ac.len1 /\ a.len2 = ac.len2
        BY <2>5, <4>1 DEF AcFields
      <4>3. Position(a.bp1) = Position(ac.bp1) + 1 BY <2>5, <4>2, IncrementedFact
      <4>4. Seen(mem, a, "WON") = Report(mem, ac, ac.num, Position(ac.bp1) + 1, Position(ac.bp2))
        BY <4>2, <4>3, SeenFact DEF Report
      <4> QED BY <3>1, <4>4, PointerAsks
    <3>2. CASE op = "ADJBP"
      <4>1. a = [ac EXCEPT !.bp2 = Adjusted(ac.bp1, ac.num)] BY <3>2
      <4> HIDE DEF a
      <4>2. /\ a.bp1 = ac.bp1 /\ a.bp2 = Adjusted(ac.bp1, ac.num) /\ a.flags = ac.flags
            /\ a.num = ac.num /\ a.at = ac.at /\ a.mark = ac.mark /\ a.len1 = ac.len1 /\ a.len2 = ac.len2
        BY <2>5, <4>1 DEF AcFields
      <4>3. Position(a.bp2) = Position(ac.bp1) + ac.num BY <2>5, <4>2, AdjustedFact
      <4>4. Seen(mem, a, "WON") = Report(mem, ac, ac.num, Position(ac.bp1), Position(ac.bp1) + ac.num)
        BY <4>2, <4>3, SeenFact DEF Report
      <4> QED BY <3>2, <4>4, PointerAsks
    <3> QED BY <3>1, <3>2 DEF OfPointers
  <2> HIDE DEF a
  <2> QED BY <1>1, <1>6, <1>10, <2>1, <2>6 DEF PointerAt
<1> QED BY <1>8, <1>9, <1>10, Zenon DEF BeginPointer

-----------------------------------------------------------------------------
(* Pointers of a try                                                       *)

\* Its own Y, and where it is.
Own(s)  == s.bp.y + s.ycnt
Spot(s) == Own(s) * BytesPerWord + (BytesPerWord - s.p)

\* A pointer in an AC; a global one is not indirect.
Proper(bp) == Sane(bp) /\ DOMAIN bp = PtrFields /\ (bp.fmt = "OWG" => ~bp.ind)

\* A clean pointer that can be put back in an AC.
Keepable(s) ==
    /\ DOMAIN s = CleanFields /\ DOMAIN s.bp = PtrFields /\ s.p \in 0..BytesPerWord
    /\ s.bp.y \in Int /\ s.ycnt \in Int
    /\ s.bp.fmt = "OWG" => ~s.bp.ind /\ s.y = Own(s)

\* And one that can be read and written through, when memory is m.
Live(s, m) ==
    /\ Keepable(s) /\ s.y = (IF s.bp.ind THEN Chain[Own(s)] ELSE Own(s))
    /\ s.vp => s.wd = m[s.y]

\* Put back, it is where it was.
LEMMA UpdateFact ==
    ASSUME NEW s, Keepable(s)
    PROVE  /\ Proper(xbpupdate(s)) /\ xbpupdate(s).ind = s.bp.ind
           /\ Position(xbpupdate(s)) = Spot(s) /\ Spot(s) \in Int
<1> DEFINE b == xbpupdate(s)
<1>1. BytesPerWord \in Nat \ {0} BY WordAssumption
<1>2. s.p \in 0..BytesPerWord /\ s.bp.y \in Int /\ s.ycnt \in Int /\ Own(s) \in Int BY DEF Keepable, Own
<1>3. DOMAIN b = PtrFields /\ b.p = s.p /\ b.ind = s.bp.ind /\ b.fmt # "OWG" BY DEF xbpupdate, PtrFields
<1>4. b.y = Own(s)
  <2>1. CASE s.bp.fmt = "OWG" BY <2>1 DEF xbpupdate, Keepable
  <2>2. CASE s.bp.fmt # "OWG" BY <2>2 DEF xbpupdate, Own
  <2> QED BY <2>1, <2>2
<1> HIDE DEF b
<1>5. Sane(b) BY <1>2, <1>3, <1>4 DEF Sane
<1>6. Position(b) = Spot(s) /\ Spot(s) \in Int
  <2>1. Position(b) = b.y * BytesPerWord + (BytesPerWord - b.p) /\ Position(b) \in Int
    BY <1>5, PositionFact
  <2> QED BY <1>3, <1>4, <2>1 DEF Spot
<1>7. Proper(b) BY <1>3, <1>5 DEF Proper
<1> QED BY <1>3, <1>6, <1>7 DEF b

\* Made clean, it is where it is in the AC.
LEMMA CleanFact ==
    ASSUME NEW bp, Proper(bp), NEW m
    PROVE  /\ Live(Clean(bp), m) /\ Clean(bp).bp.ind = bp.ind /\ Spot(Clean(bp)) = Position(bp)
           /\ Clean(bp).vp = FALSE
<1> DEFINE s == Clean(bp)
<1>1. Sane(bp) /\ DOMAIN bp = PtrFields /\ (bp.fmt = "OWG" => ~bp.ind) BY DEF Proper
<1>2. bp.p \in 0..BytesPerWord /\ bp.y \in Int /\ BytesPerWord \in Nat BY <1>1, WordAssumption DEF Sane
<1>3. /\ DOMAIN s = CleanFields /\ s.bp = bp /\ s.p = bp.p /\ s.ycnt = 0 /\ s.vp = FALSE
      /\ s.y = IF bp.ind THEN Chain[bp.y] ELSE bp.y
  BY DEF Clean, CleanFields
<1> HIDE DEF s
<1>4. Own(s) = bp.y BY <1>2, <1>3 DEF Own
<1>5. Keepable(s) BY <1>1, <1>2, <1>3, <1>4 DEF Keepable
<1>6. Live(s, m) BY <1>3, <1>4, <1>5 DEF Live
<1>7. Spot(s) = Position(bp) BY <1>1, <1>3, <1>4, PositionFact DEF Spot
<1> QED BY <1>3, <1>6, <1>7 DEF s

\* Mapping the word of a pointer that has been moved on to the next byte: it is mapped and
\* at that byte, or one byte back.
LEMMA MapFact ==
    ASSUME NEW m, NEW gone, NEW s, Live(s, m), s.p < BytesPerWord
    PROVE  LET n == MapWord(m, gone, s)
           IN /\ n.ok \in BOOLEAN
              /\ n.ok => /\ Live(n.s, m) /\ n.s.vp /\ Spot(n.s) = Spot(s) /\ n.s.bp.ind = s.bp.ind
                         /\ n.s.y = s.y /\ n.s.p = s.p
              /\ ~n.ok => Keepable(n.s) /\ Spot(n.s) = Spot(s) - 1 /\ n.s.bp.ind = s.bp.ind
<1> DEFINE here == s.vp \/ gone # Data(s.y)
           n == MapWord(m, gone, s)
           wd == IF s.vp THEN s.wd ELSE m[s.y]
<1>1. /\ BytesPerWord \in Nat \ {0} /\ Keepable(s) /\ DOMAIN s = CleanFields /\ s.p \in 0..BytesPerWord
      /\ s.bp.y \in Int /\ s.ycnt \in Int /\ Own(s) \in Int /\ Own(s) * BytesPerWord \in Int
  BY WordAssumption DEF Live, Keepable, Own
<1>2. wd = m[s.y] BY DEF Live
<1>3. CASE here
  <2>1. n.ok = TRUE /\ n.s = [s EXCEPT !.vp = TRUE, !.wd = wd] BY <1>3 DEF MapWord
  <2> DEFINE t == n.s
  <2> HIDE DEF n, wd
  <2>2. /\ DOMAIN t = CleanFields /\ t.vp = TRUE /\ t.wd = wd /\ t.bp = s.bp /\ t.p = s.p /\ t.y = s.y
        /\ t.ycnt = s.ycnt
    BY <1>1, <2>1 DEF CleanFields
  <2>3. Own(t) = Own(s) /\ Spot(t) = Spot(s) BY <2>2 DEF Own, Spot
  <2>4. Live(t, m) BY <1>2, <2>2, <2>3 DEF Live, Keepable
  <2> QED BY <2>1, <2>2, <2>3, <2>4 DEF n
<1>4. CASE ~here
  <2>1. n.ok = FALSE /\ n.s = [s EXCEPT !.p = s.p + 1] BY <1>4 DEF MapWord
  <2> DEFINE t == n.s
  <2> HIDE DEF n, wd
  <2>2. DOMAIN t = CleanFields /\ t.bp = s.bp /\ t.p = s.p + 1 /\ t.y = s.y /\ t.ycnt = s.ycnt
    BY <1>1, <2>1 DEF CleanFields
  <2>3. Own(t) = Own(s) BY <2>2 DEF Own
  <2>4. Keepable(t) BY <1>1, <2>2, <2>3 DEF Keepable
  <2>5. Spot(t) = Spot(s) - 1 BY <1>1, <2>2, <2>3 DEF Spot
  <2> QED BY <2>1, <2>2, <2>4, <2>5 DEF n
<1> QED BY <1>3, <1>4

\* One byte on: at the byte, or where it was.
LEMMA NextByteFact ==
    ASSUME NEW m, NEW gone, NEW s, Live(s, m)
    PROVE  LET n == NextByte(m, gone, s)
           IN /\ n.ok \in BOOLEAN /\ Keepable(n.s) /\ n.s.bp.ind = s.bp.ind
              /\ n.ok => /\ Live(n.s, m) /\ n.s.vp /\ Spot(n.s) = Spot(s) + 1 /\ n.s.p < BytesPerWord
              /\ ~n.ok => Spot(n.s) = Spot(s)
<1> DEFINE n == NextByte(m, gone, s)
           left == [s EXCEPT !.p = BytesPerWord - 1, !.ycnt = s.ycnt + 1, !.y = s.y + 1,
                             !.vp = FALSE, !.wd = <<>>]
           bp == xbpupdate(left)
           down == [s EXCEPT !.p = s.p - 1]
           back == [left EXCEPT !.bp = bp, !.ycnt = 0, !.p = left.p + 1]
<1>1. /\ BytesPerWord \in Nat \ {0} /\ Keepable(s) /\ DOMAIN s = CleanFields /\ s.p \in 0..BytesPerWord
      /\ s.bp.y \in Int /\ s.ycnt \in Int /\ Own(s) \in Int /\ DOMAIN s.bp = PtrFields
      /\ s.y = (IF s.bp.ind THEN Chain[Own(s)] ELSE Own(s))
      /\ s.bp.fmt = "OWG" => ~s.bp.ind
  BY WordAssumption DEF Live, Keepable, Own
<1>2. Spot(s) = Own(s) * BytesPerWord + (BytesPerWord - s.p) /\ Own(s) * BytesPerWord \in Int
  BY <1>1 DEF Spot
<1>3. CASE s.p > 0
  <2>1. n = MapWord(m, gone, down) BY <1>3 DEF NextByte
  <2>2. /\ DOMAIN down = CleanFields /\ down.p = s.p - 1 /\ down.bp = s.bp /\ down.ycnt = s.ycnt
        /\ down.y = s.y /\ down.vp = s.vp /\ down.wd = s.wd
    BY <1>1 DEF CleanFields
  <2> HIDE DEF n, down
  <2>3. Own(down) = Own(s) BY <2>2 DEF Own
  <2>4. Live(down, m) /\ down.p < BytesPerWord /\ Spot(down) = Spot(s) + 1
    <3>1. down.p \in 0..BytesPerWord /\ down.p < BytesPerWord BY <1>1, <1>3, <2>2
    <3>2. Spot(down) = Own(s) * BytesPerWord + (BytesPerWord - (s.p - 1)) BY <2>2, <2>3 DEF Spot
    <3>3. Spot(down) = Spot(s) + 1 BY <1>1, <1>2, <3>2
    <3>4. Live(down, m) BY <1>1, <2>2, <2>3, <3>1 DEF Live, Keepable
    <3> QED BY <3>1, <3>3, <3>4
  <2>5. /\ n.ok \in BOOLEAN
        /\ n.ok => /\ Live(n.s, m) /\ n.s.vp /\ Spot(n.s) = Spot(down) /\ n.s.bp.ind = down.bp.ind
                   /\ n.s.p = down.p
        /\ ~n.ok => Keepable(n.s) /\ Spot(n.s) = Spot(down) - 1 /\ n.s.bp.ind = down.bp.ind
    BY <2>1, <2>4, MapFact
  <2>6. Spot(s) \in Int BY <1>1, UpdateFact
  <2>7. (Spot(s) + 1) - 1 = Spot(s) BY <2>6
  <2> QED BY <2>2, <2>4, <2>5, <2>7 DEF n, Live
<1>4. CASE s.p = 0
  <2>1. /\ DOMAIN left = CleanFields /\ left.p = BytesPerWord - 1 /\ left.bp = s.bp
        /\ left.ycnt = s.ycnt + 1 /\ left.y = s.y + 1 /\ left.vp = FALSE
    BY <1>1 DEF CleanFields
  <2> HIDE DEF left
  <2>2. Own(left) = Own(s) + 1 BY <1>1, <2>1 DEF Own
  <2>3. Spot(left) = Spot(s) + 1 /\ Spot(s) \in Int
    <3>1. Spot(left) = (Own(s) + 1) * BytesPerWord + (BytesPerWord - (BytesPerWord - 1))
      BY <2>1, <2>2 DEF Spot
    <3>2. (Own(s) + 1) * BytesPerWord = Own(s) * BytesPerWord + BytesPerWord BY <1>1
    <3> QED BY <1>1, <1>2, <1>4, <3>1, <3>2
  <2>4. left.p \in 0..BytesPerWord /\ left.p < BytesPerWord BY <1>1, <2>1
  <2>5. Keepable(left)
    <3>1. left.bp.fmt = "OWG" => ~left.bp.ind /\ left.y = Own(left) BY <1>1, <2>1, <2>2
    <3>2. left.ycnt \in Int BY <1>1, <2>1
    <3> QED BY <1>1, <2>1, <2>4, <3>1, <3>2 DEF Keepable
  <2>6. Proper(bp) /\ bp.ind = s.bp.ind /\ Position(bp) = Spot(left) BY <2>1, <2>5, UpdateFact
  <2>7. bp.y = Own(left) /\ bp.p = left.p /\ bp.fmt # "OWG"
    BY <2>1, <2>5 DEF xbpupdate, Own, Keepable
  <2>8. (Spot(s) + 1) - 1 = Spot(s) BY <2>3
  <2>9. CASE ~s.bp.ind
    <3>1. n = MapWord(m, gone, left) BY <1>1, <1>4, <2>9 DEF NextByte, left
    <3>2. Live(left, m) BY <1>1, <2>1, <2>2, <2>5, <2>9 DEF Live
    <3> HIDE DEF n
    <3>3. /\ n.ok \in BOOLEAN
          /\ n.ok => /\ Live(n.s, m) /\ n.s.vp /\ Spot(n.s) = Spot(left) /\ n.s.bp.ind = left.bp.ind
                     /\ n.s.p = left.p
          /\ ~n.ok => Keepable(n.s) /\ Spot(n.s) = Spot(left) - 1 /\ n.s.bp.ind = left.bp.ind
      BY <2>4, <3>1, <3>2, MapFact
    <3> QED BY <2>1, <2>3, <2>4, <2>8, <3>3 DEF n, Live
  <2>10. CASE s.bp.ind /\ Reachable(bp, gone)
    <3>1. n = MapWord(m, gone, Clean(bp)) BY <1>1, <1>4, <2>10 DEF NextByte, left
    <3> DEFINE c == Clean(bp)
    <3>2. Live(c, m) /\ c.bp.ind = bp.ind /\ Spot(c) = Position(bp) BY <2>6, CleanFact
    <3>3. c.p = left.p BY <2>7 DEF Clean
    <3> HIDE DEF n, c, bp
    <3>4. /\ n.ok \in BOOLEAN
          /\ n.ok => /\ Live(n.s, m) /\ n.s.vp /\ Spot(n.s) = Spot(c) /\ n.s.bp.ind = c.bp.ind
                     /\ n.s.p = c.p
          /\ ~n.ok => Keepable(n.s) /\ Spot(n.s) = Spot(c) - 1 /\ n.s.bp.ind = c.bp.ind
      BY <2>4, <3>1, <3>2, <3>3, MapFact DEF c
    <3> QED BY <2>3, <2>4, <2>6, <2>8, <3>2, <3>3, <3>4 DEF n, Live
  <2>11. CASE s.bp.ind /\ ~Reachable(bp, gone)
    <3>1. n = [ok |-> FALSE, s |-> back] BY <1>1, <1>4, <2>11 DEF NextByte, left
    <3> HIDE DEF bp
    <3>2. DOMAIN back = CleanFields /\ back.bp = bp /\ back.ycnt = 0 /\ back.p = left.p + 1
      BY <2>1 DEF CleanFields
    <3> HIDE DEF back
    <3>3. Own(back) = Own(s) + 1 BY <1>1, <2>2, <2>7, <3>2 DEF Own
    <3>4. back.p = BytesPerWord BY <1>1, <2>1, <3>2
    <3>5. Spot(back) = Spot(s)
      <4>1. Spot(back) = (Own(s) + 1) * BytesPerWord + (BytesPerWord - BytesPerWord)
        BY <3>3, <3>4 DEF Spot
      <4>2. (Own(s) + 1) * BytesPerWord = Own(s) * BytesPerWord + BytesPerWord BY <1>1
      <4> QED BY <1>1, <1>2, <1>4, <4>1, <4>2
    <3>6. Keepable(back)
      <4>1. DOMAIN bp = PtrFields /\ bp.y \in Int BY <2>6 DEF Proper, Sane
      <4> QED BY <1>1, <2>7, <3>2, <3>4, <4>1 DEF Keepable
    <3> QED BY <2>6, <3>1, <3>2, <3>5, <3>6
  <2> QED BY <2>9, <2>10, <2>11
<1> QED BY <1>1, <1>3, <1>4

\* The byte at a pointer that has been moved on is the first of the string it was at.
LEMMA WordFact ==
    ASSUME NEW m, NEW s, Live(s, m), s.p < BytesPerWord, NEW bp, Sane(bp), bp.ind = s.bp.ind,
           Spot(s) = Position(bp) + 1
    PROVE  Place(bp, 1) = <<s.y, BytesPerWord - s.p>>
<1>1. /\ BytesPerWord \in Nat \ {0} /\ s.p \in 0..BytesPerWord /\ Own(s) \in Int
      /\ Own(s) * BytesPerWord \in Int /\ Position(bp) \in Int
      /\ s.y = (IF s.bp.ind THEN Chain[Own(s)] ELSE Own(s))
  BY WordAssumption, PositionFact DEF Live, Keepable, Own
<1> DEFINE r == BytesPerWord - s.p - 1
<1>2. r \in 0..(BytesPerWord - 1) /\ r + 1 = BytesPerWord - s.p BY <1>1
<1>3. Position(bp) + 1 - 1 = Own(s) * BytesPerWord + r
  <2> DEFINE o == Own(s) * BytesPerWord
  <2>1. o \in Int BY <1>1
  <2>2. Position(bp) + 1 = o + (BytesPerWord - s.p) BY DEF Spot
  <2> HIDE DEF o
  <2>3. BytesPerWord \in Int /\ s.p \in Int /\ Position(bp) \in Int BY <1>1
  <2>4. Position(bp) + 1 - 1 = o + r BY <2>1, <2>2, <2>3
  <2> QED BY <2>4 DEF o
<1> HIDE DEF r
<1>4. /\ (Position(bp) + 1 - 1) \div BytesPerWord = Own(s)
      /\ (Position(bp) + 1 - 1) % BytesPerWord = r
  BY <1>1, <1>2, <1>3, DivFact
<1>5. Place(bp, 1) = <<IF bp.ind THEN Chain[Own(s)] ELSE Own(s), r + 1>> BY <1>4, PlaceIs
<1> QED BY <1>1, <1>2, <1>5

\* Reading the next byte, or staying.
LEMMA ReadFact ==
    ASSUME NEW m, NEW gone, NEW s, Live(s, m), NEW bp, Sane(bp), bp.ind = s.bp.ind,
           Spot(s) = Position(bp)
    PROVE  LET r == xildb(m, gone, s)
           IN /\ r.ok \in BOOLEAN /\ Keepable(r.s) /\ r.s.bp.ind = s.bp.ind
              /\ r.ok => /\ Live(r.s, m) /\ Spot(r.s) = Spot(s) + 1 /\ r.s.p < BytesPerWord
                         /\ r.s.y = Place(bp, 1)[1] /\ r.b = m[Place(bp, 1)[1]][Place(bp, 1)[2]]
              /\ ~r.ok => Spot(r.s) = Spot(s)
<1> DEFINE n == NextByte(m, gone, s)
           r == xildb(m, gone, s)
<1>1. r.ok = n.ok /\ r.s = n.s /\ r.b = IF n.ok THEN n.s.wd[BytesPerWord - n.s.p] ELSE 0
  BY DEF xildb
<1> HIDE DEF n, r
<1>2. /\ n.ok \in BOOLEAN /\ Keepable(n.s) /\ n.s.bp.ind = s.bp.ind
      /\ n.ok => /\ Live(n.s, m) /\ n.s.vp /\ Spot(n.s) = Spot(s) + 1 /\ n.s.p < BytesPerWord
      /\ ~n.ok => Spot(n.s) = Spot(s)
  BY NextByteFact DEF n
<1>3. CASE n.ok
  <2>1. Place(bp, 1) = <<n.s.y, BytesPerWord - n.s.p>> BY <1>2, <1>3, WordFact
  <2>2. n.s.wd = m[n.s.y] BY <1>2, <1>3 DEF Live
  <2>3. Place(bp, 1)[1] = n.s.y /\ Place(bp, 1)[2] = BytesPerWord - n.s.p BY <2>1
  <2> QED BY <1>1, <1>2, <1>3, <2>2, <2>3 DEF r
<1>4. CASE ~n.ok BY <1>1, <1>2, <1>4 DEF r
<1> QED BY <1>3, <1>4

\* Memory with a byte at a place.
WithByte(m, at, b) == [m EXCEPT ![at[1]] = [m[at[1]] EXCEPT ![at[2]] = b]]

\* Writing the next byte, or staying.
LEMMA WriteFact ==
    ASSUME NEW m, NEW gone, NEW s, Live(s, m), NEW bp, Sane(bp), bp.ind = s.bp.ind,
           Spot(s) = Position(bp), NEW b, Place(bp, 1)[1] \in DOMAIN m
    PROVE  LET w == xidpb(m, gone, s, b)
           IN /\ w.ok \in BOOLEAN /\ Keepable(w.s) /\ w.s.bp.ind = s.bp.ind
              /\ w.ok => /\ Live(w.s, w.mem) /\ Spot(w.s) = Spot(s) + 1
                         /\ w.mem = WithByte(m, Place(bp, 1), b)
              /\ ~w.ok => Spot(w.s) = Spot(s)
<1> DEFINE n == NextByte(m, gone, s)
           w == xidpb(m, gone, s, b)
           wd == [n.s.wd EXCEPT ![BytesPerWord - n.s.p] = b]
           at == Place(bp, 1)
           m1 == [m EXCEPT ![n.s.y] = wd]
<1>1. /\ n.ok => w = [ok |-> TRUE, s |-> [n.s EXCEPT !.wd = wd], mem |-> m1]
      /\ ~n.ok => w = [ok |-> FALSE, s |-> n.s, mem |-> m]
  BY DEF xidpb
<1> HIDE DEF n, w
<1>2. /\ n.ok \in BOOLEAN /\ Keepable(n.s) /\ n.s.bp.ind = s.bp.ind
      /\ n.ok => /\ Live(n.s, m) /\ n.s.vp /\ Spot(n.s) = Spot(s) + 1 /\ n.s.p < BytesPerWord
      /\ ~n.ok => Spot(n.s) = Spot(s)
  BY NextByteFact DEF n
<1>3. CASE n.ok
  <2>1. at = <<n.s.y, BytesPerWord - n.s.p>> BY <1>2, <1>3, WordFact
  <2>2. n.s.wd = m[n.s.y] BY <1>2, <1>3 DEF Live
  <2>3. at[1] = n.s.y /\ at[2] = BytesPerWord - n.s.p BY <2>1
  <2> HIDE DEF at
  <2>4. m1 = WithByte(m, at, b) BY <2>2, <2>3 DEF WithByte
  <2>5. m1[n.s.y] = wd
    <3>1. n.s.y \in DOMAIN m BY <2>3 DEF at
    <3> HIDE DEF wd
    <3> QED BY <3>1
  <2> DEFINE t == [n.s EXCEPT !.wd = wd]
  <2>6. DOMAIN n.s = CleanFields BY <1>2 DEF Keepable
  <2> HIDE DEF wd, m1
  <2>7. /\ DOMAIN t = CleanFields /\ t.bp = n.s.bp /\ t.p = n.s.p /\ t.y = n.s.y /\ t.ycnt = n.s.ycnt
        /\ t.wd = wd
    BY <2>6 DEF CleanFields
  <2>8. w.ok = TRUE /\ w.s = t /\ w.mem = m1 BY <1>1, <1>3
  <2> HIDE DEF t
  <2>9. Own(t) = Own(n.s) /\ Spot(t) = Spot(n.s) BY <2>7 DEF Own, Spot
  <2>10. Keepable(t) BY <1>2, <2>7, <2>9 DEF Keepable
  <2>11. Live(t, m1) BY <1>2, <1>3, <2>5, <2>7, <2>9, <2>10 DEF Live
  <2> QED BY <1>2, <1>3, <2>4, <2>7, <2>8, <2>9, <2>10, <2>11 DEF w, at
<1>4. CASE ~n.ok
  <2>1. w.ok = FALSE /\ w.s = n.s BY <1>1, <1>4
  <2> QED BY <1>2, <1>4, <2>1 DEF w
<1> QED BY <1>2, <1>3, <1>4

\* A read undone.
LEMMA BackFact ==
    ASSUME NEW s, Keepable(s), s.p < BytesPerWord
    PROVE  Keepable(xdecbp(s)) /\ Spot(xdecbp(s)) = Spot(s) - 1 /\ xdecbp(s).bp.ind = s.bp.ind
<1> DEFINE t == xdecbp(s)
<1>1. /\ BytesPerWord \in Nat \ {0} /\ s.p \in 0..BytesPerWord /\ DOMAIN s = CleanFields
      /\ Own(s) \in Int /\ Own(s) * BytesPerWord \in Int
  BY WordAssumption DEF Keepable, Own
<1>2. /\ DOMAIN t = CleanFields /\ t.bp = s.bp /\ t.p = s.p + 1 /\ t.y = s.y /\ t.ycnt = s.ycnt
  BY <1>1 DEF xdecbp, CleanFields
<1> HIDE DEF t
<1>3. Own(t) = Own(s) BY <1>2 DEF Own
<1>4. Keepable(t) BY <1>1, <1>2, <1>3 DEF Keepable
<1>5. Spot(t) = Spot(s) - 1 BY <1>1, <1>2, <1>3 DEF Spot
<1> QED BY <1>2, <1>4, <1>5 DEF t

-----------------------------------------------------------------------------
(* Comparing                                                               *)

\* The k-th byte of a string that goes on with its fill byte.
CharAt(m, bp, len, fill, k) == IF k <= len THEN m[Place(bp, k)[1]][Place(bp, k)[2]] ELSE fill
FillOf(i, a) == i.e0[IF a.len1 > a.len2 THEN 2 ELSE 1]
Char1(i, m, a, k) == CharAt(m, a.bp1, a.len1, FillOf(i, a), k)
Char2(i, m, a, k) == CharAt(m, a.bp2, a.len2, FillOf(i, a), k)

\* Where they differ, the first such, and how far one has to look.
Longer(a) == IF a.len1 < a.len2 THEN a.len2 ELSE a.len1
Differing(i, m, a) == {k \in 1..Longer(a) : Char1(i, m, a, k) # Char2(i, m, a, k)}
LeastOf(S) == CHOOSE k \in S : \A j \in S : k <= j
Compared(i, m, a) == IF Differing(i, m, a) = {} THEN Longer(a) ELSE LeastOf(Differing(i, m, a))
Verdict(i, m, a, k) ==
    IF Differing(i, m, a) = {} THEN "EQ"
    ELSE IF Char1(i, m, a, k) < Char2(i, m, a, k) THEN "LT" ELSE "GT"

\* What is to be seen when so many bytes of either string are used.
Further(m, a, how, n1, n2) ==
    [mem |-> m, how |-> how, flags |-> a.flags, num |-> a.num, at |-> a.at, mark |-> Position(a.mark),
     len1 |-> a.len1 - n1, at1 |-> Position(a.bp1) + n1, len2 |-> a.len2 - n2,
     at2 |-> Position(a.bp2) + n2]

\* A set of numbers that is not empty has a least one, and it is in the set.
LEMMA LeastFact ==
    ASSUME NEW S \in SUBSET Nat, S # {}
    PROVE  LeastOf(S) \in S /\ \A j \in S : LeastOf(S) <= j
<1>1. \E k \in S : \A j \in S : k <= j BY LeastNat
<1> QED BY <1>1 DEF LeastOf

\* CompareEffect in these terms.
LEMMA CompareIs ==
    ASSUME NEW i, NEW m, NEW a, a.len1 \in Nat, a.len2 \in Nat
    PROVE  LET k == Compared(i, m, a)
           IN CompareEffect(i, m, a) =
                  Further(m, a, Verdict(i, m, a, k), Lesser(k, a.len1), Lesser(k, a.len2))
<1> DEFINE n == IF a.len1 < a.len2 THEN a.len2 ELSE a.len1
           fill == i.e0[IF a.len1 > a.len2 THEN 2 ELSE 1]
           b1(k) == IF k <= a.len1 THEN Text(m, a.bp1, a.len1)[k] ELSE fill
           b2(k) == IF k <= a.len2 THEN Text(m, a.bp2, a.len2)[k] ELSE fill
           differ == {k \in 1..n : b1(k) # b2(k)}
           first == CHOOSE k \in differ : \A j \in differ : k <= j
           seen == IF differ = {} THEN n ELSE first
           how == IF differ = {} THEN "EQ" ELSE IF b1(first) < b2(first) THEN "LT" ELSE "GT"
           n1 == Lesser(seen, a.len1)
           n2 == Lesser(seen, a.len2)
           r == Seen(m, a, how)
           D == Differing(i, m, a)
           K == Compared(i, m, a)
<1>1. CompareEffect(i, m, a) =
        [r EXCEPT !.len1 = @ - n1, !.at1 = @ + n1, !.len2 = @ - n2, !.at2 = @ + n2]
  BY DEF CompareEffect
<1>2. ASSUME NEW k \in 1..n PROVE b1(k) = Char1(i, m, a, k) /\ b2(k) = Char2(i, m, a, k)
  BY DEF Text, Char1, Char2, CharAt, FillOf
<1>3. n = Longer(a) /\ n \in Nat BY DEF Longer
<1> HIDE DEF n, b1, b2
<1>4. differ = D BY <1>2, <1>3 DEF Differing
<1> HIDE DEF differ
<1>5. first = LeastOf(D) BY <1>4 DEF LeastOf
<1> HIDE DEF first
<1>6. seen = K BY <1>3, <1>4, <1>5 DEF Compared
<1>7. how = Verdict(i, m, a, K)
  <2>1. CASE D = {} BY <1>4, <2>1 DEF Verdict
  <2>2. CASE D # {}
    <3>1. D \in SUBSET (1..n) BY <1>3 DEF Differing
    <3>2. LeastOf(D) \in D BY <1>3, <2>2, <3>1, LeastFact
    <3>3. first \in 1..n /\ K = first BY <1>5, <2>2, <3>1, <3>2 DEF Compared
    <3>4. b1(first) = Char1(i, m, a, K) /\ b2(first) = Char2(i, m, a, K) BY <1>2, <3>3
    <3> QED BY <1>4, <2>2, <3>4 DEF Verdict
  <2> QED BY <2>1, <2>2
<1> HIDE DEF seen, how, D
<1> DEFINE v == Verdict(i, m, a, K)
           k1 == Lesser(K, a.len1)
           k2 == Lesser(K, a.len2)
<1>8. n1 = k1 /\ n2 = k2 BY <1>6
<1> HIDE DEF n1, n2, k1, k2, v, K
<1>9. r = [mem |-> m, how |-> v, flags |-> a.flags, num |-> a.num, at |-> a.at,
           mark |-> Position(a.mark), len1 |-> a.len1, at1 |-> Position(a.bp1), len2 |-> a.len2,
           at2 |-> Position(a.bp2)]
  BY <1>7 DEF Seen, v
<1> HIDE DEF r
<1>10. CompareEffect(i, m, a) =
        [r EXCEPT !.len1 = a.len1 - k1, !.at1 = Position(a.bp1) + k1, !.len2 = a.len2 - k2,
                  !.at2 = Position(a.bp2) + k2]
  BY <1>1, <1>8, <1>9
<1>11. CompareEffect(i, m, a) = Further(m, a, v, k1, k2) BY <1>9, <1>10 DEF Further
<1> QED BY <1>11 DEF v, k1, k2, K

\* b is a with so many bytes of either string used.
Shifted(a, b, d1, d2) ==
    /\ Proper(a.bp1) /\ Proper(a.bp2) /\ Proper(b.bp1) /\ Proper(b.bp2)
    /\ b.bp1.ind = a.bp1.ind /\ b.bp2.ind = a.bp2.ind
    /\ Position(b.bp1) = Position(a.bp1) + d1 /\ Position(b.bp2) = Position(a.bp2) + d2
    /\ a.len1 \in Nat /\ a.len2 \in Nat /\ b.len1 \in Nat /\ b.len2 \in Nat
    /\ b.len1 = a.len1 - d1 /\ b.len2 = a.len2 - d2
    /\ b.flags = a.flags /\ b.num = a.num /\ b.at = a.at /\ b.mark = a.mark

\* The bytes that are left are where they were.
LEMMA PlaceShift ==
    ASSUME NEW bp, NEW bq, Proper(bp), Proper(bq), bq.ind = bp.ind, NEW d \in Int, NEW k \in Int,
           Position(bq) = Position(bp) + d
    PROVE  Place(bq, k) = Place(bp, k + d)
<1>1. Sane(bp) /\ Sane(bq) /\ Position(bp) \in Int /\ Position(bq) \in Int
  BY PositionFact DEF Proper
<1>2. Position(bq) + k = Position(bp) + (k + d) /\ k + d \in Int BY <1>1
<1> QED BY <1>1, <1>2, PlaceFact

\* What is said of the report does not depend on how much of it is used already.
LEMMA FurtherShift ==
    ASSUME NEW m, NEW a, NEW b, NEW d1 \in Int, NEW d2 \in Int, NEW n1 \in Int, NEW n2 \in Int, NEW how,
           Shifted(a, b, d1, d2)
    PROVE  Further(m, b, how, n1, n2) = Further(m, a, how, n1 + d1, n2 + d2)
<1>1. Position(a.bp1) \in Int /\ Position(a.bp2) \in Int BY PositionFact DEF Shifted, Proper
<1>2. /\ b.len1 - n1 = a.len1 - (n1 + d1) /\ b.len2 - n2 = a.len2 - (n2 + d2)
      /\ Position(b.bp1) + n1 = Position(a.bp1) + (n1 + d1)
      /\ Position(b.bp2) + n2 = Position(a.bp2) + (n2 + d2)
  BY <1>1 DEF Shifted
<1>3. b.flags = a.flags /\ b.num = a.num /\ b.at = a.at /\ b.mark = a.mark BY DEF Shifted
<1> QED BY <1>2, <1>3 DEF Further

\* Behind d bytes that are equal, d fewer are left to look at.
LEMMA CompareShift ==
    ASSUME NEW i, NEW m, NEW a, NEW b, NEW d \in Nat,
           Shifted(a, b, Lesser(d, a.len1), Lesser(d, a.len2)), d <= Longer(a),
           \A k \in 1..d : Char1(i, m, a, k) = Char2(i, m, a, k)
    PROVE  CompareEffect(i, m, b) = CompareEffect(i, m, a)
<1> DEFINE d1 == Lesser(d, a.len1)
           d2 == Lesser(d, a.len2)
           DA == Differing(i, m, a)
           DB == Differing(i, m, b)
           ka == Compared(i, m, a)
           kb == Compared(i, m, b)
<1>1. /\ a.len1 \in Nat /\ a.len2 \in Nat /\ b.len1 \in Nat /\ b.len2 \in Nat /\ d1 \in Nat /\ d2 \in Nat
      /\ b.len1 = a.len1 - d1 /\ b.len2 = a.len2 - d2
  BY DEF Shifted, Lesser
<1>2. Longer(b) = Longer(a) - d /\ Longer(a) \in Nat BY <1>1 DEF Longer, Lesser
<1>3. d < Longer(a) => (b.len1 > b.len2 <=> a.len1 > a.len2) BY <1>1 DEF Longer, Lesser
<1>4. ASSUME NEW k \in 1..Longer(b)
      PROVE  Char1(i, m, b, k) = Char1(i, m, a, k + d) /\ Char2(i, m, b, k) = Char2(i, m, a, k + d)
  <2>1. d < Longer(a) /\ k \in Nat \ {0} BY <1>2
  <2>2. FillOf(i, b) = FillOf(i, a) BY <1>3, <2>1 DEF FillOf
  <2>3. /\ Proper(a.bp1) /\ Proper(a.bp2) /\ Proper(b.bp1) /\ Proper(b.bp2)
        /\ b.bp1.ind = a.bp1.ind /\ b.bp2.ind = a.bp2.ind
        /\ Position(b.bp1) = Position(a.bp1) + d1 /\ Position(b.bp2) = Position(a.bp2) + d2
    BY DEF Shifted
  <2> DEFINE fill == FillOf(i, a)
  <2> HIDE DEF fill
  <2>4. CharAt(m, b.bp1, b.len1, fill, k) = CharAt(m, a.bp1, a.len1, fill, k + d)
    <3>1. CASE d < a.len1
      <4>1. d1 = d BY <3>1 DEF Lesser
      <4>2. Place(b.bp1, k) = Place(a.bp1, k + d) BY <2>1, <2>3, <4>1, PlaceShift
      <4>3. k <= b.len1 <=> k + d <= a.len1 BY <1>1, <2>1, <4>1
      <4> QED BY <4>2, <4>3 DEF CharAt
    <3>2. CASE ~(d < a.len1)
      <4>1. d1 = a.len1 BY <3>2 DEF Lesser
      <4>2. ~(k <= b.len1) /\ ~(k + d <= a.len1) BY <1>1, <2>1, <3>2, <4>1
      <4> QED BY <4>2 DEF CharAt
    <3> QED BY <3>1, <3>2
  <2>5. CharAt(m, b.bp2, b.len2, fill, k) = CharAt(m, a.bp2, a.len2, fill, k + d)
    <3>1. CASE d < a.len2
      <4>1. d2 = d BY <3>1 DEF Lesser
      <4>2. Place(b.bp2, k) = Place(a.bp2, k + d) BY <2>1, <2>3, <4>1, PlaceShift
      <4>3. k <= b.len2 <=> k + d <= a.len2 BY <1>1, <2>1, <4>1
      <4> QED BY <4>2, <4>3 DEF CharAt
    <3>2. CASE ~(d < a.len2)
      <4>1. d2 = a.len2 BY <3>2 DEF Lesser
      <4>2. ~(k <= b.len2) /\ ~(k + d <= a.len2) BY <1>1, <2>1, <3>2, <4>1
      <4> QED BY <4>2 DEF CharAt
    <3> QED BY <3>1, <3>2
  <2> QED BY <2>2, <2>4, <2>5 DEF Char1, Char2, fill
<1> HIDE DEF d1, d2
<1>5. \A k \in 1..Longer(b) : k \in DB <=> k + d \in DA
  <2>1. \A k \in 1..Longer(b) : k + d \in 1..Longer(a) BY <1>2
  <2> QED BY <1>4, <2>1 DEF Differing
<1>6. \A j \in DA : j - d \in 1..Longer(b) /\ j \in Nat /\ (j - d) + d = j
  <2>1. ASSUME NEW j \in DA PROVE j > d /\ j \in 1..Longer(a) BY <1>2 DEF Differing
  <2> QED BY <1>2, <2>1
<1>7. DA \in SUBSET Nat /\ DB \in SUBSET Nat /\ DB \in SUBSET (1..Longer(b))
  <2>1. Longer(a) \in Nat /\ Longer(b) \in Int BY <1>2
  <2> QED BY <2>1 DEF Differing
<1>8. ka = kb + d /\ kb \in Int /\ \A v \in {ka, kb} : v \in Nat
      /\ Verdict(i, m, a, ka) = Verdict(i, m, b, kb)
  <2>1. CASE DB = {}
    <3>1. DA = {} BY <1>5, <1>6, <2>1
    <3>2. ka = Longer(a) /\ kb = Longer(b) BY <2>1, <3>1 DEF Compared
    <3>3. Longer(b) \in Nat BY <1>1 DEF Longer
    <3> QED BY <1>2, <2>1, <3>1, <3>2, <3>3 DEF Verdict
  <2>2. CASE DB # {}
    <3> DEFINE lb == LeastOf(DB)
               la == LeastOf(DA)
    <3>1. lb \in DB /\ \A j \in DB : lb <= j BY <1>7, <2>2, LeastFact
    <3>2. lb \in 1..Longer(b) BY <1>7, <3>1
    <3>3. lb + d \in DA BY <1>5, <3>1, <3>2
    <3>4. la \in DA /\ \A j \in DA : la <= j BY <1>7, <3>3, LeastFact
    <3>5. la - d \in DB BY <1>5, <1>6, <3>4
    <3>6. la <= lb + d /\ lb <= la - d BY <3>1, <3>3, <3>4, <3>5
    <3>7. la \in Nat /\ lb \in Nat BY <1>7, <3>1, <3>4
    <3>8. la = lb + d BY <3>6, <3>7
    <3>9. ka = la /\ kb = lb BY <2>2, <3>3 DEF Compared
    <3>10. Char1(i, m, b, lb) = Char1(i, m, a, la) /\ Char2(i, m, b, lb) = Char2(i, m, a, la)
      BY <1>4, <3>2, <3>8
    <3> HIDE DEF la, lb
    <3>11. Verdict(i, m, a, ka) = Verdict(i, m, b, kb) BY <2>2, <3>3, <3>9, <3>10 DEF Verdict
    <3> QED BY <3>7, <3>8, <3>9, <3>11
  <2> QED BY <2>1, <2>2
<1> DEFINE va == Verdict(i, m, a, ka)
           vb == Verdict(i, m, b, kb)
<1>9. /\ CompareEffect(i, m, a) = Further(m, a, va, Lesser(ka, a.len1), Lesser(ka, a.len2))
      /\ CompareEffect(i, m, b) = Further(m, b, vb, Lesser(kb, b.len1), Lesser(kb, b.len2))
  BY <1>1, CompareIs
<1> HIDE DEF ka, kb, va, vb
<1>10. /\ Lesser(ka, a.len1) = Lesser(kb, b.len1) + d1 /\ Lesser(ka, a.len2) = Lesser(kb, b.len2) + d2
       /\ Lesser(kb, b.len1) \in Int /\ Lesser(kb, b.len2) \in Int
  BY <1>1, <1>8 DEF Lesser, d1, d2
<1>11. Shifted(a, b, d1, d2) BY DEF d1, d2
<1>12. Further(m, b, vb, Lesser(kb, b.len1), Lesser(kb, b.len2))
         = Further(m, a, vb, Lesser(kb, b.len1) + d1, Lesser(kb, b.len2) + d2)
  BY <1>1, <1>10, <1>11, FurtherShift
<1>13. va = vb BY <1>8 DEF va, vb
<1> QED BY <1>9, <1>10, <1>12, <1>13

-----------------------------------------------------------------------------
(* Tries of strings                                                        *)

Strings == {"CMPS", "MOVSLJ", "MOVSO", "MOVSRJ"}

\* How much of either string is used.
Used1(len) == begun.ac.len1 - len
Used2(len) == begun.ac.len2 - len

\* The ACs of a string instruction that is not done: so much of the strings is used.
StringAc(a) ==
    /\ DOMAIN a = AcFields /\ Shifted(begun.ac, a, Used1(a.len1), Used2(a.len2))
    /\ a.len1 <= begun.ac.len1 /\ a.len2 <= begun.ac.len2

\* A try: where its pointers are, and the ACs it will leave.
OnStrings(y) ==
    /\ y.op = op /\ DOMAIN y = TryFields /\ y.e0 = begun.e0 /\ y.flags = begun.ac.flags
    /\ Keepable(y.s1) /\ Keepable(y.s2)
    /\ y.s1.bp.ind = begun.ac.bp1.ind /\ y.s2.bp.ind = begun.ac.bp2.ind
    /\ y.len1 \in Nat /\ y.len2 \in Nat /\ y.len1 <= begun.ac.len1 /\ y.len2 <= begun.ac.len2
    /\ Spot(y.s1) = Position(begun.ac.bp1) + Used1(y.len1)
    /\ Spot(y.s2) = Position(begun.ac.bp2) + Used2(y.len2)
LeftAc(y) ==
    [begun.ac EXCEPT !.bp1 = xbpupdate(y.s1), !.bp2 = xbpupdate(y.s2), !.len1 = y.len1, !.len2 = y.len2]

\* Where a string instruction begins.
LEMMA StringBegun ==
    ASSUME begun \in Starts, op \in Strings
    PROVE  /\ StringAc(begun.ac) /\ DOMAIN begun.ac = AcFields /\ begun.mem \in [Addr -> [1..BytesPerWord -> Byte]]
           /\ Proper(begun.ac.bp1) /\ Proper(begun.ac.bp2)
           /\ begun.ac.len1 \in Nat /\ begun.ac.len2 \in Nat
           /\ Position(begun.ac.bp1) \in Int /\ Position(begun.ac.bp2) \in Int
           /\ begun.e0[1] \in Byte /\ begun.e0[2] \in Byte
<1>1. begun.ac \in ACs /\ begun.e0 \in Seq(Byte) /\ begun.mem \in [Addr -> [1..BytesPerWord -> Byte]]
  BY StartsAssumption
<1>2. /\ begun.ac.bp1 \in Pointer /\ begun.ac.bp2 \in Pointer /\ DOMAIN begun.ac = AcFields
      /\ begun.ac.len1 \in Nat /\ begun.ac.len2 \in Nat
  BY <1>1 DEF ACs, AcFields
<1>3. \A bp \in Pointer : DOMAIN bp = PtrFields /\ Sane(bp)
  BY WordAssumption DEF Pointer, PtrFields, Sane
<1>4. op \in Moves \cup {"CMPS"} BY DEF Strings, Moves
<1>5. /\ Len(begun.e0) >= 2
      /\ begun.ac.bp1.fmt = "OWG" => ~begun.ac.bp1.ind
      /\ begun.ac.bp2.fmt = "OWG" => ~begun.ac.bp2.ind
  BY <1>4, StringsAssumption DEF op
<1>6. Proper(begun.ac.bp1) /\ Proper(begun.ac.bp2) BY <1>2, <1>3, <1>5 DEF Proper
<1>7. Position(begun.ac.bp1) \in Int /\ Position(begun.ac.bp2) \in Int
  BY <1>6, PositionFact DEF Proper
<1>8. begun.e0[1] \in Byte /\ begun.e0[2] \in Byte
  <2>1. 1 \in 1..Len(begun.e0) /\ 2 \in 1..Len(begun.e0)
    <3>1. Len(begun.e0) \in Nat BY <1>1
    <3> QED BY <1>5, <3>1
  <2> QED BY <1>1, <2>1, ElementOfSeq
<1>9. Shifted(begun.ac, begun.ac, Used1(begun.ac.len1), Used2(begun.ac.len2))
  BY <1>2, <1>6, <1>7 DEF Shifted, Used1, Used2
<1> QED BY <1>1, <1>2, <1>6, <1>7, <1>8, <1>9 DEF StringAc

\* What a try leaves in the ACs.
LEMMA LeftAcFact ==
    ASSUME begun \in Starts, op \in Strings, NEW y, OnStrings(y)
    PROVE  LET a == LeftAc(y)
           IN /\ StringAc(a) /\ a.len1 = y.len1 /\ a.len2 = y.len2 /\ Proper(a.bp1) /\ Proper(a.bp2)
              /\ a.bp1.ind = begun.ac.bp1.ind /\ a.bp2.ind = begun.ac.bp2.ind
              /\ Position(a.bp1) = Spot(y.s1) /\ Position(a.bp2) = Spot(y.s2)
              /\ a.flags = begun.ac.flags /\ a.num = begun.ac.num /\ a.at = begun.ac.at
              /\ a.mark = begun.ac.mark
<1> DEFINE a == LeftAc(y)
<1>1. DOMAIN begun.ac = AcFields BY StringBegun
<1>2. /\ DOMAIN a = AcFields /\ a.len1 = y.len1 /\ a.len2 = y.len2
      /\ a.bp1 = xbpupdate(y.s1) /\ a.bp2 = xbpupdate(y.s2)
      /\ a.flags = begun.ac.flags /\ a.num = begun.ac.num /\ a.at = begun.ac.at
      /\ a.mark = begun.ac.mark
  BY <1>1 DEF LeftAc, AcFields
<1> HIDE DEF a
<1>3. /\ Proper(a.bp1) /\ Proper(a.bp2)
      /\ a.bp1.ind = begun.ac.bp1.ind /\ a.bp2.ind = begun.ac.bp2.ind
      /\ Position(a.bp1) = Spot(y.s1) /\ Position(a.bp2) = Spot(y.s2)
  BY <1>2, UpdateFact DEF OnStrings
<1>4. y.len1 \in Nat /\ y.len2 \in Nat /\ y.len1 <= begun.ac.len1 /\ y.len2 <= begun.ac.len2
  BY DEF OnStrings
<1>5. Shifted(begun.ac, a, Used1(y.len1), Used2(y.len2))
  <2>1. /\ Position(a.bp1) = Position(begun.ac.bp1) + Used1(y.len1)
        /\ Position(a.bp2) = Position(begun.ac.bp2) + Used2(y.len2)
    BY <1>3 DEF OnStrings
  <2>2. y.len1 = begun.ac.len1 - Used1(y.len1) /\ y.len2 = begun.ac.len2 - Used2(y.len2)
    BY <1>4, StringBegun DEF Used1, Used2
  <2> QED BY <1>2, <1>3, <1>4, <2>1, <2>2, StringBegun DEF Shifted
<1>6. StringAc(a) BY <1>2, <1>4, <1>5 DEF StringAc
<1> QED BY <1>2, <1>3, <1>6 DEF a

\* It is what Stored says.
LEMMA StoredStrings ==
    ASSUME begun \in Starts, op \in Strings, NEW y, OnStrings(y), StringAc(ac)
    PROVE  Stored(y) = LeftAc(y)
<1> DEFINE s == Stored(y)
           a == LeftAc(y)
<1>1. /\ DOMAIN ac = AcFields /\ ac.num = begun.ac.num /\ ac.at = begun.ac.at /\ ac.mark = begun.ac.mark
      /\ DOMAIN begun.ac = AcFields
  BY StringBegun DEF StringAc, Shifted
<1>2. y.op \in Strings /\ y.flags = begun.ac.flags BY DEF OnStrings
<1>3. s = [ac EXCEPT !.flags = y.flags, !.bp1 = xbpupdate(y.s1), !.bp2 = xbpupdate(y.s2),
                     !.len1 = y.len1, !.len2 = y.len2]
  BY <1>2 DEF Stored, Strings, ToText, ToNumber, Bytes
<1> HIDE DEF s
<1>4. /\ DOMAIN s = AcFields /\ s.flags = begun.ac.flags /\ s.bp1 = xbpupdate(y.s1)
      /\ s.bp2 = xbpupdate(y.s2) /\ s.len1 = y.len1 /\ s.len2 = y.len2 /\ s.num = begun.ac.num
      /\ s.at = begun.ac.at /\ s.mark = begun.ac.mark
  BY <1>1, <1>2, <1>3 DEF AcFields
<1>5. /\ DOMAIN a = AcFields /\ a.flags = begun.ac.flags /\ a.bp1 = xbpupdate(y.s1)
      /\ a.bp2 = xbpupdate(y.s2) /\ a.len1 = y.len1 /\ a.len2 = y.len2 /\ a.num = begun.ac.num
      /\ a.at = begun.ac.at /\ a.mark = begun.ac.mark
  BY <1>1 DEF AcFields, LeftAc
<1>6. s = [f \in AcFields |-> s[f]] /\ a = [f \in AcFields |-> a[f]]
  <2>1. s = [f \in DOMAIN s |-> s[f]] BY <1>3
  <2>2. a = [f \in DOMAIN a |-> a[f]] BY DEF LeftAc
  <2> HIDE DEF a
  <2> QED BY <1>4, <1>5, <2>1, <2>2
<1> HIDE DEF a
<1>7. \A f \in AcFields : s[f] = a[f] BY <1>4, <1>5 DEF AcFields
<1> QED BY <1>6, <1>7 DEF s, a

\* A place is a byte of a word.
LEMMA PlaceByte ==
    ASSUME NEW bp, Sane(bp), NEW k \in Int
    PROVE  Place(bp, k)[2] \in 1..BytesPerWord /\ Place(bp, k) = <<Place(bp, k)[1], Place(bp, k)[2]>>
<1> DEFINE q == Position(bp) + k - 1
<1>1. q \in Int /\ BytesPerWord \in Nat \ {0} BY PositionFact, WordAssumption
<1>2. Place(bp, k) = <<IF bp.ind THEN Chain[q \div BytesPerWord] ELSE q \div BytesPerWord, (q % BytesPerWord) + 1>>
  BY DEF Place
<1> HIDE DEF q
<1>3. q % BytesPerWord \in 0..(BytesPerWord - 1) BY <1>1
<1> QED BY <1>1, <1>2, <1>3

\* Two tries of the same instruction leave ACs that differ in how much is used.
LEMMA Aligned ==
    ASSUME begun \in Starts, op \in Strings, NEW y, NEW z, OnStrings(y), OnStrings(z)
    PROVE  Shifted(LeftAc(y), LeftAc(z), y.len1 - z.len1, y.len2 - z.len2)
<1> DEFINE a == LeftAc(y)
           b == LeftAc(z)
           p1 == Position(begun.ac.bp1)
           p2 == Position(begun.ac.bp2)
<1>1. /\ a.len1 = y.len1 /\ a.len2 = y.len2 /\ Proper(a.bp1) /\ Proper(a.bp2)
      /\ a.bp1.ind = begun.ac.bp1.ind /\ a.bp2.ind = begun.ac.bp2.ind
      /\ Position(a.bp1) = Spot(y.s1) /\ Position(a.bp2) = Spot(y.s2)
      /\ a.flags = begun.ac.flags /\ a.num = begun.ac.num /\ a.at = begun.ac.at
      /\ a.mark = begun.ac.mark
  BY LeftAcFact
<1>2. /\ b.len1 = z.len1 /\ b.len2 = z.len2 /\ Proper(b.bp1) /\ Proper(b.bp2)
      /\ b.bp1.ind = begun.ac.bp1.ind /\ b.bp2.ind = begun.ac.bp2.ind
      /\ Position(b.bp1) = Spot(z.s1) /\ Position(b.bp2) = Spot(z.s2)
      /\ b.flags = begun.ac.flags /\ b.num = begun.ac.num /\ b.at = begun.ac.at
      /\ b.mark = begun.ac.mark
  BY LeftAcFact
<1>3. /\ y.len1 \in Nat /\ y.len2 \in Nat /\ z.len1 \in Nat /\ z.len2 \in Nat
      /\ Spot(y.s1) = p1 + (begun.ac.len1 - y.len1) /\ Spot(y.s2) = p2 + (begun.ac.len2 - y.len2)
      /\ Spot(z.s1) = p1 + (begun.ac.len1 - z.len1) /\ Spot(z.s2) = p2 + (begun.ac.len2 - z.len2)
  BY DEF OnStrings, Used1, Used2
<1>4. p1 \in Int /\ p2 \in Int /\ begun.ac.len1 \in Nat /\ begun.ac.len2 \in Nat BY StringBegun
<1> HIDE DEF a, b, p1, p2
<1>5. /\ Spot(z.s1) = Spot(y.s1) + (y.len1 - z.len1) /\ Spot(z.s2) = Spot(y.s2) + (y.len2 - z.len2)
      /\ z.len1 = y.len1 - (y.len1 - z.len1) /\ z.len2 = y.len2 - (y.len2 - z.len2)
  BY <1>3, <1>4
<1>6. Shifted(a, b, y.len1 - z.len1, y.len2 - z.len2) BY <1>1, <1>2, <1>3, <1>5 DEF Shifted
<1> QED BY <1>6 DEF a, b

\* The next byte of a string, or the fill byte.
Fetch(m, gone, len, s, fill) ==
    IF len > 0 THEN xildb(m, gone, s) ELSE [ok |-> TRUE, s |-> s, b |-> fill]

\* Undone, it is where it was.
LEMMA UnreadFact ==
    ASSUME NEW m, NEW gone, NEW s, Live(s, m), NEW bp, Proper(bp), bp.ind = s.bp.ind,
           Spot(s) = Position(bp), NEW r, r = xildb(m, gone, s), r.ok
    PROVE  Keepable(xdecbp(r.s)) /\ Spot(xdecbp(r.s)) = Spot(s) /\ xdecbp(r.s).bp.ind = s.bp.ind
<1>1. Sane(bp) BY DEF Proper
<1>2. Keepable(r.s) /\ r.s.bp.ind = s.bp.ind /\ Spot(r.s) = Spot(s) + 1 /\ r.s.p < BytesPerWord
  BY <1>1, ReadFact
<1>3. /\ Keepable(xdecbp(r.s)) /\ Spot(xdecbp(r.s)) = Spot(r.s) - 1
      /\ xdecbp(r.s).bp.ind = r.s.bp.ind
  BY <1>2, BackFact
<1>4. Spot(s) \in Int BY UpdateFact DEF Live
<1>5. (Spot(s) + 1) - 1 = Spot(s) BY <1>4
<1> QED BY <1>2, <1>3, <1>5

\* Nothing more used, nothing more to see.
LEMMA FurtherNone ==
    ASSUME NEW m, NEW a, NEW how, a.len1 \in Int, a.len2 \in Int,
           Position(a.bp1) \in Int, Position(a.bp2) \in Int
    PROVE  Further(m, a, how, 0, 0) = Seen(m, a, how)
<1>1. /\ a.len1 - 0 = a.len1 /\ a.len2 - 0 = a.len2
      /\ Position(a.bp1) + 0 = Position(a.bp1) /\ Position(a.bp2) + 0 = Position(a.bp2)
  OBVIOUS
<1> QED BY <1>1 DEF Further, Seen

\* The bytes compared are bytes.
LEMMA CharsAre ==
    ASSUME begun \in Starts, op = "CMPS", NEW y, OnStrings(y), y.len1 # 0 \/ y.len2 # 0
    PROVE  /\ Char1(begun, begun.mem, LeftAc(y), 1) \in Int
           /\ Char2(begun, begun.mem, LeftAc(y), 1) \in Int
<1> DEFINE a == LeftAc(y)
           m == begun.mem
           i == begun
<1>0. op \in Strings /\ op \in Moves \cup {"CMPS"} BY DEF Strings
<1>1. /\ a.len1 = y.len1 /\ a.len2 = y.len2 /\ Proper(a.bp1) /\ Proper(a.bp2)
      /\ a.bp1.ind = begun.ac.bp1.ind /\ a.bp2.ind = begun.ac.bp2.ind
      /\ Position(a.bp1) = Spot(y.s1) /\ Position(a.bp2) = Spot(y.s2)
  BY <1>0, LeftAcFact
<1>2. /\ begun.mem \in [Addr -> [1..BytesPerWord -> Byte]] /\ begun.e0[1] \in Byte /\ begun.e0[2] \in Byte
      /\ Proper(begun.ac.bp1) /\ Proper(begun.ac.bp2)
      /\ begun.ac.len1 \in Nat /\ begun.ac.len2 \in Nat
  BY <1>0, StringBegun
<1>3. Byte \in SUBSET Int BY StringAssumption DEF Byte
<1>4. FillOf(i, a) \in Byte BY <1>2 DEF FillOf
<1>5. /\ y.len1 \in Nat /\ y.len2 \in Nat /\ y.len1 <= begun.ac.len1 /\ y.len2 <= begun.ac.len2
      /\ Spot(y.s1) = Position(begun.ac.bp1) + (begun.ac.len1 - y.len1)
      /\ Spot(y.s2) = Position(begun.ac.bp2) + (begun.ac.len2 - y.len2)
  BY DEF OnStrings, Used1, Used2
<1> DEFINE fill == FillOf(i, a)
<1> HIDE DEF a, fill
<1>6. ASSUME y.len1 >= 1 PROVE Place(a.bp1, 1)[1] \in Addr
  <2> DEFINE d == begun.ac.len1 - y.len1
  <2>1. d \in Int /\ 1 + d \in 1..begun.ac.len1 BY <1>2, <1>5, <1>6
  <2>2. Position(a.bp1) = Position(begun.ac.bp1) + d BY <1>1, <1>5
  <2> HIDE DEF d
  <2>3. Place(a.bp1, 1) = Place(begun.ac.bp1, 1 + d) BY <1>1, <1>2, <2>1, <2>2, PlaceShift
  <2>4. Place(begun.ac.bp1, 1 + d)[1] \in Addr BY <1>0, <2>1, StringsAssumption DEF op
  <2> QED BY <2>3, <2>4
<1>7. ASSUME y.len2 >= 1 PROVE Place(a.bp2, 1)[1] \in Addr
  <2> DEFINE d == begun.ac.len2 - y.len2
  <2>1. d \in Int /\ 1 + d \in 1..begun.ac.len2 BY <1>2, <1>5, <1>7
  <2>2. Position(a.bp2) = Position(begun.ac.bp2) + d BY <1>1, <1>5
  <2> HIDE DEF d
  <2>3. Place(a.bp2, 1) = Place(begun.ac.bp2, 1 + d) BY <1>1, <1>2, <2>1, <2>2, PlaceShift
  <2>4. Place(begun.ac.bp2, 1 + d)[1] \in Addr BY <1>0, <2>1, StringsAssumption DEF op
  <2> QED BY <2>3, <2>4
<1>8. CharAt(m, a.bp1, a.len1, fill, 1) \in Int
  <2>1. CASE 1 <= a.len1
    <3>1. Place(a.bp1, 1)[1] \in Addr BY <1>1, <1>5, <1>6, <2>1
    <3>2. Place(a.bp1, 1)[2] \in 1..BytesPerWord BY <1>1, PlaceByte DEF Proper
    <3> QED BY <1>2, <1>3, <2>1, <3>1, <3>2 DEF CharAt
  <2>2. CASE ~(1 <= a.len1) BY <1>3, <1>4, <2>2 DEF CharAt, fill
  <2> QED BY <2>1, <2>2
<1>9. CharAt(m, a.bp2, a.len2, fill, 1) \in Int
  <2>1. CASE 1 <= a.len2
    <3>1. Place(a.bp2, 1)[1] \in Addr BY <1>1, <1>5, <1>7, <2>1
    <3>2. Place(a.bp2, 1)[2] \in 1..BytesPerWord BY <1>1, PlaceByte DEF Proper
    <3> QED BY <1>2, <1>3, <2>1, <3>1, <3>2 DEF CharAt
  <2>2. CASE ~(1 <= a.len2) BY <1>3, <1>4, <2>2 DEF CharAt, fill
  <2> QED BY <2>1, <2>2
<1> QED BY <1>8, <1>9 DEF Char1, Char2, fill, a

-----------------------------------------------------------------------------
(* CMPS                                                                    *)

CmpGoal == CompareEffect(begun, begun.mem, begun.ac)

\* A comparison under way: what it leaves asks for the same, or it is what was asked for.
Comparing(y) ==
    /\ OnStrings(y) /\ y.mem = begun.mem /\ y.res \in {"RUN", "PF", "PI", "EQ", "LT", "GT"}
    /\ y.res = "RUN" => /\ Live(y.s1, begun.mem) /\ Live(y.s2, begun.mem)
                        /\ y.len1 # 0 \/ y.len2 # 0 =>
                               begun.e0[IF y.fill2 THEN 2 ELSE 1] = FillOf(begun, y)
    /\ y.res \in {"RUN", "PF", "PI"} => CompareEffect(begun, begun.mem, LeftAc(y)) = CmpGoal
    /\ y.res \in {"EQ", "LT", "GT"} => Seen(begun.mem, LeftAc(y), y.res) = CmpGoal

\* Where nothing is used, the same is asked for.
LEMMA SameAsked ==
    ASSUME begun \in Starts, op \in Strings, NEW y, NEW z, OnStrings(y), OnStrings(z),
           z.len1 = y.len1, z.len2 = y.len2
    PROVE  CompareEffect(begun, begun.mem, LeftAc(z)) = CompareEffect(begun, begun.mem, LeftAc(y))
<1> DEFINE a == LeftAc(y)
           b == LeftAc(z)
<1>1. a.len1 = y.len1 /\ a.len2 = y.len2 BY LeftAcFact
<1>2. y.len1 \in Nat /\ y.len2 \in Nat BY DEF OnStrings
<1>3. Shifted(a, b, y.len1 - z.len1, y.len2 - z.len2) BY Aligned
<1> HIDE DEF a, b
<1>4. y.len1 - z.len1 = Lesser(0, a.len1) /\ y.len2 - z.len2 = Lesser(0, a.len2)
  BY <1>1, <1>2 DEF Lesser
<1>5. 0 \in Nat /\ 0 <= Longer(a) BY <1>1, <1>2 DEF Longer
<1>6. \A k \in 1..0 : Char1(begun, begun.mem, a, k) = Char2(begun, begun.mem, a, k) OBVIOUS
<1>7. Shifted(a, b, Lesser(0, a.len1), Lesser(0, a.len2)) BY <1>3, <1>4
<1>8. CompareEffect(begun, begun.mem, b) = CompareEffect(begun, begun.mem, a)
  BY <1>5, <1>6, <1>7, CompareShift
<1> QED BY <1>8 DEF a, b

\* The two strings are used up: they are equal.
LEMMA CmpOver ==
    ASSUME begun \in Starts, op = "CMPS", NEW y, NEW z, Comparing(y), y.res = "RUN",
           y.len1 = 0, y.len2 = 0, z = [y EXCEPT !.res = "EQ"]
    PROVE  Comparing(z)
<1> DEFINE a == LeftAc(y)
           m == begun.mem
<1>0. op \in Strings BY DEF Strings
<1>1. OnStrings(y) /\ DOMAIN y = TryFields /\ y.mem = m /\ CompareEffect(begun, m, a) = CmpGoal
  BY DEF Comparing, OnStrings
<1>2. /\ DOMAIN z = TryFields /\ z.res = "EQ" /\ z.op = y.op /\ z.e0 = y.e0 /\ z.flags = y.flags
      /\ z.s1 = y.s1 /\ z.s2 = y.s2 /\ z.len1 = y.len1 /\ z.len2 = y.len2 /\ z.mem = y.mem
  BY <1>1 DEF TryFields
<1>3. OnStrings(z) BY <1>1, <1>2 DEF OnStrings
<1>4. LeftAc(z) = a BY <1>2 DEF LeftAc
<1>5. a.len1 = 0 /\ a.len2 = 0 BY <1>0, <1>1, LeftAcFact
<1>6. Position(a.bp1) \in Int /\ Position(a.bp2) \in Int
  <2>1. Proper(a.bp1) /\ Proper(a.bp2) BY <1>0, <1>1, LeftAcFact
  <2> HIDE DEF a
  <2> QED BY <2>1, PositionFact DEF Proper
<1> HIDE DEF a
<1>7. Longer(a) = 0 BY <1>5 DEF Longer
<1>8. Differing(begun, m, a) = {} BY <1>7 DEF Differing
<1>9. Compared(begun, m, a) = 0 /\ Verdict(begun, m, a, 0) = "EQ" BY <1>7, <1>8 DEF Compared, Verdict
<1>10. Lesser(0, 0) = 0 BY DEF Lesser
<1>11. CompareEffect(begun, m, a) = Further(m, a, "EQ", 0, 0) BY <1>5, <1>9, <1>10, CompareIs
<1>12. Further(m, a, "EQ", 0, 0) = Seen(m, a, "EQ") BY <1>5, <1>6, FurtherNone
<1> QED BY <1>1, <1>2, <1>3, <1>4, <1>11, <1>12 DEF Comparing

\* A byte of a string is not there, and nothing has been used.
LEMMA CmpFails ==
    ASSUME begun \in Starts, op = "CMPS", NEW y, NEW z, Comparing(y), y.res = "RUN",
           DOMAIN z = TryFields, z.res = "PF", z.op = y.op, z.e0 = y.e0, z.flags = y.flags,
           z.mem = y.mem, z.len1 = y.len1, z.len2 = y.len2,
           Keepable(z.s1), z.s1.bp.ind = y.s1.bp.ind, Spot(z.s1) = Spot(y.s1),
           Keepable(z.s2), z.s2.bp.ind = y.s2.bp.ind, Spot(z.s2) = Spot(y.s2)
    PROVE  Comparing(z)
<1>0. op \in Strings BY DEF Strings
<1>1. OnStrings(y) /\ y.mem = begun.mem /\ CompareEffect(begun, begun.mem, LeftAc(y)) = CmpGoal
  BY DEF Comparing
<1>2. OnStrings(z) BY <1>1 DEF OnStrings
<1>3. CompareEffect(begun, begun.mem, LeftAc(z)) = CmpGoal BY <1>0, <1>1, <1>2, SameAsked
<1> QED BY <1>1, <1>2, <1>3 DEF Comparing

\* Two bytes have been compared: they are the same and the rest is asked for, or they settle it.
LEMMA CmpGoesOn ==
    ASSUME begun \in Starts, op = "CMPS", NEW y, NEW z, Comparing(y), y.res = "RUN",
           y.len1 # 0 \/ y.len2 # 0,
           DOMAIN z = TryFields, z.op = y.op, z.e0 = y.e0, z.flags = y.flags, z.mem = y.mem,
           z.fill2 = y.fill2,
           z.len1 = y.len1 - Lesser(1, y.len1), z.len2 = y.len2 - Lesser(1, y.len2),
           Live(z.s1, begun.mem), z.s1.bp.ind = y.s1.bp.ind, Spot(z.s1) = Spot(y.s1) + Lesser(1, y.len1),
           Live(z.s2, begun.mem), z.s2.bp.ind = y.s2.bp.ind, Spot(z.s2) = Spot(y.s2) + Lesser(1, y.len2),
           NEW c1, NEW c2,
           c1 = Char1(begun, begun.mem, LeftAc(y), 1), c2 = Char2(begun, begun.mem, LeftAc(y), 1),
           c1 < c2 => z.res = "LT", c1 > c2 => z.res = "GT", c1 = c2 => z.res \in {"RUN", "PI"}
    PROVE  Comparing(z)
<1> DEFINE a == LeftAc(y)
           b == LeftAc(z)
           m == begun.mem
           d1 == Lesser(1, y.len1)
           d2 == Lesser(1, y.len2)
<1>0. op \in Strings BY DEF Strings
<1>1. OnStrings(y) /\ y.mem = m /\ CompareEffect(begun, m, a) = CmpGoal
      /\ begun.e0[IF y.fill2 THEN 2 ELSE 1] = FillOf(begun, y)
  BY DEF Comparing
<1>2. /\ y.len1 \in Nat /\ y.len2 \in Nat /\ y.len1 <= begun.ac.len1 /\ y.len2 <= begun.ac.len2
      /\ Spot(y.s1) = Position(begun.ac.bp1) + Used1(y.len1)
      /\ Spot(y.s2) = Position(begun.ac.bp2) + Used2(y.len2)
  BY <1>1 DEF OnStrings
<1>3. /\ begun.ac.len1 \in Nat /\ begun.ac.len2 \in Nat
      /\ Position(begun.ac.bp1) \in Int /\ Position(begun.ac.bp2) \in Int
  BY <1>0, StringBegun
<1>4. d1 \in 0..y.len1 /\ d2 \in 0..y.len2 /\ d1 \in Nat /\ d2 \in Nat BY <1>2 DEF Lesser
<1>5. z.len1 = y.len1 - d1 /\ z.len2 = y.len2 - d2 /\ Spot(z.s1) = Spot(y.s1) + d1
      /\ Spot(z.s2) = Spot(y.s2) + d2
  OBVIOUS
<1>6. Longer(a) >= 1 /\ a.len1 = y.len1 /\ a.len2 = y.len2 /\ Longer(a) \in Nat
  <2>1. a.len1 = y.len1 /\ a.len2 = y.len2 BY <1>0, <1>1, LeftAcFact
  <2> HIDE DEF a
  <2> QED BY <1>2, <2>1 DEF Longer
<1>7. (z.len1 # 0 \/ z.len2 # 0) => FillOf(begun, z) = FillOf(begun, y)
  <2>1. (z.len1 # 0 \/ z.len2 # 0) => (z.len1 > z.len2 <=> y.len1 > y.len2)
    BY <1>2 DEF Lesser
  <2> QED BY <2>1 DEF FillOf
<1> HIDE DEF d1, d2
<1>8. OnStrings(z)
  <2>1. z.len1 \in Nat /\ z.len2 \in Nat /\ z.len1 <= begun.ac.len1 /\ z.len2 <= begun.ac.len2
    BY <1>2, <1>3, <1>4, <1>5
  <2>2. Used1(z.len1) = Used1(y.len1) + d1 /\ Used2(z.len2) = Used2(y.len2) + d2
    BY <1>2, <1>3, <1>4, <1>5 DEF Used1, Used2
  <2>3. Used1(y.len1) \in Int /\ Used2(y.len2) \in Int BY <1>2, <1>3 DEF Used1, Used2
  <2>4. /\ Spot(z.s1) = Position(begun.ac.bp1) + Used1(z.len1)
        /\ Spot(z.s2) = Position(begun.ac.bp2) + Used2(z.len2)
    BY <1>2, <1>3, <1>4, <1>5, <2>2, <2>3
  <2> QED BY <1>1, <2>1, <2>4 DEF OnStrings, Live
<1>9. Shifted(a, b, d1, d2)
  <2>1. Shifted(a, b, y.len1 - z.len1, y.len2 - z.len2) BY <1>0, <1>1, <1>8, Aligned
  <2>2. y.len1 - z.len1 = d1 /\ y.len2 - z.len2 = d2 BY <1>2, <1>4, <1>5
  <2> QED BY <2>1, <2>2
<1>10. d1 = Lesser(1, a.len1) /\ d2 = Lesser(1, a.len2) BY <1>6 DEF d1, d2
<1>11. c1 \in Int /\ c2 \in Int BY <1>1, CharsAre
<1>12. c1 = Char1(begun, m, a, 1) /\ c2 = Char2(begun, m, a, 1) OBVIOUS
<1>13. Position(b.bp1) \in Int /\ Position(b.bp2) \in Int /\ b.len1 \in Int /\ b.len2 \in Int
  BY <1>9, PositionFact DEF Shifted, Proper
<1>14. z.mem = m /\ z.fill2 = y.fill2 /\ Live(z.s1, m) /\ Live(z.s2, m) BY <1>1
<1> HIDE DEF a, b
<1>15. CASE c1 = c2
  <2>1. \A k \in 1..1 : Char1(begun, m, a, k) = Char2(begun, m, a, k) BY <1>12, <1>15
  <2>2. 1 \in Nat /\ 1 <= Longer(a) BY <1>6
  <2>3. CompareEffect(begun, m, b) = CompareEffect(begun, m, a)
    BY <1>9, <1>10, <2>1, <2>2, CompareShift
  <2>4. z.res \in {"RUN", "PI"} BY <1>15
  <2> QED BY <1>1, <1>7, <1>8, <1>14, <2>3, <2>4 DEF Comparing, b, a
<1>16. CASE c1 # c2
  <2> DEFINE D == Differing(begun, m, a)
  <2>1. 1 \in D BY <1>6, <1>12, <1>16 DEF Differing
  <2>2. D \in SUBSET Nat /\ \A k \in D : k >= 1 BY <1>6 DEF Differing
  <2>3. LeastOf(D) = 1
    <3>1. LeastOf(D) \in D /\ \A j \in D : LeastOf(D) <= j BY <2>1, <2>2, LeastFact
    <3>2. LeastOf(D) <= 1 /\ LeastOf(D) >= 1 /\ LeastOf(D) \in Nat BY <2>1, <2>2, <3>1
    <3> QED BY <3>2
  <2>4. Compared(begun, m, a) = 1 BY <2>1, <2>3 DEF Compared
  <2>5. Verdict(begun, m, a, 1) = z.res /\ z.res \in {"LT", "GT"}
    <3>1. CASE c1 < c2 BY <1>12, <2>1, <3>1 DEF Verdict
    <3>2. CASE c1 > c2
      <4>1. ~(c1 < c2) BY <1>11, <3>2
      <4> QED BY <1>12, <2>1, <3>2, <4>1 DEF Verdict
    <3> QED BY <1>11, <1>16, <3>1, <3>2
  <2> HIDE DEF D
  <2>6. CompareEffect(begun, m, a) = Further(m, a, z.res, d1, d2)
    BY <1>2, <1>6, <1>10, <2>4, <2>5, CompareIs
  <2>7. 0 \in Int /\ 0 + d1 = d1 /\ 0 + d2 = d2 /\ d1 \in Int /\ d2 \in Int BY <1>4
  <2>8. Further(m, b, z.res, 0, 0) = Further(m, a, z.res, 0 + d1, 0 + d2)
    BY <1>9, <2>7, FurtherShift
  <2>9. Further(m, b, z.res, 0, 0) = Seen(m, b, z.res) BY <1>13, FurtherNone
  <2>10. Seen(m, b, z.res) = CmpGoal BY <1>1, <2>6, <2>7, <2>8, <2>9 DEF a
  <2> QED BY <1>8, <1>14, <2>5, <2>10 DEF Comparing, b
<1> QED BY <1>15, <1>16

\* A turn of CMPS.
LEMMA CmpTurn ==
    ASSUME begun \in Starts, op = "CMPS", NEW y, Comparing(y), y.res = "RUN", NEW gone, NEW brk
    PROVE  Comparing(CompareStep(y, gone, brk))
<1> DEFINE z == CompareStep(y, gone, brk)
           m == begun.mem
           fill == begun.e0[IF y.fill2 THEN 2 ELSE 1]
           a == LeftAc(y)
           one == Fetch(m, gone, y.len1, y.s1, fill)
           two == Fetch(m, gone, y.len2, y.s2, fill)
           less(n) == IF n > 0 THEN n - 1 ELSE 0
           back == IF y.len1 > 0 THEN xdecbp(one.s) ELSE one.s
           n1 == less(y.len1)
           n2 == less(y.len2)
           how == IF one.b < two.b THEN "LT" ELSE IF one.b > two.b THEN "GT"
                  ELSE IF brk THEN "PI" ELSE "RUN"
<1>0. op \in Strings BY DEF Strings
<1>1. /\ OnStrings(y) /\ DOMAIN y = TryFields /\ y.mem = m /\ y.e0 = begun.e0
      /\ y.len1 \in Nat /\ y.len2 \in Nat /\ Live(y.s1, m) /\ Live(y.s2, m)
      /\ y.len1 # 0 \/ y.len2 # 0 => fill = FillOf(begun, y)
  BY DEF Comparing, OnStrings
<1>2. /\ a.len1 = y.len1 /\ a.len2 = y.len2 /\ Proper(a.bp1) /\ Proper(a.bp2)
      /\ a.bp1.ind = y.s1.bp.ind /\ a.bp2.ind = y.s2.bp.ind
      /\ Position(a.bp1) = Spot(y.s1) /\ Position(a.bp2) = Spot(y.s2)
  BY <1>0, <1>1, LeftAcFact DEF OnStrings
<1>3. /\ y.len1 = 0 /\ y.len2 = 0 => z = [y EXCEPT !.res = "EQ"]
      /\ ~(y.len1 = 0 /\ y.len2 = 0) /\ ~one.ok => z = [y EXCEPT !.s1 = one.s, !.res = "PF"]
      /\ ~(y.len1 = 0 /\ y.len2 = 0) /\ one.ok /\ ~two.ok =>
             z = [y EXCEPT !.s1 = back, !.s2 = two.s, !.res = "PF"]
      /\ ~(y.len1 = 0 /\ y.len2 = 0) /\ one.ok /\ two.ok =>
             z = [y EXCEPT !.s1 = one.s, !.s2 = two.s, !.len1 = less(@), !.len2 = less(@), !.res = how]
  BY <1>1, Zenon DEF CompareStep, Fetch
<1> HIDE DEF z, fill, a, one, two
<1>4. fill = fill /\ one = Fetch(m, gone, y.len1, y.s1, fill) /\ two = Fetch(m, gone, y.len2, y.s2, fill)
  BY DEF one, two
<1> HIDE DEF m
<1>5. Keepable(y.s1) /\ Keepable(y.s2) /\ Spot(y.s1) \in Int /\ Spot(y.s2) \in Int
  <2>1. Keepable(y.s1) /\ Keepable(y.s2) BY <1>1 DEF Live
  <2> QED BY <2>1, UpdateFact
<1>6. /\ Keepable(one.s) /\ one.s.bp.ind = y.s1.bp.ind
      /\ one.ok => /\ Live(one.s, m) /\ Spot(one.s) = Spot(y.s1) + Lesser(1, y.len1)
                   /\ one.b = CharAt(m, a.bp1, y.len1, fill, 1)
      /\ ~one.ok => y.len1 > 0 /\ Spot(one.s) = Spot(y.s1)
  <2>1. CASE y.len1 > 0
    <3>1. one = xildb(m, gone, y.s1) BY <1>4, <2>1 DEF Fetch
    <3>2. Sane(a.bp1) BY <1>2 DEF Proper
    <3> DEFINE r == xildb(m, gone, y.s1)
    <3>3. /\ Keepable(r.s) /\ r.s.bp.ind = y.s1.bp.ind
          /\ r.ok => /\ Live(r.s, m) /\ Spot(r.s) = Spot(y.s1) + 1
                     /\ r.b = m[Place(a.bp1, 1)[1]][Place(a.bp1, 1)[2]]
          /\ ~r.ok => Spot(r.s) = Spot(y.s1)
      BY <1>1, <1>2, <3>2, ReadFact
    <3>4. Lesser(1, y.len1) = 1 /\ 1 <= y.len1 BY <1>1, <2>1 DEF Lesser
    <3> QED BY <2>1, <3>1, <3>3, <3>4 DEF CharAt
  <2>2. CASE ~(y.len1 > 0)
    <3>1. one.ok = TRUE /\ one.s = y.s1 /\ one.b = fill BY <1>4, <2>2 DEF Fetch
    <3>2. Lesser(1, y.len1) = 0 /\ ~(1 <= y.len1) BY <1>1, <2>2 DEF Lesser
    <3>3. CharAt(m, a.bp1, y.len1, fill, 1) = fill BY <3>2 DEF CharAt
    <3>4. Spot(y.s1) + 0 = Spot(y.s1) BY <1>5
    <3> QED BY <1>1, <1>5, <3>1, <3>2, <3>3, <3>4
  <2> QED BY <2>1, <2>2
<1>7. /\ Keepable(two.s) /\ two.s.bp.ind = y.s2.bp.ind
      /\ two.ok => /\ Live(two.s, m) /\ Spot(two.s) = Spot(y.s2) + Lesser(1, y.len2)
                   /\ two.b = CharAt(m, a.bp2, y.len2, fill, 1)
      /\ ~two.ok => y.len2 > 0 /\ Spot(two.s) = Spot(y.s2)
  <2>1. CASE y.len2 > 0
    <3>1. two = xildb(m, gone, y.s2) BY <1>4, <2>1 DEF Fetch
    <3>2. Sane(a.bp2) BY <1>2 DEF Proper
    <3> DEFINE r == xildb(m, gone, y.s2)
    <3>3. /\ Keepable(r.s) /\ r.s.bp.ind = y.s2.bp.ind
          /\ r.ok => /\ Live(r.s, m) /\ Spot(r.s) = Spot(y.s2) + 1
                     /\ r.b = m[Place(a.bp2, 1)[1]][Place(a.bp2, 1)[2]]
          /\ ~r.ok => Spot(r.s) = Spot(y.s2)
      BY <1>1, <1>2, <3>2, ReadFact
    <3>4. Lesser(1, y.len2) = 1 /\ 1 <= y.len2 BY <1>1, <2>1 DEF Lesser
    <3> QED BY <2>1, <3>1, <3>3, <3>4 DEF CharAt
  <2>2. CASE ~(y.len2 > 0)
    <3>1. two.ok = TRUE /\ two.s = y.s2 /\ two.b = fill BY <1>4, <2>2 DEF Fetch
    <3>2. Lesser(1, y.len2) = 0 /\ ~(1 <= y.len2) BY <1>1, <2>2 DEF Lesser
    <3>3. CharAt(m, a.bp2, y.len2, fill, 1) = fill BY <3>2 DEF CharAt
    <3>4. Spot(y.s2) + 0 = Spot(y.s2) BY <1>5
    <3> QED BY <1>1, <1>5, <3>1, <3>2, <3>3, <3>4
  <2> QED BY <2>1, <2>2
<1>8. CASE y.len1 = 0 /\ y.len2 = 0 BY <1>3, <1>8, CmpOver DEF z
<1>9. CASE ~(y.len1 = 0 /\ y.len2 = 0) /\ ~one.ok
  <2>1. z = [y EXCEPT !.s1 = one.s, !.res = "PF"] BY <1>3, <1>9
  <2>2. /\ DOMAIN z = TryFields /\ z.res = "PF" /\ z.op = y.op /\ z.e0 = y.e0 /\ z.flags = y.flags
        /\ z.mem = y.mem /\ z.len1 = y.len1 /\ z.len2 = y.len2 /\ z.s1 = one.s /\ z.s2 = y.s2
    BY <1>1, <2>1 DEF TryFields
  <2>3. Comparing(z) BY <1>6, <1>5, <1>9, <2>2, CmpFails
  <2> QED BY <2>3 DEF z
<1>10. CASE ~(y.len1 = 0 /\ y.len2 = 0) /\ one.ok /\ ~two.ok
  <2>1. z = [y EXCEPT !.s1 = back, !.s2 = two.s, !.res = "PF"] BY <1>3, <1>10
  <2>2. Keepable(back) /\ back.bp.ind = y.s1.bp.ind /\ Spot(back) = Spot(y.s1)
    <3>1. CASE y.len1 > 0
      <4>1. one = xildb(m, gone, y.s1) BY <3>1 DEF one, Fetch
      <4>2. Keepable(xdecbp(one.s)) /\ Spot(xdecbp(one.s)) = Spot(y.s1)
            /\ xdecbp(one.s).bp.ind = y.s1.bp.ind
        BY <1>1, <1>2, <1>10, <4>1, UnreadFact
      <4> QED BY <3>1, <4>2
    <3>2. CASE ~(y.len1 > 0)
      <4>1. Lesser(1, y.len1) = 0 BY <1>1, <3>2 DEF Lesser
      <4>2. Spot(y.s1) + 0 = Spot(y.s1) BY <1>5
      <4> QED BY <1>6, <1>10, <3>2, <4>1, <4>2
    <3> QED BY <3>1, <3>2
  <2> HIDE DEF back
  <2>3. /\ DOMAIN z = TryFields /\ z.res = "PF" /\ z.op = y.op /\ z.e0 = y.e0 /\ z.flags = y.flags
        /\ z.mem = y.mem /\ z.len1 = y.len1 /\ z.len2 = y.len2 /\ z.s1 = back /\ z.s2 = two.s
    BY <1>1, <2>1 DEF TryFields
  <2>4. Comparing(z) BY <1>7, <1>10, <2>2, <2>3, CmpFails
  <2> QED BY <2>4 DEF z
<1>11. CASE ~(y.len1 = 0 /\ y.len2 = 0) /\ one.ok /\ two.ok
  <2> HIDE DEF how, back
  <2>1. z = [y EXCEPT !.s1 = one.s, !.s2 = two.s, !.len1 = n1, !.len2 = n2, !.res = how]
    <3>1. z = [y EXCEPT !.s1 = one.s, !.s2 = two.s, !.len1 = less(@), !.len2 = less(@), !.res = how]
      BY <1>3, <1>11
    <3> QED BY <1>1, <3>1
  <2>2. n1 = y.len1 - Lesser(1, y.len1) /\ n2 = y.len2 - Lesser(1, y.len2) BY <1>1 DEF Lesser
  <2> HIDE DEF n1, n2
  <2>3. /\ DOMAIN z = TryFields /\ z.res = how /\ z.op = y.op /\ z.e0 = y.e0 /\ z.flags = y.flags
        /\ z.mem = y.mem /\ z.len1 = n1 /\ z.len2 = n2 /\ z.s1 = one.s /\ z.s2 = two.s
        /\ z.fill2 = y.fill2
    BY <1>1, <2>1 DEF TryFields
  <2>4. one.b = Char1(begun, m, a, 1) /\ two.b = Char2(begun, m, a, 1)
    <3>1. fill = FillOf(begun, a) BY <1>1, <1>2, <1>11 DEF FillOf
    <3> QED BY <1>2, <1>6, <1>7, <1>11, <3>1 DEF Char1, Char2
  <2>5. one.b \in Int /\ two.b \in Int
    <3>1. Char1(begun, m, a, 1) \in Int /\ Char2(begun, m, a, 1) \in Int
      BY <1>1, <1>11, CharsAre DEF a, m
    <3> QED BY <2>4, <3>1
  <2>6. /\ one.b < two.b => how = "LT"
        /\ one.b > two.b => how = "GT"
        /\ one.b = two.b => how \in {"RUN", "PI"}
    BY <2>5 DEF how
  <2>7. Comparing(z)
    <3>1. one.b = Char1(begun, begun.mem, LeftAc(y), 1) /\ two.b = Char2(begun, begun.mem, LeftAc(y), 1)
      BY <2>4 DEF a, m
    <3>2. y.len1 # 0 \/ y.len2 # 0 BY <1>11
    <3>3. Live(one.s, begun.mem) /\ Live(two.s, begun.mem) BY <1>6, <1>7, <1>11 DEF m
    <3> QED BY <3>3, <1>6, <1>7, <1>11, <2>2, <2>3, <2>6, <3>1, <3>2, CmpGoesOn
  <2> QED BY <2>7 DEF z
<1> QED BY <1>6, <1>7, <1>8, <1>9, <1>10, <1>11

\* The state of a CMPS: at rest the ACs ask for what was asked for.
CmpAt(m, a, y, how) ==
    /\ y = Idle /\ how = "" =>
           m = begun.mem /\ StringAc(a) /\ CompareEffect(begun, begun.mem, a) = CmpGoal
    /\ y # Idle => how = "" /\ y.mem = m /\ Comparing(y) /\ StringAc(a)
    /\ how # "" => y = Idle /\ Seen(m, a, how) = CmpGoal

\* A try begins with clean pointers to what the ACs say is left.
LEMMA FreshFact ==
    ASSUME begun \in Starts, op \in Strings, StringAc(ac)
    PROVE  LET y == Fresh(ac.flags, 0)
           IN /\ OnStrings(y) /\ y.mem = mem /\ y.res = "RUN" /\ DOMAIN y = TryFields
              /\ y.len1 = ac.len1 /\ y.len2 = ac.len2 /\ y.s1.vp = FALSE
              /\ Live(y.s1, mem) /\ Live(y.s2, mem)
              /\ y.fill2 = (ac.len1 > ac.len2)
<1> DEFINE y == Fresh(ac.flags, 0)
<1>1. /\ y.op = op /\ DOMAIN y = TryFields /\ y.res = "RUN" /\ y.flags = ac.flags /\ y.mem = mem
      /\ y.len1 = ac.len1 /\ y.len2 = ac.len2 /\ y.s1 = Clean(ac.bp1) /\ y.s2 = Clean(ac.bp2)
      /\ y.e0 = begun.e0 /\ y.fill2 = (ac.len1 > ac.len2)
  BY DEF Fresh, TryFields
<1> HIDE DEF y
<1>2. /\ Proper(ac.bp1) /\ Proper(ac.bp2) /\ ac.bp1.ind = begun.ac.bp1.ind /\ ac.bp2.ind = begun.ac.bp2.ind
      /\ Position(ac.bp1) = Position(begun.ac.bp1) + Used1(ac.len1)
      /\ Position(ac.bp2) = Position(begun.ac.bp2) + Used2(ac.len2)
      /\ ac.len1 \in Nat /\ ac.len2 \in Nat /\ ac.len1 <= begun.ac.len1 /\ ac.len2 <= begun.ac.len2
      /\ ac.flags = begun.ac.flags
  BY DEF StringAc, Shifted
<1>3. /\ Live(y.s1, mem) /\ y.s1.bp.ind = ac.bp1.ind /\ Spot(y.s1) = Position(ac.bp1) /\ y.s1.vp = FALSE
      /\ Live(y.s2, mem) /\ y.s2.bp.ind = ac.bp2.ind /\ Spot(y.s2) = Position(ac.bp2)
  BY <1>1, <1>2, CleanFact
<1>4. OnStrings(y) BY <1>1, <1>2, <1>3 DEF OnStrings, Live
<1> QED BY <1>1, <1>3, <1>4 DEF y

\* What is stored at once is what was there.
LEMMA FreshLeft ==
    ASSUME begun \in Starts, op \in Strings, StringAc(ac), NEW y, OnStrings(y),
           y.len1 = ac.len1, y.len2 = ac.len2
    PROVE  Shifted(ac, LeftAc(y), 0, 0)
<1> DEFINE a == LeftAc(y)
<1>1. /\ a.len1 = y.len1 /\ a.len2 = y.len2 /\ Proper(a.bp1) /\ Proper(a.bp2)
      /\ a.bp1.ind = begun.ac.bp1.ind /\ a.bp2.ind = begun.ac.bp2.ind
      /\ Position(a.bp1) = Spot(y.s1) /\ Position(a.bp2) = Spot(y.s2)
      /\ a.flags = begun.ac.flags /\ a.num = begun.ac.num /\ a.at = begun.ac.at
      /\ a.mark = begun.ac.mark
  BY LeftAcFact
<1> HIDE DEF a
<1>2. /\ Proper(ac.bp1) /\ Proper(ac.bp2) /\ ac.bp1.ind = begun.ac.bp1.ind /\ ac.bp2.ind = begun.ac.bp2.ind
      /\ Position(ac.bp1) = Position(begun.ac.bp1) + Used1(ac.len1)
      /\ Position(ac.bp2) = Position(begun.ac.bp2) + Used2(ac.len2)
      /\ ac.len1 \in Nat /\ ac.len2 \in Nat
      /\ ac.flags = begun.ac.flags /\ ac.num = begun.ac.num /\ ac.at = begun.ac.at /\ ac.mark = begun.ac.mark
  BY DEF StringAc, Shifted
<1>3. Spot(y.s1) = Position(ac.bp1) /\ Spot(y.s2) = Position(ac.bp2) BY <1>2 DEF OnStrings
<1>4. Position(ac.bp1) \in Int /\ Position(ac.bp2) \in Int BY <1>2, PositionFact DEF Proper
<1>5. Position(a.bp1) = Position(ac.bp1) + 0 /\ Position(a.bp2) = Position(ac.bp2) + 0
      /\ a.len1 = ac.len1 - 0 /\ a.len2 = ac.len2 - 0
  BY <1>1, <1>2, <1>3, <1>4
<1>6. Shifted(ac, a, 0, 0) BY <1>1, <1>2, <1>5 DEF Shifted
<1> QED BY <1>6 DEF a

\* CMPS begins, or traps with nothing done.
LEMMA CmpBegins ==
    ASSUME begun \in Starts, op = "CMPS", CmpAt(mem, ac, x, out), Begin
    PROVE  begun' = begun /\ CmpAt(mem', ac', x', out')
<1>1. PICK gone \in Missing : Try(gone) BY DEF Begin
<1>2. x = Idle /\ out = "" BY <1>1 DEF Try
<1>3. mem = begun.mem /\ StringAc(ac) /\ CompareEffect(begun, begun.mem, ac) = CmpGoal
  BY <1>2 DEF CmpAt
<1>4. op \notin Moves \cup ToText \cup ToNumber \cup Bytes \cup {"IBP", "ADJBP", "EDIT", "BLT", "XBLT"}
  BY DEF Moves, ToText, ToNumber, Bytes
<1>5. BeginCompare(gone)
  BY <1>1, <1>4 DEF Try, BeginMove, BeginPointer, BeginToText, BeginToNumber, BeginEdit, BeginBlock,
                    BeginByte
<1> DEFINE y == Fresh(ac.flags, 0)
<1>6. UNCHANGED vars \/ (ac' = ac /\ Goes(y)) BY <1>5 DEF BeginCompare, Fails
<1>7. op \in Strings BY DEF Strings
<1>8. CASE UNCHANGED vars BY <1>8 DEF vars
<1>9. CASE ac' = ac /\ Goes(y)
  <2>1. /\ OnStrings(y) /\ y.mem = mem /\ y.res = "RUN" /\ y.len1 = ac.len1 /\ y.len2 = ac.len2
        /\ Live(y.s1, begun.mem) /\ Live(y.s2, begun.mem) /\ y.fill2 = (ac.len1 > ac.len2)
    BY <1>3, <1>7, FreshFact
  <2> HIDE DEF y
  <2>2. begun.e0[IF y.fill2 THEN 2 ELSE 1] = FillOf(begun, y) BY <2>1 DEF FillOf
  <2>3. CompareEffect(begun, begun.mem, LeftAc(y)) = CmpGoal
    <3> DEFINE b == LeftAc(y)
    <3>1. Shifted(ac, b, 0, 0) BY <1>3, <1>7, <2>1, FreshLeft
    <3>2. ac.len1 \in Nat /\ ac.len2 \in Nat BY <1>3 DEF StringAc, Shifted
    <3> HIDE DEF b
    <3>3. Lesser(0, ac.len1) = 0 /\ Lesser(0, ac.len2) = 0 /\ 0 <= Longer(ac) BY <3>2 DEF Lesser, Longer
    <3>4. \A k \in 1..0 : Char1(begun, begun.mem, ac, k) = Char2(begun, begun.mem, ac, k) OBVIOUS
    <3>5. Shifted(ac, b, Lesser(0, ac.len1), Lesser(0, ac.len2)) BY <3>1, <3>3
    <3>6. CompareEffect(begun, begun.mem, b) = CompareEffect(begun, begun.mem, ac)
      BY <3>3, <3>4, <3>5, CompareShift
    <3> QED BY <1>3, <3>6 DEF b
  <2>4. Comparing(y) BY <1>3, <2>1, <2>2, <2>3 DEF Comparing
  <2>5. y # Idle
    <3>1. y.res # "idle" BY <2>1
    <3> QED BY <3>1 DEF Idle
  <2> QED BY <1>2, <1>3, <1>9, <2>1, <2>4, <2>5 DEF CmpAt, Goes
<1> QED BY <1>6, <1>8, <1>9

\* A turn.
LEMMA CmpTurns ==
    ASSUME begun \in Starts, op = "CMPS", CmpAt(mem, ac, x, out), Turn
    PROVE  begun' = begun /\ CmpAt(mem', ac', x', out')
<1>1. PICK gone \in Missing, brk \in BOOLEAN : TurnWith(gone, brk) BY DEF Turn
<1> DEFINE z == Step(x, gone, brk)
<1>2. x.res = "RUN" /\ x' = z /\ mem' = z.mem /\ begun' = begun /\ ac' = ac /\ out' = out
  BY <1>1 DEF TurnWith
<1>3. x # Idle BY <1>2 DEF Idle
<1>4. out = "" /\ Comparing(x) /\ StringAc(ac) BY <1>3 DEF CmpAt
<1>5. z = CompareStep(x, gone, brk)
  <2>1. x.op = "CMPS" BY <1>4 DEF Comparing, OnStrings
  <2> QED BY <2>1, StepFact
<1> HIDE DEF z
<1>6. Comparing(z) BY <1>2, <1>4, <1>5, CmpTurn
<1>7. z # Idle
  <2>1. z.res # "idle" BY <1>6 DEF Comparing
  <2> QED BY <2>1 DEF Idle
<1> QED BY <1>2, <1>4, <1>6, <1>7 DEF CmpAt

\* A try is over.
LEMMA CmpLeaves ==
    ASSUME begun \in Starts, op = "CMPS", CmpAt(mem, ac, x, out), Leave
    PROVE  begun' = begun /\ CmpAt(mem', ac', x', out')
<1>1. /\ x # Idle /\ x.res \notin {"idle", "RUN"} /\ ac' = Stored(x) /\ x' = Idle
      /\ begun' = begun /\ mem' = mem
      /\ Trapped(x) => out' = ""
      /\ ~Trapped(x) => out' = x.res
  BY LeaveFact
<1>2. out = "" /\ x.mem = mem /\ Comparing(x) /\ StringAc(ac) BY <1>1 DEF CmpAt
<1>3. OnStrings(x) /\ op \in Strings BY <1>2 DEF Comparing, Strings
<1>4. ac' = LeftAc(x) BY <1>1, <1>2, <1>3, StoredStrings
<1>5. StringAc(LeftAc(x)) BY <1>3, LeftAcFact
<1>6. CASE Trapped(x)
  <2>1. CompareEffect(begun, begun.mem, LeftAc(x)) = CmpGoal /\ mem = begun.mem
    BY <1>2, <1>6 DEF Comparing, Trapped
  <2> QED BY <1>1, <1>4, <1>5, <1>6, <2>1 DEF CmpAt
<1>7. CASE ~Trapped(x)
  <2>1. x.res \in {"EQ", "LT", "GT"} BY <1>1, <1>2, <1>7 DEF Comparing, Trapped
  <2>2. Seen(mem, LeftAc(x), x.res) = CmpGoal BY <1>2, <2>1 DEF Comparing
  <2> QED BY <1>1, <1>4, <1>7, <2>1, <2>2 DEF CmpAt
<1> QED BY <1>6, <1>7

\* However often it is stopped, CMPS compares what is left.
LEMMA CmpKeeps ==
    ASSUME begun \in Starts, op = "CMPS", CmpAt(mem, ac, x, out), Next
    PROVE  begun' = begun /\ CmpAt(mem', ac', x', out')
BY CmpBegins, CmpTurns, CmpLeaves DEF Next

\* As it is first met.
LEMMA CmpStarts ==
    ASSUME begun \in Starts, op = "CMPS"
    PROVE  CmpAt(begun.mem, begun.ac, Idle, "")
<1>1. StringAc(begun.ac) BY StringBegun DEF Strings
<1> QED BY <1>1 DEF CmpAt, CmpGoal

\* And it is resumable, and does all at once.
LEMMA CmpServed ==
    ASSUME begun \in Starts, op = "CMPS", CmpAt(mem, ac, x, out)
    PROVE  Resumable /\ AllAtOnce
<1>1. ASSUME NEW m, NEW a PROVE Effect(begun, m, a) = CompareEffect(begun, m, a)
  BY DEF Effect, op, ToText, ToNumber, Bytes
<1>2. Effect(begun, begun.mem, begun.ac) = CmpGoal BY <1>1 DEF CmpGoal
<1>3. x = Idle /\ out = "" => Effect(begun, mem, ac) = CmpGoal BY <1>1 DEF CmpAt
<1>4. out # "" => Seen(mem, ac, out) = CmpGoal BY DEF CmpAt
<1>5. ~Departs(begun) BY NoDeparture
<1> QED BY <1>2, <1>3, <1>4, <1>5 DEF Resumable, AllAtOnce

\* As BlockFrame.
LEMMA CmpFrame ==
    ASSUME begun' = begun, CmpAt(mem', ac', x', out')
    PROVE  CmpAt(mem, ac, x, out)'
BY DEF CmpAt, Comparing, OnStrings, StringAc, CmpGoal, LeftAc, Used1, Used2, op

-----------------------------------------------------------------------------
(* Text put in memory                                                      *)

\* Memory with the n bytes of t where a pointer says; Laid, for a function.
PutAt(m, bp, n, t) ==
    [a \in DOMAIN m |-> [i \in 1..BytesPerWord |->
        IF \E k \in 1..n : Place(bp, k) = <<a, i>>
        THEN t[CHOOSE k \in 1..n : Place(bp, k) = <<a, i>>]
        ELSE m[a][i]]]

Memories == [Addr -> [1..BytesPerWord -> Byte]]

\* What is to be seen when that is done, and so much of the first string is used.
Sent(m, a, t, n, used, how) ==
    [mem |-> PutAt(m, a.bp2, n, t), how |-> how, flags |-> a.flags, num |-> a.num, at |-> a.at,
     mark |-> Position(a.mark), len1 |-> a.len1 - used, at1 |-> Position(a.bp1) + used,
     len2 |-> a.len2 - n, at2 |-> Position(a.bp2) + n]

\* A text is given as far as one likes; the text without its first byte.
TailOf(t) == [k \in Nat \ {0} |-> t[k + 1]]

\* A function on 1..n is a sequence of n.
LEMMA FunctionSeq ==
    ASSUME NEW n \in Nat, NEW S, NEW f \in [1..n -> S]
    PROVE  f \in Seq(S) /\ Len(f) = n
<1>2. f \in Seq(S) BY SeqDef
<1>3. Len(f) \in Nat /\ DOMAIN f = 1..Len(f) BY <1>2, LenProperties
<1>4. DOMAIN f = 1..n OBVIOUS
<1>5. Len(f) = n
  <2> DEFINE l == Len(f)
  <2>1. l \in Nat /\ 1..l = 1..n BY <1>3, <1>4
  <2> HIDE DEF l
  <2>2. \A k \in Nat \ {0} : k <= l <=> k <= n
    <3>1. ASSUME NEW k \in Nat \ {0} PROVE k <= l <=> k <= n
      <4>1. k \in 1..l <=> k \in 1..n BY <2>1
      <4> QED BY <2>1, <4>1
    <3> QED BY <3>1
  <2>3. l <= n
    <3>1. CASE l = 0 BY <3>1
    <3>2. CASE l # 0 BY <2>1, <2>2, <3>2
    <3> QED BY <3>1, <3>2
  <2>4. n <= l
    <3>1. CASE n = 0 BY <2>1, <3>1
    <3>2. CASE n # 0 BY <2>2, <3>2
    <3> QED BY <3>1, <3>2
  <2> QED BY <2>1, <2>3, <2>4 DEF l
<1> QED BY <1>2, <1>5

\* Laid and PutAt agree.
LEMMA LaidIs ==
    ASSUME NEW m, NEW bp, NEW str, NEW n, Len(str) = n, NEW t, \A k \in 1..n : str[k] = t[k]
    PROVE  Laid(m, bp, str) = PutAt(m, bp, n, t)
<1>1. ASSUME NEW a \in DOMAIN m, NEW i \in 1..BytesPerWord
      PROVE  (IF \E k \in 1..Len(str) : Place(bp, k) = <<a, i>>
              THEN str[CHOOSE k \in 1..Len(str) : Place(bp, k) = <<a, i>>] ELSE m[a][i])
           = (IF \E k \in 1..n : Place(bp, k) = <<a, i>>
              THEN t[CHOOSE k \in 1..n : Place(bp, k) = <<a, i>>] ELSE m[a][i])
  <2> DEFINE P(k) == Place(bp, k) = <<a, i>>
             c == CHOOSE k \in 1..n : P(k)
  <2>1. CASE \E k \in 1..n : P(k)
    <3>1. c \in 1..n BY <2>1
    <3> HIDE DEF c
    <3>2. str[c] = t[c] BY <3>1
    <3> QED BY <2>1, <3>2 DEF c
  <2>2. CASE ~\E k \in 1..n : P(k) BY <2>2
  <2> QED BY <2>1, <2>2
<1> QED BY <1>1 DEF Laid, PutAt

\* Nothing put changes nothing.
LEMMA PutNone ==
    ASSUME NEW m \in Memories, NEW bp, NEW t
    PROVE  PutAt(m, bp, 0, t) = m
<1>1. DOMAIN m = Addr /\ \A a \in Addr : m[a] = [i \in 1..BytesPerWord |-> m[a][i]] BY DEF Memories
<1>2. m = [a \in Addr |-> m[a]] BY DEF Memories
<1>3. 1..0 = {} OBVIOUS
<1>4. PutAt(m, bp, 0, t) = [a \in Addr |-> [i \in 1..BytesPerWord |-> m[a][i]]]
  BY <1>1, <1>3 DEF PutAt
<1> QED BY <1>1, <1>2, <1>4

\* A byte more in memory.
LEMMA WithByteFact ==
    ASSUME NEW m \in Memories, NEW bp, Sane(bp), NEW k \in Int, NEW b \in Byte, Place(bp, k)[1] \in Addr
    PROVE  LET m1 == WithByte(m, Place(bp, k), b)
           IN /\ m1 \in Memories
              /\ \A a \in Addr : \A i \in 1..BytesPerWord :
                     m1[a][i] = IF Place(bp, k) = <<a, i>> THEN b ELSE m[a][i]
              /\ \A a \in Addr : a # Place(bp, k)[1] => m1[a] = m[a]
<1> DEFINE p == Place(bp, k)
           w == [m[p[1]] EXCEPT ![p[2]] = b]
           m1 == WithByte(m, p, b)
<1>1. p[2] \in 1..BytesPerWord /\ p = <<p[1], p[2]>> /\ p[1] \in Addr BY PlaceByte
<1> HIDE DEF p
<1>2. m1 = [m EXCEPT ![p[1]] = w] BY DEF WithByte
<1>3. /\ m[p[1]] \in [1..BytesPerWord -> Byte] BY <1>1 DEF Memories
<1>4. w \in [1..BytesPerWord -> Byte] /\ \A i \in 1..BytesPerWord : w[i] = IF i = p[2] THEN b ELSE m[p[1]][i]
  BY <1>1, <1>3
<1> HIDE DEF w, m1
<1>5. m1 \in Memories /\ \A a \in Addr : m1[a] = IF a = p[1] THEN w ELSE m[a]
  BY <1>1, <1>2, <1>4 DEF Memories
<1>6. ASSUME NEW a \in Addr, NEW i \in 1..BytesPerWord
      PROVE  m1[a][i] = IF p = <<a, i>> THEN b ELSE m[a][i]
  <2>1. p = <<a, i>> <=> p[1] = a /\ p[2] = i BY <1>1
  <2> QED BY <1>4, <1>5, <2>1
<1> QED BY <1>5, <1>6 DEF p, m1

\* Putting n bytes is putting one, and then the others.
LEMMA PutOn ==
    ASSUME NEW m \in Memories, NEW bp, NEW bq, Proper(bp), Proper(bq), bq.ind = bp.ind,
           Position(bq) = Position(bp) + 1, NEW n \in Nat \ {0}, NEW t, t[1] \in Byte,
           Place(bp, 1)[1] \in Addr,
           \A j, k \in 1..n : Place(bp, j) = Place(bp, k) => j = k
    PROVE  PutAt(m, bp, n, t) = PutAt(WithByte(m, Place(bp, 1), t[1]), bq, n - 1, TailOf(t))
<1> DEFINE m1 == WithByte(m, Place(bp, 1), t[1])
           u == TailOf(t)
           P(k, a, i) == Place(bp, k) = <<a, i>>
           Q(k, a, i) == Place(bq, k) = <<a, i>>
           old(a, i) == IF \E k \in 1..n : P(k, a, i) THEN t[CHOOSE k \in 1..n : P(k, a, i)] ELSE m[a][i]
           new(a, i) == IF \E k \in 1..(n - 1) : Q(k, a, i) THEN u[CHOOSE k \in 1..(n - 1) : Q(k, a, i)]
                        ELSE m1[a][i]
<1>1. /\ m1 \in Memories
      /\ \A a \in Addr : \A i \in 1..BytesPerWord : m1[a][i] = IF P(1, a, i) THEN t[1] ELSE m[a][i]
  BY WithByteFact DEF Proper
<1>2. \A k \in Int : Place(bq, k) = Place(bp, k + 1) BY PlaceShift
<1> HIDE DEF m1
<1>3. ASSUME NEW a \in Addr, NEW i \in 1..BytesPerWord PROVE old(a, i) = new(a, i)
  <2>1. CASE \E k \in 1..(n - 1) : Q(k, a, i)
    <3> DEFINE c == CHOOSE k \in 1..(n - 1) : Q(k, a, i)
               d == CHOOSE k \in 1..n : P(k, a, i)
    <3>1. c \in 1..(n - 1) /\ Q(c, a, i) BY <2>1
    <3> HIDE DEF c
    <3>2. c + 1 \in 1..n /\ P(c + 1, a, i) BY <1>2, <3>1
    <3>3. d \in 1..n /\ P(d, a, i) BY <3>2
    <3> HIDE DEF d
    <3>4. d = c + 1 BY <3>2, <3>3
    <3>5. u[c] = t[c + 1] BY <3>1 DEF TailOf
    <3>6. old(a, i) = t[d]
      <4>1. \E k \in 1..n : P(k, a, i) BY <3>3
      <4> QED BY <4>1 DEF d
    <3>7. new(a, i) = u[c] BY <2>1 DEF c
    <3> QED BY <3>4, <3>5, <3>6, <3>7
  <2>2. CASE ~\E k \in 1..(n - 1) : Q(k, a, i)
    <3>1. new(a, i) = m1[a][i] BY <2>2
    <3>2. CASE P(1, a, i)
      <4> DEFINE d == CHOOSE k \in 1..n : P(k, a, i)
      <4>1. 1 \in 1..n OBVIOUS
      <4>2. d \in 1..n /\ P(d, a, i) BY <3>2, <4>1
      <4>3. old(a, i) = t[d] BY <3>2, <4>1
      <4> HIDE DEF d
      <4>4. d = 1 BY <3>2, <4>1, <4>2
      <4> QED BY <1>1, <3>1, <3>2, <4>3, <4>4
    <3>3. CASE ~P(1, a, i)
      <4>1. ASSUME NEW k \in 1..n PROVE ~P(k, a, i)
        <5>1. CASE k = 1 BY <3>3, <5>1
        <5>2. CASE k # 1
          <6>1. k - 1 \in 1..(n - 1) /\ (k - 1) + 1 = k BY <5>2
          <6>2. Place(bq, k - 1) = Place(bp, k) BY <1>2, <6>1
          <6> QED BY <2>2, <6>1, <6>2
        <5> QED BY <5>1, <5>2
      <4> QED BY <1>1, <3>1, <3>3, <4>1
    <3> QED BY <3>2, <3>3
  <2> QED BY <2>1, <2>2
<1>4. DOMAIN m = Addr /\ DOMAIN m1 = Addr BY <1>1 DEF Memories
<1>5. PutAt(m, bp, n, t) = [a \in Addr |-> [i \in 1..BytesPerWord |-> old(a, i)]] BY <1>4 DEF PutAt
<1>6. PutAt(m1, bq, n - 1, u) = [a \in Addr |-> [i \in 1..BytesPerWord |-> new(a, i)]]
  BY <1>4 DEF PutAt
<1> HIDE DEF old, new
<1>7. ASSUME NEW a \in Addr
      PROVE  [i \in 1..BytesPerWord |-> old(a, i)] = [i \in 1..BytesPerWord |-> new(a, i)]
  BY <1>3
<1>8. [a \in Addr |-> [i \in 1..BytesPerWord |-> old(a, i)]]
      = [a \in Addr |-> [i \in 1..BytesPerWord |-> new(a, i)]]
  BY <1>7
<1>9. PutAt(m, bp, n, t) = PutAt(m1, bq, n - 1, u) BY <1>5, <1>6, <1>8
<1> QED BY <1>9 DEF m1, u

\* One byte of the text put, the others are still to be put.
LEMMA SentOn ==
    ASSUME NEW m \in Memories, NEW a, NEW b, NEW d1 \in Int, Shifted(a, b, d1, 1),
           NEW n \in 1..a.len2, NEW used \in Int, NEW how, NEW t, t[1] \in Byte,
           Place(a.bp2, 1)[1] \in Addr,
           \A j, k \in 1..a.len2 : Place(a.bp2, j) = Place(a.bp2, k) => j = k
    PROVE  Sent(WithByte(m, Place(a.bp2, 1), t[1]), b, TailOf(t), n - 1, used - d1, how)
         = Sent(m, a, t, n, used, how)
<1> DEFINE m1 == WithByte(m, Place(a.bp2, 1), t[1])
<1>1. /\ Proper(a.bp2) /\ Proper(b.bp2) /\ b.bp2.ind = a.bp2.ind /\ Position(b.bp2) = Position(a.bp2) + 1
      /\ a.len1 \in Nat /\ a.len2 \in Nat /\ b.len1 = a.len1 - d1 /\ b.len2 = a.len2 - 1
      /\ Position(b.bp1) = Position(a.bp1) + d1
      /\ b.flags = a.flags /\ b.num = a.num /\ b.at = a.at /\ b.mark = a.mark
  BY DEF Shifted
<1>2. Position(a.bp1) \in Int /\ Position(a.bp2) \in Int BY PositionFact DEF Shifted, Proper
<1>3. n \in Nat \ {0} /\ \A j, k \in 1..n : Place(a.bp2, j) = Place(a.bp2, k) => j = k BY <1>1
<1>4. PutAt(m, a.bp2, n, t) = PutAt(m1, b.bp2, n - 1, TailOf(t)) BY <1>1, <1>3, PutOn
<1>5. /\ b.len1 - (used - d1) = a.len1 - used /\ Position(b.bp1) + (used - d1) = Position(a.bp1) + used
      /\ b.len2 - (n - 1) = a.len2 - n /\ Position(b.bp2) + (n - 1) = Position(a.bp2) + n
  BY <1>1, <1>2, <1>3
<1> HIDE DEF m1
<1>6. Sent(m1, b, TailOf(t), n - 1, used - d1, how) = Sent(m, a, t, n, used, how)
  BY <1>1, <1>4, <1>5 DEF Sent
<1> QED BY <1>6 DEF m1

\* What a move comes to: the text is put, or as much of it as goes before the first bad byte.
Outcome(m, a, t, B, used, how) ==
    IF B = {} THEN Sent(m, a, t, a.len2, used, how)
    ELSE Sent(m, a, t, LeastOf(B) - 1, LeastOf(B) - 1, "TRUNC")
Down(B) == {k \in Nat \ {0} : k + 1 \in B}

\* The least number goes down too.
LEMMA LeastDown ==
    ASSUME NEW B \in SUBSET Nat, B # {}, \A k \in B : k >= 2
    PROVE  Down(B) # {} /\ Down(B) \in SUBSET Nat /\ LeastOf(Down(B)) = LeastOf(B) - 1
           /\ LeastOf(B) \in B
<1> DEFINE D == Down(B)
           l == LeastOf(B)
           e == LeastOf(D)
<1>1. l \in B /\ \A j \in B : l <= j BY LeastFact
<1> HIDE DEF l
<1>2. l \in Nat /\ l >= 2 BY <1>1
<1>3. l - 1 \in D
  <2>1. l - 1 \in Nat \ {0} /\ (l - 1) + 1 = l BY <1>2
  <2> QED BY <1>1, <2>1 DEF Down
<1>4. D \in SUBSET Nat /\ D # {} BY <1>3 DEF Down
<1>5. \A k \in D : k \in Nat /\ k + 1 \in B BY DEF Down
<1> HIDE DEF D
<1>6. e \in D /\ \A j \in D : e <= j BY <1>4, LeastFact
<1> HIDE DEF e
<1>7. e <= l - 1 BY <1>3, <1>6
<1>8. l <= e + 1 /\ e \in Nat BY <1>1, <1>5, <1>6
<1>9. e = l - 1 BY <1>2, <1>7, <1>8
<1> QED BY <1>1, <1>4, <1>9 DEF D, e, l

\* One byte put, the outcome is the same.
LEMMA OutcomeOn ==
    ASSUME NEW m \in Memories, NEW a, NEW b, NEW d1 \in Int, Shifted(a, b, d1, 1), a.len2 >= 1,
           NEW used \in Int, NEW how, NEW t, t[1] \in Byte, NEW B \in SUBSET Nat,
           \A k \in B : 2 <= k /\ k <= a.len2,
           B # {} => d1 = 1,
           Place(a.bp2, 1)[1] \in Addr,
           \A j, k \in 1..a.len2 : Place(a.bp2, j) = Place(a.bp2, k) => j = k,
           NEW m1, m1 = WithByte(m, Place(a.bp2, 1), t[1]), NEW u, u = TailOf(t),
           NEW C, C = Down(B), NEW left, left = used - d1
    PROVE  Outcome(m1, b, u, C, left, how) = Outcome(m, a, t, B, used, how)
<1>1. a.len2 \in Nat /\ b.len2 = a.len2 - 1 BY DEF Shifted
<1>2. ASSUME NEW n \in 1..a.len2, NEW g \in Int, NEW h
      PROVE  Sent(m1, b, u, n - 1, g - d1, h) = Sent(m, a, t, n, g, h)
  BY <1>2, SentOn
<1>3. CASE B = {}
  <2>1. Down(B) = {} BY <1>3 DEF Down
  <2>2. a.len2 \in 1..a.len2 BY <1>1
  <2>3. Sent(m1, b, u, a.len2 - 1, used - d1, how) = Sent(m, a, t, a.len2, used, how) BY <1>2, <2>2
  <2>4. Outcome(m1, b, u, C, left, how) = Outcome(m, a, t, B, used, how)
    BY <1>1, <1>3, <2>1, <2>3 DEF Outcome
  <2> QED BY <2>4
<1>4. CASE B # {}
  <2> DEFINE l == LeastOf(B)
             e == LeastOf(Down(B))
  <2>1. \A k \in B : k >= 2 OBVIOUS
  <2>2. Down(B) # {} /\ e = l - 1 /\ l \in B BY <1>4, <2>1, LeastDown
  <2> HIDE DEF l, e
  <2>3. l \in 2..a.len2 BY <2>2
  <2>4. l - 1 \in 1..a.len2 /\ l - 1 \in Int /\ d1 = 1 BY <1>1, <1>4, <2>3
  <2>5. Sent(m1, b, u, (l - 1) - 1, (l - 1) - d1, "TRUNC") = Sent(m, a, t, l - 1, l - 1, "TRUNC")
    BY <1>2, <2>4
  <2>6. Sent(m1, b, u, e - 1, e - 1, "TRUNC") = Sent(m, a, t, l - 1, l - 1, "TRUNC")
    BY <2>2, <2>4, <2>5
  <2>7. Outcome(m1, b, u, C, left, how) = Outcome(m, a, t, B, used, how)
    BY <1>4, <2>2, <2>6 DEF Outcome, l, e
  <2> QED BY <2>7
<1> QED BY <1>3, <1>4

\* More of the first string used, the outcome is the same.
LEMMA OutcomeSame ==
    ASSUME NEW m, NEW a, NEW b, NEW d1 \in Int, Shifted(a, b, d1, 0),
           NEW used \in Int, NEW how, NEW t, NEW B \in SUBSET Nat, B # {} => d1 = 0
    PROVE  Outcome(m, b, t, B, used - d1, how) = Outcome(m, a, t, B, used, how)
<1>1. /\ Proper(a.bp2) /\ Proper(b.bp2) /\ b.bp2.ind = a.bp2.ind /\ Position(b.bp2) = Position(a.bp2) + 0
      /\ a.len1 \in Nat /\ a.len2 \in Nat /\ b.len1 = a.len1 - d1 /\ b.len2 = a.len2 - 0
      /\ Position(b.bp1) = Position(a.bp1) + d1
      /\ b.flags = a.flags /\ b.num = a.num /\ b.at = a.at /\ b.mark = a.mark
  BY DEF Shifted
<1>2. Position(a.bp1) \in Int /\ Position(a.bp2) \in Int BY PositionFact DEF Shifted, Proper
<1>3. ASSUME NEW k \in Int PROVE Place(b.bp2, k) = Place(a.bp2, k)
  <2>1. Place(b.bp2, k) = Place(a.bp2, k + 0) BY <1>1, PlaceShift
  <2> QED BY <2>1
<1>4. ASSUME NEW n \in Int PROVE PutAt(m, b.bp2, n, t) = PutAt(m, a.bp2, n, t)
  <2>1. \A k \in 1..n : Place(b.bp2, k) = Place(a.bp2, k) BY <1>3
  <2>2. ASSUME NEW p
        PROVE  /\ (\E k \in 1..n : Place(b.bp2, k) = p) <=> (\E k \in 1..n : Place(a.bp2, k) = p)
               /\ (CHOOSE k \in 1..n : Place(b.bp2, k) = p) = (CHOOSE k \in 1..n : Place(a.bp2, k) = p)
    BY <2>1
  <2> QED BY <2>2 DEF PutAt
<1>5. ASSUME NEW n \in Int, NEW g \in Int, NEW h PROVE Sent(m, b, t, n, g - d1, h) = Sent(m, a, t, n, g, h)
  <2>1. /\ b.len1 - (g - d1) = a.len1 - g /\ Position(b.bp1) + (g - d1) = Position(a.bp1) + g
        /\ b.len2 - n = a.len2 - n /\ Position(b.bp2) + n = Position(a.bp2) + n
    BY <1>1, <1>2
  <2> QED BY <1>1, <1>4, <2>1 DEF Sent
<1>6. CASE B = {}
  <2>1. b.len2 = a.len2 /\ a.len2 \in Int BY <1>1
  <2> QED BY <1>5, <1>6, <2>1 DEF Outcome
<1>7. CASE B # {}
  <2>1. LeastOf(B) \in Nat BY <1>7, LeastFact
  <2> DEFINE l == LeastOf(B)
  <2>2. l - 1 \in Int /\ (l - 1) - d1 = l - 1 BY <1>7, <2>1
  <2> HIDE DEF l
  <2>3. Sent(m, b, t, l - 1, l - 1, "TRUNC") = Sent(m, a, t, l - 1, l - 1, "TRUNC") BY <1>5, <2>2
  <2> QED BY <1>7, <2>3 DEF Outcome, l
<1> QED BY <1>6, <1>7

-----------------------------------------------------------------------------
(* What the moves ask for                                                  *)

SourceAt(m, bp, k) == m[Place(bp, k)[1]][Place(bp, k)[2]]
Off == IF op = "MOVSO" THEN Offset ELSE 0

\* The text: from the left edge of the first string, or so that it ends at the right edge
\* of the second.
LeftFrom(fill, off, m, a) ==
    [k \in Nat \ {0} |-> IF k <= a.len1 THEN SourceAt(m, a.bp1, k) + off ELSE fill]
LeftText(m, a) == LeftFrom(begun.e0[1], Off, m, a)
RightFrom(fill, m, a) ==
    [k \in Nat \ {0} |-> IF k <= a.len2 - a.len1 \/ k > a.len2 THEN fill
                         ELSE SourceAt(m, a.bp1, k + (a.len1 - a.len2))]
RightText(m, a) == RightFrom(begun.e0[1], m, a)

\* The bytes that do not fit.
BadIn(t, n) == {k \in 1..n : t[k] \notin Byte}
BadOf(m, a) == BadIn(LeftText(m, a), Lesser(a.len1, a.len2))
HowLeft(a) == IF a.len1 > a.len2 THEN "TRUNC" ELSE "WON"

Asked(m, a) ==
    IF op = "MOVSRJ" THEN Outcome(m, a, RightText(m, a), {}, a.len1, "WON")
    ELSE Outcome(m, a, LeftText(m, a), BadOf(m, a), Lesser(a.len1, a.len2), HowLeft(a))

\* Moved and Sent agree.
LEMMA MovedIs ==
    ASSUME NEW m, NEW a, NEW used, NEW str, NEW n, Len(str) = n, NEW how, NEW t,
           \A k \in 1..n : str[k] = t[k]
    PROVE  Moved(m, a, used, str, how, a.flags) = Sent(m, a, t, n, used, how)
<1>1. Laid(m, a.bp2, str) = PutAt(m, a.bp2, n, t) BY LaidIs
<1> DEFINE c == PutAt(m, a.bp2, n, t)
           r == Seen(c, a, how)
<1>2. Moved(m, a, used, str, how, a.flags) =
        [r EXCEPT !.flags = a.flags, !.len1 = @ - used, !.at1 = @ + used, !.len2 = @ - n, !.at2 = @ + n]
  BY <1>1 DEF Moved
<1>3. r = [mem |-> c, how |-> how, flags |-> a.flags, num |-> a.num, at |-> a.at,
           mark |-> Position(a.mark), len1 |-> a.len1, at1 |-> Position(a.bp1), len2 |-> a.len2,
           at2 |-> Position(a.bp2)]
  BY DEF Seen
<1> HIDE DEF c, r
<1>4. Moved(m, a, used, str, how, a.flags) =
        [r EXCEPT !.flags = a.flags, !.len1 = a.len1 - used, !.at1 = Position(a.bp1) + used,
                  !.len2 = a.len2 - n, !.at2 = Position(a.bp2) + n]
  BY <1>2, <1>3
<1> DEFINE l1 == a.len1 - used
           q1 == Position(a.bp1) + used
           l2 == a.len2 - n
           q2 == Position(a.bp2) + n
           r1 == [r EXCEPT !.flags = a.flags]
<1>5. r1 = r BY <1>3
<1>6. Moved(m, a, used, str, how, a.flags) =
        [r1 EXCEPT !.len1 = l1, !.at1 = q1, !.len2 = l2, !.at2 = q2]
  BY <1>4
<1>7. Moved(m, a, used, str, how, a.flags) =
        [r EXCEPT !.len1 = l1, !.at1 = q1, !.len2 = l2, !.at2 = q2]
  BY <1>5, <1>6
<1>8. Moved(m, a, used, str, how, a.flags) =
        [mem |-> c, how |-> how, flags |-> a.flags, num |-> a.num, at |-> a.at,
         mark |-> Position(a.mark), len1 |-> a.len1 - used, at1 |-> Position(a.bp1) + used,
         len2 |-> a.len2 - n, at2 |-> Position(a.bp2) + n]
  <2> HIDE DEF l1, q1, l2, q2
  <2>1. Moved(m, a, used, str, how, a.flags) =
        [mem |-> c, how |-> how, flags |-> a.flags, num |-> a.num, at |-> a.at,
         mark |-> Position(a.mark), len1 |-> l1, at1 |-> q1, len2 |-> l2, at2 |-> q2]
    BY <1>3, <1>7, ZenonT(60)
  <2> QED BY <2>1 DEF l1, q1, l2, q2
<1> QED BY <1>8 DEF Sent, c

\* One text after another.
LEMMA AfterFact ==
    ASSUME NEW n1 \in Nat, NEW n2 \in Nat, NEW f, f = [k \in 1..n1 |-> f[k]],
           NEW g, g = [k \in 1..n2 |-> g[k]], NEW t,
           \A k \in 1..n1 : f[k] = t[k], \A k \in 1..n2 : g[k] = t[n1 + k]
    PROVE  Len(f \o g) = n1 + n2 /\ \A k \in 1..(n1 + n2) : (f \o g)[k] = t[k]
<1> DEFINE S == {f[k] : k \in 1..n1} \cup {g[k] : k \in 1..n2}
<1>1. (\A k \in 1..n1 : f[k] \in S) /\ (\A k \in 1..n2 : g[k] \in S) OBVIOUS
<1> HIDE DEF S
<1>2. f \in [1..n1 -> S] /\ g \in [1..n2 -> S] BY <1>1
<1>3. f \in Seq(S) /\ Len(f) = n1 /\ g \in Seq(S) /\ Len(g) = n2 BY <1>2, FunctionSeq
<1>4. /\ Len(f \o g) = Len(f) + Len(g)
      /\ \A i \in 1..Len(f) + Len(g) : (f \o g)[i] = IF i <= Len(f) THEN f[i] ELSE g[i - Len(f)]
  BY <1>3, ConcatProperties
<1>5. ASSUME NEW k \in 1..(n1 + n2) PROVE (f \o g)[k] = t[k]
  <2>1. (f \o g)[k] = IF k <= n1 THEN f[k] ELSE g[k - n1] BY <1>3, <1>4
  <2>2. CASE k <= n1 BY <2>1, <2>2
  <2>3. CASE ~(k <= n1)
    <3>1. k - n1 \in 1..n2 /\ n1 + (k - n1) = k BY <2>3
    <3>2. g[k - n1] = t[n1 + (k - n1)] BY <3>1
    <3> QED BY <2>1, <2>3, <3>1, <3>2
  <2> QED BY <2>2, <2>3
<1> QED BY <1>3, <1>4, <1>5

\* A part of a text.
LEMMA PartFact ==
    ASSUME NEW f, NEW k1 \in Nat \ {0}, NEW k2 \in Nat, k1 <= k2 + 1
    PROVE  LET q == SubSeq(f, k1, k2)
           IN /\ q = [k \in 1..(k2 - k1 + 1) |-> q[k]] /\ Len(q) = k2 - k1 + 1
              /\ \A k \in 1..(k2 - k1 + 1) : q[k] = f[k1 + k - 1]
<1> DEFINE S == {f[i] : i \in k1..k2}
           q == SubSeq(f, k1, k2)
<1>1. \A i \in k1..k2 : f[i] \in S OBVIOUS
<1> HIDE DEF S
<1>2. /\ q \in Seq(S) /\ Len(q) = IF k1 <= k2 THEN k2 - k1 + 1 ELSE 0
      /\ \A i \in 1..k2 - k1 + 1 : q[i] = f[k1 + i - 1]
  BY <1>1, SubSeqProperties
<1> HIDE DEF q
<1>3. q \in [1..Len(q) -> S] BY <1>2, LenProperties
<1>4. Len(q) = k2 - k1 + 1 BY <1>2
<1>5. q = [k \in 1..(k2 - k1 + 1) |-> q[k]] BY <1>3, <1>4
<1> QED BY <1>2, <1>4, <1>5 DEF q

\* MoveEffect in these terms.
LEMMA LeftIs ==
    ASSUME op \in {"MOVSLJ", "MOVSO"}, NEW m, NEW a, a.len1 \in Nat, a.len2 \in Nat
    PROVE  MoveEffect(begun, m, a, Off) = Asked(m, a)
<1> DEFINE n == Lesser(a.len1, a.len2)
           text == [k \in 1..n |-> Text(m, a.bp1, n)[k] + Off]
           bad == {k \in 1..n : text[k] \notin Byte}
           stop == CHOOSE k \in bad : \A j \in bad : k <= j
           fill == Filling(begun, a.len2 - n)
           how == HowLeft(a)
           t == LeftText(m, a)
           B == BadOf(m, a)
<1>1. n \in Nat /\ n <= a.len1 /\ n <= a.len2 BY DEF Lesser
<1>2. MoveEffect(begun, m, a, Off) =
        IF bad # {} THEN Moved(m, a, stop - 1, SubSeq(text, 1, stop - 1), "TRUNC", a.flags)
        ELSE Moved(m, a, n, text \o fill, how, a.flags)
  BY DEF MoveEffect, HowLeft
<1>3. \A k \in 1..n : text[k] = t[k]
  <2>1. ASSUME NEW k \in 1..n PROVE text[k] = t[k]
    <3>1. k <= a.len1 /\ k \in Nat \ {0} BY <1>1
    <3>2. t[k] = SourceAt(m, a.bp1, k) + Off BY <3>1 DEF LeftText, LeftFrom
    <3>3. text[k] = SourceAt(m, a.bp1, k) + Off BY DEF Text, SourceAt
    <3> QED BY <3>2, <3>3
  <2> QED BY <2>1
<1>4. text = [k \in 1..n |-> text[k]] OBVIOUS
<1>5. fill = [k \in 1..(a.len2 - n) |-> fill[k]] /\ \A k \in 1..(a.len2 - n) : fill[k] = begun.e0[1]
  BY DEF Filling
<1>6. \A k \in 1..(a.len2 - n) : t[n + k] = begun.e0[1]
  <2>1. ASSUME NEW k \in 1..(a.len2 - n) PROVE t[n + k] = begun.e0[1]
    <3>1. n + k \in Nat \ {0} /\ ~(n + k <= a.len1) BY <1>1 DEF Lesser
    <3> QED BY <3>1 DEF LeftText, LeftFrom
  <2> QED BY <2>1
<1>7. Asked(m, a) = Outcome(m, a, t, B, n, how) BY DEF Asked
<1>8. B \in SUBSET Nat /\ \A k \in B : k \in 1..n BY <1>1 DEF BadOf, BadIn
<1>9. B = {k \in 1..n : t[k] \notin Byte} BY DEF BadOf, BadIn
<1> HIDE DEF n, text, fill, t, how, B
<1>10. bad = B BY <1>3, <1>9
<1>11. CASE B = {}
  <2> DEFINE r == a.len2 - n
  <2>1. r \in Nat /\ n + r = a.len2 BY <1>1
  <2>2. fill = [k \in 1..r |-> fill[k]] /\ \A k \in 1..r : fill[k] = t[n + k] BY <1>5, <1>6
  <2> HIDE DEF r
  <2>3. Len(text \o fill) = n + r /\ \A k \in 1..(n + r) : (text \o fill)[k] = t[k]
    BY <1>1, <1>3, <1>4, <2>1, <2>2, AfterFact
  <2>4. Len(text \o fill) = a.len2 /\ \A k \in 1..a.len2 : (text \o fill)[k] = t[k] BY <2>1, <2>3
  <2>5. Moved(m, a, n, text \o fill, how, a.flags) = Sent(m, a, t, a.len2, n, how)
    <3> DEFINE str == text \o fill
    <3>1. Len(str) = a.len2 /\ \A k \in 1..a.len2 : str[k] = t[k] BY <2>4
    <3> HIDE DEF str
    <3>2. Moved(m, a, n, str, how, a.flags) = Sent(m, a, t, a.len2, n, how) BY <3>1, MovedIs
    <3> QED BY <3>2 DEF str
  <2> QED BY <1>2, <1>7, <1>10, <1>11, <2>5 DEF Outcome
<1>12. CASE B # {}
  <2>1. stop = LeastOf(B) BY <1>10 DEF LeastOf
  <2>2. LeastOf(B) \in B BY <1>8, <1>12, LeastFact
  <2> HIDE DEF stop
  <2>3. stop \in 1..n BY <1>8, <2>1, <2>2
  <2> DEFINE q == SubSeq(text, 1, stop - 1)
  <2>4. 1 \in Nat \ {0} /\ stop - 1 \in Nat /\ 1 <= (stop - 1) + 1 /\ (stop - 1) - 1 + 1 = stop - 1
    BY <1>1, <2>3
  <2>5. Len(q) = stop - 1 /\ \A k \in 1..(stop - 1) : q[k] = text[1 + k - 1]
    BY <2>4, PartFact
  <2> HIDE DEF q
  <2>6. \A k \in 1..(stop - 1) : q[k] = t[k]
    <3>1. ASSUME NEW k \in 1..(stop - 1) PROVE q[k] = t[k]
      <4>1. 1 + k - 1 = k /\ k \in 1..n BY <1>1, <2>3
      <4> QED BY <1>3, <2>5, <4>1
    <3> QED BY <3>1
  <2>7. Moved(m, a, stop - 1, q, "TRUNC", a.flags) = Sent(m, a, t, stop - 1, stop - 1, "TRUNC")
    BY <2>5, <2>6, MovedIs
  <2> QED BY <1>2, <1>7, <1>10, <1>12, <2>1, <2>7 DEF Outcome, q
<1> QED BY <1>11, <1>12

\* RightEffect in these terms.
LEMMA RightIs ==
    ASSUME op = "MOVSRJ", NEW m, NEW a, a.len1 \in Nat, a.len2 \in Nat
    PROVE  RightEffect(begun, m, a) = Asked(m, a)
<1> DEFINE n == Lesser(a.len1, a.len2)
           all == Text(m, a.bp1, a.len1)
           text == SubSeq(all, a.len1 - n + 1, a.len1)
           fill == Filling(begun, a.len2 - n)
           t == RightText(m, a)
<1>1. n \in Nat /\ n <= a.len1 /\ n <= a.len2 /\ (n = a.len1 \/ n = a.len2)
      /\ (a.len1 <= a.len2 => n = a.len1) /\ (~(a.len1 <= a.len2) => n = a.len2)
  BY DEF Lesser
<1>2. RightEffect(begun, m, a) = Moved(m, a, a.len1, fill \o text, "WON", a.flags)
  BY DEF RightEffect
<1>3. fill = [k \in 1..(a.len2 - n) |-> fill[k]] /\ \A k \in 1..(a.len2 - n) : fill[k] = begun.e0[1]
  BY DEF Filling
<1>4. \A k \in 1..a.len1 : all[k] = SourceAt(m, a.bp1, k) BY DEF Text, SourceAt
<1>5. ASSUME NEW k \in 1..(a.len2 - n) PROVE t[k] = begun.e0[1]
  <2>1. k \in Nat \ {0} /\ k <= a.len2 - a.len1 BY <1>1
  <2> QED BY <2>1 DEF RightText, RightFrom
<1>6. ASSUME NEW k \in 1..n PROVE t[(a.len2 - n) + k] = SourceAt(m, a.bp1, (a.len1 - n) + k)
  <2> DEFINE j == (a.len2 - n) + k
  <2>1. j \in Nat \ {0} /\ ~(j <= a.len2 - a.len1) /\ ~(j > a.len2) BY <1>1
  <2>2. j + (a.len1 - a.len2) = (a.len1 - n) + k BY <1>1
  <2> HIDE DEF j
  <2>3. t[j] = SourceAt(m, a.bp1, j + (a.len1 - a.len2)) BY <2>1 DEF RightText, RightFrom
  <2> QED BY <2>2, <2>3 DEF j
<1>7. Asked(m, a) = Sent(m, a, t, a.len2, a.len1, "WON") BY DEF Asked, Outcome
<1> HIDE DEF n, all, fill, t
<1> DEFINE k1 == a.len1 - n + 1
           last == a.len1
<1>8. k1 \in Nat \ {0} /\ last \in Nat /\ k1 <= last + 1 /\ last - k1 + 1 = n
  <2> HIDE DEF text
  <2> QED BY <1>1
<1>9. text = SubSeq(all, k1, last) OBVIOUS
<1> HIDE DEF text, k1, last
<1>10. /\ text = [k \in 1..(last - k1 + 1) |-> text[k]]
      /\ \A k \in 1..(last - k1 + 1) : text[k] = all[k1 + k - 1]
  BY <1>8, <1>9, PartFact
<1>11. text = [k \in 1..n |-> text[k]] /\ \A k \in 1..n : text[k] = all[(a.len1 - n + 1) + k - 1]
  BY <1>8, <1>10 DEF k1
<1>12. \A k \in 1..n : text[k] = t[(a.len2 - n) + k]
  <2>1. ASSUME NEW k \in 1..n PROVE text[k] = t[(a.len2 - n) + k]
    <3>1. (a.len1 - n + 1) + k - 1 = (a.len1 - n) + k /\ (a.len1 - n) + k \in 1..a.len1 BY <1>1
    <3>2. text[k] = SourceAt(m, a.bp1, (a.len1 - n) + k) BY <1>4, <1>11, <3>1
    <3> QED BY <1>6, <3>2
  <2> QED BY <2>1
<1> DEFINE r == a.len2 - n
<1>13. r \in Nat /\ r + n = a.len2 BY <1>1
<1>14. fill = [k \in 1..r |-> fill[k]] /\ \A k \in 1..r : fill[k] = t[k] BY <1>3, <1>5
<1>15. \A k \in 1..n : text[k] = t[r + k] BY <1>12
<1> HIDE DEF r
<1>16. Len(fill \o text) = r + n /\ \A k \in 1..(r + n) : (fill \o text)[k] = t[k]
  BY <1>1, <1>11, <1>13, <1>14, <1>15, AfterFact, SMTT(30)
<1>17. Len(fill \o text) = a.len2 /\ \A k \in 1..a.len2 : (fill \o text)[k] = t[k] BY <1>13, <1>16
<1>18. Moved(m, a, a.len1, fill \o text, "WON", a.flags) = Sent(m, a, t, a.len2, a.len1, "WON")
  <2> DEFINE str == fill \o text
  <2>1. Len(str) = a.len2 /\ \A k \in 1..a.len2 : str[k] = t[k] BY <1>17
  <2> HIDE DEF str
  <2>2. Moved(m, a, a.len1, str, "WON", a.flags) = Sent(m, a, t, a.len2, a.len1, "WON")
    BY <2>1, MovedIs
  <2> QED BY <2>2 DEF str
<1> QED BY <1>2, <1>7, <1>18

Sends == {"MOVSLJ", "MOVSO", "MOVSRJ"}

\* What is asked for is what the instruction does.
LEMMA AskedIs ==
    ASSUME op \in Sends, NEW m, NEW a, a.len1 \in Nat, a.len2 \in Nat
    PROVE  Effect(begun, m, a) = Asked(m, a)
<1>1. CASE op = "MOVSRJ"
  <2>1. Effect(begun, m, a) = RightEffect(begun, m, a)
    BY <1>1 DEF Effect, op, ToText, ToNumber, Bytes
  <2> QED BY <1>1, <2>1, RightIs
<1>2. CASE op = "MOVSLJ"
  <2>1. Effect(begun, m, a) = MoveEffect(begun, m, a, Off)
    BY <1>2 DEF Effect, op, Off, ToText, ToNumber, Bytes
  <2> QED BY <1>2, <2>1, LeftIs
<1>3. CASE op = "MOVSO"
  <2>1. Effect(begun, m, a) = MoveEffect(begun, m, a, Off)
    BY <1>3 DEF Effect, op, Off, ToText, ToNumber, Bytes
  <2> QED BY <1>3, <2>1, LeftIs
<1> QED BY <1>1, <1>2, <1>3 DEF Sends

\* When nothing is left to put nothing is asked for.
LEMMA AskedNone ==
    ASSUME op \in Sends, NEW m \in Memories, NEW a, a.len1 \in Nat, a.len2 = 0, op = "MOVSRJ" => a.len1 = 0,
           Position(a.bp1) \in Int, Position(a.bp2) \in Int
    PROVE  Asked(m, a) = Seen(m, a, IF op = "MOVSRJ" THEN "WON" ELSE HowLeft(a))
<1>1. ASSUME NEW t, NEW how PROVE Sent(m, a, t, 0, 0, how) = Seen(m, a, how)
  <2>1. PutAt(m, a.bp2, 0, t) = m BY PutNone
  <2>2. a.len1 - 0 = a.len1 /\ a.len2 - 0 = a.len2 /\ Position(a.bp1) + 0 = Position(a.bp1)
        /\ Position(a.bp2) + 0 = Position(a.bp2)
    OBVIOUS
  <2> QED BY <2>1, <2>2 DEF Sent, Seen
<1>2. CASE op = "MOVSRJ"
  <2>1. Asked(m, a) = Sent(m, a, RightText(m, a), 0, 0, "WON") BY <1>2 DEF Asked, Outcome
  <2> QED BY <1>1, <1>2, <2>1
<1>3. CASE op # "MOVSRJ"
  <2>1. Lesser(a.len1, a.len2) = 0 BY DEF Lesser
  <2>2. BadOf(m, a) = {} BY <2>1 DEF BadOf, BadIn
  <2>3. Asked(m, a) = Sent(m, a, LeftText(m, a), 0, 0, HowLeft(a))
    BY <1>3, <2>1, <2>2 DEF Asked, Outcome
  <2> QED BY <1>1, <1>3, <2>3
<1> QED BY <1>2, <1>3

\* The words put to.
WordsOf(bp, n) == {Place(bp, k)[1] : k \in 1..n}
DestWords == WordsOf(begun.ac.bp2, begun.ac.len2)

\* What is left of the strings is where StringsAssumption says.
LEMMA Placed ==
    ASSUME begun \in Starts, op \in Sends, NEW a, StringAc(a)
    PROVE  /\ \A k \in 1..a.len1 : Place(a.bp1, k)[1] \in Addr /\ Place(a.bp1, k)[1] \notin DestWords
           /\ \A k \in 1..a.len2 : Place(a.bp2, k)[1] \in Addr /\ Place(a.bp2, k)[1] \in DestWords
           /\ \A j, k \in 1..a.len2 : Place(a.bp2, j) = Place(a.bp2, k) => j = k
<1> DEFINE A == begun.ac
           u1 == Used1(a.len1)
           u2 == Used2(a.len2)
<1>1. op \in Moves \cup {"CMPS"} /\ op # "CMPS" /\ op \in Strings BY DEF Sends, Moves, Strings
<1>2. /\ \A k \in 1..A.len1 : Place(A.bp1, k)[1] \in Addr
      /\ \A k \in 1..A.len2 : Place(A.bp2, k)[1] \in Addr
      /\ \A k \in 1..A.len2 :
             /\ \A j \in 1..A.len1 : Place(A.bp1, j)[1] # Place(A.bp2, k)[1]
             /\ \A j \in 1..A.len2 : Place(A.bp2, j) = Place(A.bp2, k) => j = k
  BY <1>1, StringsAssumption DEF op
<1>3. A.len1 \in Nat /\ A.len2 \in Nat BY <1>1, StringBegun
<1>4. /\ Proper(A.bp1) /\ Proper(A.bp2) /\ Proper(a.bp1) /\ Proper(a.bp2)
      /\ a.bp1.ind = A.bp1.ind /\ a.bp2.ind = A.bp2.ind
      /\ Position(a.bp1) = Position(A.bp1) + u1 /\ Position(a.bp2) = Position(A.bp2) + u2
      /\ a.len1 \in Nat /\ a.len2 \in Nat /\ a.len1 <= A.len1 /\ a.len2 <= A.len2
  BY DEF StringAc, Shifted
<1>5. u1 \in Nat /\ u1 + a.len1 = A.len1 /\ u2 \in Nat /\ u2 + a.len2 = A.len2
  BY <1>3, <1>4 DEF Used1, Used2
<1> HIDE DEF A, u1, u2
<1>6. ASSUME NEW k \in 1..a.len1
      PROVE  k + u1 \in 1..A.len1 /\ Place(a.bp1, k) = Place(A.bp1, k + u1)
  <2>1. k \in Int /\ u1 \in Int /\ k + u1 \in 1..A.len1 BY <1>3, <1>4, <1>5
  <2> QED BY <1>4, <2>1, PlaceShift
<1>7. ASSUME NEW k \in 1..a.len2
      PROVE  k + u2 \in 1..A.len2 /\ Place(a.bp2, k) = Place(A.bp2, k + u2)
  <2>1. k \in Int /\ u2 \in Int /\ k + u2 \in 1..A.len2 BY <1>3, <1>4, <1>5
  <2> QED BY <1>4, <2>1, PlaceShift
<1>8. \A w : w \in DestWords <=> \E k \in 1..A.len2 : w = Place(A.bp2, k)[1] BY DEF DestWords, WordsOf, A
<1>9. ASSUME NEW k \in 1..a.len1 PROVE Place(a.bp1, k)[1] \in Addr /\ Place(a.bp1, k)[1] \notin DestWords
  BY <1>2, <1>6, <1>8
<1>10. ASSUME NEW k \in 1..a.len2 PROVE Place(a.bp2, k)[1] \in Addr /\ Place(a.bp2, k)[1] \in DestWords
  BY <1>2, <1>7, <1>8
<1>11. ASSUME NEW j \in 1..a.len2, NEW k \in 1..a.len2, Place(a.bp2, j) = Place(a.bp2, k) PROVE j = k
  <2>1. j + u2 = k + u2 BY <1>2, <1>7, <1>11
  <2> QED BY <1>5, <2>1
<1> QED BY <1>9, <1>10, <1>11

\* A byte put leaves what is left of the first string alone.
LEMMA SourceKept ==
    ASSUME begun \in Starts, op \in Sends, NEW a, StringAc(a), NEW m \in Memories, NEW c,
           NEW p, p[1] \in DestWords, NEW k \in 1..a.len1
    PROVE  SourceAt(WithByte(m, p, c), a.bp1, k) = SourceAt(m, a.bp1, k)
<1> DEFINE q == Place(a.bp1, k)
<1>1. q[1] \in Addr /\ q[1] # p[1] BY Placed
<1> HIDE DEF q
<1>2. WithByte(m, p, c)[q[1]] = m[q[1]] BY <1>1 DEF WithByte, Memories
<1> QED BY <1>2 DEF SourceAt, q

\* The first byte of the text.
FirstOf(m, a) == IF op = "MOVSRJ" THEN RightText(m, a)[1] ELSE LeftText(m, a)[1]

\* How much of the first string a byte of the text takes.
Takes(a) ==
    IF op = "MOVSRJ" THEN IF a.len1 < a.len2 THEN 0 ELSE 1 ELSE IF a.len1 = 0 THEN 0 ELSE 1

\* With the first byte put, the text is what it was without it.
LEMMA TextOn ==
    ASSUME begun \in Starts, op \in Sends, NEW a, NEW b, StringAc(a), Shifted(a, b, Takes(a), 1),
           a.len2 >= 1, op = "MOVSRJ" => a.len1 <= a.len2, NEW m \in Memories, NEW c,
           NEW p, p[1] \in DestWords
    PROVE  /\ op # "MOVSRJ" => LeftText(WithByte(m, p, c), b) = TailOf(LeftText(m, a))
           /\ op = "MOVSRJ" => RightText(WithByte(m, p, c), b) = TailOf(RightText(m, a))
<1> DEFINE m1 == WithByte(m, p, c)
           d1 == Takes(a)
<1>1. /\ Proper(a.bp1) /\ Proper(b.bp1) /\ b.bp1.ind = a.bp1.ind /\ Position(b.bp1) = Position(a.bp1) + d1
      /\ a.len1 \in Nat /\ a.len2 \in Nat /\ b.len1 = a.len1 - d1 /\ b.len2 = a.len2 - 1
  BY DEF Shifted
<1>2. d1 \in 0..1 BY DEF Takes
<1>3. /\ op # "MOVSRJ" => d1 = 1 \/ a.len1 = 0
      /\ op = "MOVSRJ" => (a.len1 = a.len2 /\ d1 = 1) \/ (a.len1 < a.len2 /\ d1 = 0)
  <2>1. op # "MOVSRJ" => d1 = 1 \/ a.len1 = 0 BY DEF Takes
  <2>2. op = "MOVSRJ" => (a.len1 = a.len2 /\ d1 = 1) \/ (a.len1 < a.len2 /\ d1 = 0)
    BY <1>1 DEF Takes
  <2> QED BY <2>1, <2>2
<1>4. \A k \in 1..a.len1 : SourceAt(m1, a.bp1, k) = SourceAt(m, a.bp1, k) BY SourceKept
<1> HIDE DEF m1, d1
<1>5. ASSUME NEW k \in Int PROVE SourceAt(m1, b.bp1, k) = SourceAt(m1, a.bp1, k + d1)
  <2>1. Place(b.bp1, k) = Place(a.bp1, k + d1) BY <1>1, <1>2, PlaceShift
  <2> QED BY <2>1 DEF SourceAt
<1>6. ASSUME op # "MOVSRJ" PROVE LeftText(m1, b) = TailOf(LeftText(m, a))
  <2>1. ASSUME NEW k \in Nat \ {0}
        PROVE  (IF k <= b.len1 THEN SourceAt(m1, b.bp1, k) + Off ELSE begun.e0[1]) = LeftText(m, a)[k + 1]
    <3>1. LeftText(m, a)[k + 1] = IF k + 1 <= a.len1 THEN SourceAt(m, a.bp1, k + 1) + Off ELSE begun.e0[1]
      BY DEF LeftText, LeftFrom
    <3>2. CASE d1 = 1
      <4>1. k <= b.len1 <=> k + 1 <= a.len1 BY <1>1, <3>2
      <4>2. k + 1 <= a.len1 => SourceAt(m1, b.bp1, k) = SourceAt(m, a.bp1, k + 1)
        <5>1. SUFFICES ASSUME k + 1 <= a.len1 PROVE SourceAt(m1, b.bp1, k) = SourceAt(m, a.bp1, k + 1)
          OBVIOUS
        <5>2. k + 1 \in 1..a.len1 BY <1>1, <5>1
        <5>3. SourceAt(m1, b.bp1, k) = SourceAt(m1, a.bp1, k + 1) BY <1>5, <3>2
        <5> QED BY <1>4, <5>2, <5>3
      <4> QED BY <3>1, <4>1, <4>2
    <3>3. CASE a.len1 = 0
      <4>1. ~(k <= b.len1) /\ ~(k + 1 <= a.len1) BY <1>1, <1>2, <3>3
      <4> QED BY <3>1, <4>1
    <3> QED BY <1>3, <1>6, <3>2, <3>3
  <2>2. LeftText(m1, b) = [k \in Nat \ {0} |-> LeftText(m, a)[k + 1]] BY <2>1 DEF LeftText, LeftFrom
  <2> QED BY <2>2 DEF TailOf
<1>7. ASSUME op = "MOVSRJ" PROVE RightText(m1, b) = TailOf(RightText(m, a))
  <2>1. ASSUME NEW k \in Nat \ {0}
        PROVE  (IF k <= b.len2 - b.len1 \/ k > b.len2 THEN begun.e0[1]
                ELSE SourceAt(m1, b.bp1, k + (b.len1 - b.len2))) = RightText(m, a)[k + 1]
    <3> DEFINE j == (k + 1) + (a.len1 - a.len2)
               i == k + (b.len1 - b.len2)
    <3>1. RightText(m, a)[k + 1] = IF k + 1 <= a.len2 - a.len1 \/ k + 1 > a.len2 THEN begun.e0[1]
                                   ELSE SourceAt(m, a.bp1, j)
      BY DEF RightText, RightFrom
    <3>2. (k <= b.len2 - b.len1 \/ k > b.len2) <=> (k + 1 <= a.len2 - a.len1 \/ k + 1 > a.len2)
      BY <1>1, <1>2, <1>3, <1>7
    <3>3. CASE k + 1 <= a.len2 - a.len1 \/ k + 1 > a.len2 BY <3>1, <3>2, <3>3
    <3>4. CASE ~(k + 1 <= a.len2 - a.len1 \/ k + 1 > a.len2)
      <4>1. i \in Int /\ i + d1 = j /\ j \in 1..a.len1 BY <1>1, <1>2, <1>3, <1>7, <3>4
      <4> HIDE DEF i, j
      <4>2. SourceAt(m1, b.bp1, i) = SourceAt(m1, a.bp1, j) BY <1>5, <4>1
      <4>3. SourceAt(m1, b.bp1, i) = SourceAt(m, a.bp1, j) BY <1>4, <4>1, <4>2
      <4> QED BY <3>1, <3>2, <3>4, <4>3 DEF i
    <3> QED BY <3>3, <3>4
  <2>2. RightText(m1, b) = [k \in Nat \ {0} |-> RightText(m, a)[k + 1]] BY <2>1 DEF RightText, RightFrom
  <2> QED BY <2>2 DEF TailOf
<1> QED BY <1>6, <1>7 DEF m1

\* A byte that fits is put: what is asked for with it in memory is what was asked for.
LEMMA AskedOn ==
    ASSUME begun \in Starts, op \in Sends, NEW a, NEW b, StringAc(a), Shifted(a, b, Takes(a), 1),
           a.len2 >= 1, op = "MOVSRJ" => a.len1 <= a.len2, NEW m \in Memories, FirstOf(m, a) \in Byte
    PROVE  Asked(WithByte(m, Place(a.bp2, 1), FirstOf(m, a)), b) = Asked(m, a)
<1> DEFINE p == Place(a.bp2, 1)
           c == FirstOf(m, a)
           m1 == WithByte(m, p, c)
           d1 == Takes(a)
           t == IF op = "MOVSRJ" THEN RightText(m, a) ELSE LeftText(m, a)
           u == IF op = "MOVSRJ" THEN RightText(m1, b) ELSE LeftText(m1, b)
           B == IF op = "MOVSRJ" THEN {} ELSE BadOf(m, a)
           C == IF op = "MOVSRJ" THEN {} ELSE BadOf(m1, b)
           used == IF op = "MOVSRJ" THEN a.len1 ELSE Lesser(a.len1, a.len2)
           left == IF op = "MOVSRJ" THEN b.len1 ELSE Lesser(b.len1, b.len2)
           how == IF op = "MOVSRJ" THEN "WON" ELSE HowLeft(a)
           hows == IF op = "MOVSRJ" THEN "WON" ELSE HowLeft(b)
<1>1. Asked(m, a) = Outcome(m, a, t, B, used, how) /\ Asked(m1, b) = Outcome(m1, b, u, C, left, hows)
  BY DEF Asked
<1>2. /\ a.len1 \in Nat /\ a.len2 \in Nat /\ b.len1 \in Nat /\ b.len2 \in Nat
      /\ b.len1 = a.len1 - d1 /\ b.len2 = a.len2 - 1 /\ d1 \in 0..1
  BY DEF Shifted, Takes
<1>3. /\ p[1] \in Addr /\ p[1] \in DestWords
      /\ \A j, k \in 1..a.len2 : Place(a.bp2, j) = Place(a.bp2, k) => j = k
  <2>1. 1 \in 1..a.len2 BY <1>2
  <2> QED BY <2>1, Placed
<1>4. u = TailOf(t) BY <1>3, TextOn
<1>5. t[1] = c /\ c \in Byte BY DEF FirstOf
<1>6. d1 = 0 => op = "MOVSRJ" \/ a.len1 = 0 BY DEF Takes
<1> HIDE DEF d1
<1>7. how = hows
  <2>1. CASE op = "MOVSRJ" BY <2>1
  <2>2. CASE op # "MOVSRJ"
    <3>1. d1 = 1 \/ a.len1 = 0 BY <1>2, <1>6, <2>2
    <3>2. a.len1 > a.len2 <=> b.len1 > b.len2 BY <1>2, <3>1
    <3> QED BY <2>2, <3>2 DEF HowLeft
  <2> QED BY <2>1, <2>2
<1>8. left = used - d1 /\ used \in Int
  <2>1. CASE op = "MOVSRJ" BY <1>2, <2>1
  <2>2. CASE op # "MOVSRJ"
    <3>1. d1 = 1 \/ a.len1 = 0 BY <1>2, <1>6, <2>2
    <3> QED BY <1>2, <2>2, <3>1 DEF Lesser
  <2> QED BY <2>1, <2>2
<1>9. B \in SUBSET Nat /\ (\A k \in B : 2 <= k /\ k <= a.len2) /\ (B # {} => d1 = 1) /\ C = Down(B)
  <2>1. CASE op = "MOVSRJ" BY <2>1 DEF Down
  <2>2. CASE op # "MOVSRJ"
    <3> DEFINE n == Lesser(a.len1, a.len2)
               n1 == Lesser(b.len1, b.len2)
    <3>1. d1 = 1 \/ a.len1 = 0 BY <1>2, <1>6, <2>2
    <3>2. n \in Nat /\ n <= a.len2 /\ (a.len1 = 0 => n = 0 /\ n1 = 0) /\ (a.len1 # 0 => n1 = n - 1)
      BY <1>2, <3>1 DEF Lesser
    <3>3. \A k : k \in B <=> k \in 1..n /\ t[k] \notin Byte BY <2>2 DEF BadOf, BadIn
    <3>4. \A k : k \in C <=> k \in 1..n1 /\ u[k] \notin Byte BY <2>2 DEF BadOf, BadIn
    <3> HIDE DEF n, n1, t, u, B, C
    <3>5. 1 \notin B BY <1>5, <3>3
    <3>6. ASSUME NEW k \in B PROVE k \in Nat /\ 2 <= k /\ k <= a.len2 /\ d1 = 1
      <4>1. k \in 1..n /\ k # 1 BY <3>3, <3>5
      <4> QED BY <1>2, <3>1, <3>2, <4>1
    <3>7. \A k \in Nat \ {0} : u[k] = t[k + 1] BY <1>4 DEF TailOf
    <3>8. ASSUME NEW k PROVE k \in C <=> k \in Down(B)
      <4>1. CASE k \in Nat \ {0}
        <5>1. k \in 1..n1 <=> k + 1 \in 1..n BY <3>2, <4>1
        <5>2. k \in Down(B) <=> k + 1 \in B BY <4>1 DEF Down
        <5> QED BY <3>3, <3>4, <3>7, <4>1, <5>1, <5>2
      <4>2. CASE k \notin Nat \ {0}
        <5>1. k \notin 1..n1 BY <3>2, <4>2
        <5> QED BY <3>4, <4>2, <5>1 DEF Down
      <4> QED BY <4>1, <4>2
    <3>9. C = Down(B) BY <3>8
    <3> QED BY <3>6, <3>9
  <2> QED BY <2>1, <2>2
<1>10. Shifted(a, b, d1, 1) /\ d1 \in Int BY <1>2 DEF d1
<1> HIDE DEF t, u, B, C, used, left, how, hows
<1>11. /\ t[1] \in Byte /\ Place(a.bp2, 1)[1] \in Addr
       /\ \A j, k \in 1..a.len2 : Place(a.bp2, j) = Place(a.bp2, k) => j = k
       /\ m1 = WithByte(m, Place(a.bp2, 1), t[1])
  BY <1>3, <1>5, <1>9
<1> HIDE DEF m1
<1>12. Outcome(m1, b, u, C, left, how) = Outcome(m, a, t, B, used, how)
  BY <1>4, <1>8, <1>9, <1>10, <1>11, OutcomeOn
<1>13. Asked(m1, b) = Asked(m, a) BY <1>1, <1>7, <1>12
<1> QED BY <1>13 DEF m1

\* Of two ACs that differ in what MOVSRJ passes over, if at all, both ask for the same.
LEMMA AskedMoved ==
    ASSUME op \in Sends, NEW m, NEW a, NEW b, NEW d1 \in Int, Shifted(a, b, d1, 0),
           d1 = 0 \/ (op = "MOVSRJ" /\ a.len1 > a.len2 /\ d1 = a.len1 - a.len2)
    PROVE  Asked(m, b) = Asked(m, a)
<1>1. /\ Proper(a.bp1) /\ Proper(b.bp1) /\ b.bp1.ind = a.bp1.ind /\ Position(b.bp1) = Position(a.bp1) + d1
      /\ a.len1 \in Nat /\ a.len2 \in Nat /\ b.len1 = a.len1 - d1 /\ b.len2 = a.len2
  BY DEF Shifted
<1>2. ASSUME NEW k \in Int PROVE SourceAt(m, b.bp1, k) = SourceAt(m, a.bp1, k + d1)
  <2>1. Place(b.bp1, k) = Place(a.bp1, k + d1) BY <1>1, PlaceShift
  <2> QED BY <2>1 DEF SourceAt
<1>3. CASE op = "MOVSRJ"
  <2>1. ASSUME NEW k \in Nat \ {0} PROVE RightText(m, b)[k] = RightText(m, a)[k]
    <3> DEFINE j == k + (a.len1 - a.len2)
               i == k + (b.len1 - b.len2)
    <3>1. RightText(m, a)[k] = IF k <= a.len2 - a.len1 \/ k > a.len2 THEN begun.e0[1] ELSE SourceAt(m, a.bp1, j)
      BY DEF RightText, RightFrom
    <3>2. RightText(m, b)[k] = IF k <= b.len2 - b.len1 \/ k > b.len2 THEN begun.e0[1] ELSE SourceAt(m, b.bp1, i)
      BY DEF RightText, RightFrom
    <3>3. (k <= b.len2 - b.len1 \/ k > b.len2) <=> (k <= a.len2 - a.len1 \/ k > a.len2) BY <1>1
    <3>4. i \in Int /\ i + d1 = j BY <1>1
    <3> HIDE DEF i, j
    <3>5. SourceAt(m, b.bp1, i) = SourceAt(m, a.bp1, j) BY <1>2, <3>4
    <3> QED BY <3>1, <3>2, <3>3, <3>5
  <2>2. RightText(m, b) = RightText(m, a)
    <3>1. RightText(m, b) = [k \in Nat \ {0} |-> RightText(m, b)[k]] BY DEF RightText, RightFrom
    <3>2. RightText(m, a) = [k \in Nat \ {0} |-> RightText(m, a)[k]] BY DEF RightText, RightFrom
    <3> QED BY <2>1, <3>1, <3>2
  <2> DEFINE t == RightText(m, a)
             used == a.len1
             none == {}
  <2>3. Asked(m, a) = Outcome(m, a, t, none, used, "WON") /\ Asked(m, b) = Outcome(m, b, t, none, used - d1, "WON")
    BY <1>1, <1>3, <2>2 DEF Asked
  <2>4. used \in Int /\ none \in SUBSET Nat /\ (none # {} => d1 = 0) BY <1>1
  <2> HIDE DEF t, used, none
  <2>5. Outcome(m, b, t, none, used - d1, "WON") = Outcome(m, a, t, none, used, "WON")
    BY <2>4, OutcomeSame
  <2> QED BY <2>3, <2>5
<1>4. CASE op # "MOVSRJ"
  <2>1. d1 = 0 /\ b.len1 = a.len1 BY <1>1, <1>4
  <2>2. ASSUME NEW k \in Nat \ {0} PROVE LeftText(m, b)[k] = LeftText(m, a)[k]
    <3>1. SourceAt(m, b.bp1, k) = SourceAt(m, a.bp1, k)
      <4>1. k \in Int /\ k + d1 = k BY <2>1
      <4> QED BY <1>2, <4>1
    <3> QED BY <2>1, <3>1 DEF LeftText, LeftFrom
  <2>3. LeftText(m, b) = LeftText(m, a)
    <3>1. LeftText(m, b) = [k \in Nat \ {0} |-> LeftText(m, b)[k]] BY DEF LeftText, LeftFrom
    <3>2. LeftText(m, a) = [k \in Nat \ {0} |-> LeftText(m, a)[k]] BY DEF LeftText, LeftFrom
    <3> QED BY <2>2, <3>1, <3>2
  <2> DEFINE t == LeftText(m, a)
             used == Lesser(a.len1, a.len2)
             how == HowLeft(a)
             B == BadOf(m, a)
  <2>4. Lesser(b.len1, b.len2) = used /\ HowLeft(b) = how /\ BadOf(m, b) = B
    BY <1>1, <2>1, <2>3 DEF HowLeft, BadOf, BadIn
  <2>5. Asked(m, a) = Outcome(m, a, t, B, used, how) /\ Asked(m, b) = Outcome(m, b, t, B, used, how)
    BY <1>4, <2>3, <2>4 DEF Asked
  <2>6. used \in Int /\ used - d1 = used BY <1>1, <2>1 DEF Lesser
  <2>7. B \in SUBSET Nat
    <3>1. used \in Nat BY <1>1 DEF Lesser
    <3> QED BY <3>1 DEF BadOf, BadIn
  <2>8. B # {} => d1 = 0 BY <2>1
  <2> HIDE DEF t, used, how, B
  <2>9. Outcome(m, b, t, B, used - d1, how) = Outcome(m, a, t, B, used, how)
    BY <2>6, <2>7, <2>8, OutcomeSame
  <2> QED BY <2>5, <2>6, <2>9
<1> QED BY <1>3, <1>4

-----------------------------------------------------------------------------
(* MOVSLJ, MOVSO and MOVSRJ                                                *)

MoveGoal == Effect(begun, begun.mem, begun.ac)

\* It is not reached where there is nowhere to justify to, and where a byte has no place:
\* Departs for these instructions.
Missed ==
    IF op = "MOVSRJ" THEN begun.ac.len2 = 0 /\ begun.ac.len1 > 0
    ELSE op = "MOVSO" /\ MoveGoal.len2 > 0
Reached(m, a, how) == Seen(m, a, how) = MoveGoal <=> ~Missed

\* The word at hand is one that is not put to.
Safe(s) == s.vp => s.y \in Addr /\ s.y \notin DestWords

\* A move under way: what it leaves asks for the rest, or it is what was asked for.
Sending(y) ==
    /\ OnStrings(y) /\ y.mem \in Memories /\ y.res \in {"RUN", "PF", "PI", "WON", "TRUNC"}
    /\ y.res = "RUN" => /\ Live(y.s1, y.mem) /\ Live(y.s2, y.mem) /\ Safe(y.s1)
                        /\ op = "MOVSRJ" => y.len1 <= y.len2
    /\ y.res \in {"RUN", "PF", "PI"} => y.len2 >= 1 /\ Asked(y.mem, LeftAc(y)) = MoveGoal
    /\ y.res \in {"WON", "TRUNC"} => Reached(y.mem, LeftAc(y), y.res)

\* A byte is not there, or has no place, and nothing has been used.
LEMMA SendFails ==
    ASSUME begun \in Starts, op \in Sends, NEW y, NEW z, Sending(y), y.res = "RUN",
           DOMAIN z = TryFields, z.res = "PF", z.op = y.op, z.e0 = y.e0, z.flags = y.flags,
           z.mem = y.mem, z.len1 = y.len1, z.len2 = y.len2,
           Keepable(z.s1), z.s1.bp.ind = y.s1.bp.ind, Spot(z.s1) = Spot(y.s1),
           Keepable(z.s2), z.s2.bp.ind = y.s2.bp.ind, Spot(z.s2) = Spot(y.s2)
    PROVE  Sending(z)
<1> DEFINE a == LeftAc(y)
           b == LeftAc(z)
<1>0. op \in Strings BY DEF Sends, Strings
<1>1. OnStrings(y) /\ y.mem \in Memories /\ y.len2 >= 1 /\ Asked(y.mem, a) = MoveGoal
  BY DEF Sending
<1>2. OnStrings(z) BY <1>1 DEF OnStrings
<1>3. y.len1 \in Nat /\ y.len2 \in Nat BY <1>1 DEF OnStrings
<1>4. Shifted(a, b, y.len1 - z.len1, y.len2 - z.len2) BY <1>0, <1>1, <1>2, Aligned
<1> HIDE DEF a, b
<1>5. Shifted(a, b, 0, 0)
  <2>1. y.len1 - z.len1 = 0 /\ y.len2 - z.len2 = 0 BY <1>3
  <2> QED BY <1>4, <2>1
<1>6. Asked(y.mem, b) = Asked(y.mem, a) BY <1>5, AskedMoved
<1> QED BY <1>1, <1>2, <1>6 DEF Sending, b

\* A pointer at another word is as good when a byte has been put.
LEMMA LiveElse ==
    ASSUME NEW s, NEW m \in Memories, Live(s, m), Safe(s), NEW p, p[1] \in DestWords, NEW c
    PROVE  Live(s, WithByte(m, p, c))
<1>1. s.vp => WithByte(m, p, c)[s.y] = m[s.y] BY DEF Safe, WithByte, Memories
<1> QED BY <1>1 DEF Live

\* The first byte of the text has been put: the rest is asked for, or all is done.
LEMMA SendOn ==
    ASSUME begun \in Starts, op \in Sends, NEW y, NEW z, Sending(y), y.res = "RUN",
           DOMAIN z = TryFields, z.op = y.op, z.e0 = y.e0, z.flags = y.flags,
           NEW c, c = FirstOf(y.mem, LeftAc(y)), c \in Byte,
           z.mem = WithByte(y.mem, Place(LeftAc(y).bp2, 1), c),
           z.len1 = y.len1 - Takes(y), z.len2 = y.len2 - 1,
           Live(z.s1, y.mem), Safe(z.s1), z.s1.bp.ind = y.s1.bp.ind, Spot(z.s1) = Spot(y.s1) + Takes(y),
           Live(z.s2, z.mem), z.s2.bp.ind = y.s2.bp.ind, Spot(z.s2) = Spot(y.s2) + 1,
           z.len2 # 0 => z.res \in {"RUN", "PI"},
           z.len2 = 0 => z.res = IF op # "MOVSRJ" /\ z.len1 > 0 THEN "TRUNC" ELSE "WON"
    PROVE  Sending(z)
<1> DEFINE a == LeftAc(y)
           b == LeftAc(z)
           m == y.mem
           d1 == Takes(y)
           p == Place(a.bp2, 1)
<1>0. op \in Strings BY DEF Sends, Strings
<1>1. /\ OnStrings(y) /\ m \in Memories /\ y.len2 >= 1 /\ Asked(m, a) = MoveGoal
      /\ op = "MOVSRJ" => y.len1 <= y.len2
  BY DEF Sending
<1>2. /\ y.len1 \in Nat /\ y.len2 \in Nat /\ y.len1 <= begun.ac.len1 /\ y.len2 <= begun.ac.len2
      /\ Spot(y.s1) = Position(begun.ac.bp1) + Used1(y.len1)
      /\ Spot(y.s2) = Position(begun.ac.bp2) + Used2(y.len2)
  BY <1>1 DEF OnStrings
<1>3. /\ begun.ac.len1 \in Nat /\ begun.ac.len2 \in Nat
      /\ Position(begun.ac.bp1) \in Int /\ Position(begun.ac.bp2) \in Int
  BY <1>0, StringBegun
<1>4. /\ d1 \in 0..y.len1 /\ d1 \in 0..1 /\ (op = "MOVSRJ" => d1 = 1 \/ y.len1 < y.len2)
  <2>1. CASE op = "MOVSRJ" BY <1>1, <1>2, <2>1 DEF Takes
  <2>2. CASE op # "MOVSRJ" BY <1>2, <2>2 DEF Takes
  <2> QED BY <2>1, <2>2
<1>5. /\ StringAc(a) /\ a.len1 = y.len1 /\ a.len2 = y.len2 /\ Proper(a.bp2)
  BY <1>0, <1>1, LeftAcFact
<1>6. Takes(a) = d1 BY <1>5 DEF Takes
<1>7. p[1] \in Addr /\ p[1] \in DestWords
  <2>1. 1 \in 1..a.len2 BY <1>1, <1>2, <1>5
  <2> QED BY <1>5, <2>1, Placed
<1>8. z.mem = WithByte(m, p, c) OBVIOUS
<1>9. z.mem \in Memories
  <2>1. Sane(a.bp2) /\ 1 \in Int BY <1>5 DEF Proper
  <2> QED BY <1>1, <1>7, <1>8, <2>1, WithByteFact
<1>10. Live(z.s1, z.mem) BY <1>1, <1>7, <1>8, LiveElse
<1> HIDE DEF d1
<1>11. z.len1 = y.len1 - d1 /\ Spot(z.s1) = Spot(y.s1) + d1 BY DEF d1
<1>12. OnStrings(z)
  <2>1. z.len1 \in Nat /\ z.len2 \in Nat /\ z.len1 <= begun.ac.len1 /\ z.len2 <= begun.ac.len2
    BY <1>1, <1>2, <1>3, <1>4, <1>11
  <2>2. Used1(z.len1) = Used1(y.len1) + d1 /\ Used2(z.len2) = Used2(y.len2) + 1
    BY <1>2, <1>3, <1>4, <1>11 DEF Used1, Used2
  <2>3. Used1(y.len1) \in Int /\ Used2(y.len2) \in Int BY <1>2, <1>3 DEF Used1, Used2
  <2>4. /\ Spot(z.s1) = Position(begun.ac.bp1) + Used1(z.len1)
        /\ Spot(z.s2) = Position(begun.ac.bp2) + Used2(z.len2)
    BY <1>2, <1>3, <1>4, <1>11, <2>2, <2>3
  <2> QED BY <1>1, <1>10, <2>1, <2>4 DEF OnStrings, Live
<1>13. Shifted(a, b, d1, 1)
  <2>1. Shifted(a, b, y.len1 - z.len1, y.len2 - z.len2) BY <1>0, <1>1, <1>12, Aligned
  <2>2. y.len1 - z.len1 = d1 /\ y.len2 - z.len2 = 1 BY <1>2, <1>4, <1>11
  <2> QED BY <2>1, <2>2
<1>14. /\ b.len1 = z.len1 /\ b.len2 = z.len2 /\ Proper(b.bp1) /\ Proper(b.bp2)
  BY <1>0, <1>12, LeftAcFact
<1>15. z.len1 \in Nat /\ z.len2 \in Nat BY <1>12 DEF OnStrings
<1>16. op = "MOVSRJ" => z.len1 <= z.len2 BY <1>1, <1>2, <1>4, <1>11
<1>17. c = FirstOf(m, a) OBVIOUS
<1> HIDE DEF a, b, m
<1>18. Asked(z.mem, b) = Asked(m, a)
  <2>1. Shifted(a, b, Takes(a), 1) BY <1>6, <1>13
  <2>2. a.len2 >= 1 /\ (op = "MOVSRJ" => a.len1 <= a.len2) BY <1>1, <1>5
  <2>3. Asked(WithByte(m, Place(a.bp2, 1), FirstOf(m, a)), b) = Asked(m, a)
    BY <1>1, <1>5, <1>17, <2>1, <2>2, AskedOn
  <2> QED BY <1>8, <1>17, <2>3
<1>19. CASE z.len2 # 0
  <2>1. z.len2 >= 1
    <3>1. \A n \in Nat : n # 0 => n >= 1 OBVIOUS
    <3> QED BY <1>15, <1>19, <3>1, Zenon
  <2>2. z.res \in {"RUN", "PI"} BY <1>19, Zenon
  <2> QED BY <1>1, <1>9, <1>10, <1>12, <1>16, <1>18, <2>1, <2>2 DEF Sending, b
<1>20. CASE z.len2 = 0
  <2>1. Position(b.bp1) \in Int /\ Position(b.bp2) \in Int BY <1>14, PositionFact DEF Proper
  <2>2. b.len2 = 0 /\ b.len1 \in Nat /\ (op = "MOVSRJ" => b.len1 = 0)
    <3>1. b.len2 = 0 /\ b.len1 \in Nat BY <1>14, <1>15, <1>20
    <3>2. z.len1 <= z.len2 => z.len1 = 0 BY <1>15, <1>20
    <3> QED BY <1>14, <1>16, <3>1, <3>2, Zenon
  <2>3. Asked(z.mem, b) = Seen(z.mem, b, IF op = "MOVSRJ" THEN "WON" ELSE HowLeft(b))
    BY <1>9, <2>1, <2>2, AskedNone
  <2>4. (IF op = "MOVSRJ" THEN "WON" ELSE HowLeft(b)) = z.res
    <3>1. CASE op = "MOVSRJ" BY <1>20, <3>1
    <3>2. CASE op # "MOVSRJ"
      <4>1. HowLeft(b) = IF z.len1 > 0 THEN "TRUNC" ELSE "WON" BY <1>14, <2>2 DEF HowLeft
      <4> QED BY <1>20, <3>2, <4>1
    <3> QED BY <3>1, <3>2
  <2>5. z.res \in {"WON", "TRUNC"} BY <1>20
  <2>6. Seen(z.mem, b, z.res) = MoveGoal BY <1>1, <1>18, <2>3, <2>4
  <2>7. ~Missed
    <3>1. MoveGoal.len2 = 0 BY <2>2, <2>6 DEF Seen
    <3>2. begun.ac.len2 # 0 BY <1>1, <1>2, <1>3
    <3> QED BY <3>1, <3>2 DEF Missed
  <2>8. Reached(z.mem, b, z.res) BY <2>6, <2>7 DEF Reached
  <2> QED BY <1>9, <1>12, <2>5, <2>8 DEF Sending, b
<1> QED BY <1>19, <1>20

\* The byte does not fit: a byte too far.
LEMMA SendStops ==
    ASSUME begun \in Starts, op = "MOVSO", NEW y, NEW z, Sending(y), y.res = "RUN",
           DOMAIN z = TryFields, z.op = y.op, z.e0 = y.e0, z.flags = y.flags, z.mem = y.mem,
           y.len1 # 0, FirstOf(y.mem, LeftAc(y)) \notin Byte,
           z.len1 = y.len1 - 1, z.len2 = y.len2, z.res = "TRUNC",
           Keepable(z.s1), z.s1.bp.ind = y.s1.bp.ind, Spot(z.s1) = Spot(y.s1) + 1, z.s2 = y.s2
    PROVE  Sending(z)
<1> DEFINE a == LeftAc(y)
           b == LeftAc(z)
           m == y.mem
<1>0. op \in Strings /\ op \in Sends BY DEF Sends, Strings
<1>1. OnStrings(y) /\ m \in Memories /\ y.len2 >= 1 /\ Asked(m, a) = MoveGoal
  BY DEF Sending
<1>2. /\ y.len1 \in Nat /\ y.len2 \in Nat /\ y.len1 <= begun.ac.len1
      /\ Spot(y.s1) = Position(begun.ac.bp1) + Used1(y.len1)
  BY <1>1 DEF OnStrings
<1>3. begun.ac.len1 \in Nat /\ Position(begun.ac.bp1) \in Int BY <1>0, StringBegun
<1>4. OnStrings(z)
  <2>1. z.len1 \in Nat /\ z.len1 <= begun.ac.len1 /\ Used1(z.len1) = Used1(y.len1) + 1
        /\ Used1(y.len1) \in Int
    BY <1>2, <1>3 DEF Used1
  <2>2. Spot(z.s1) = Position(begun.ac.bp1) + Used1(z.len1) BY <1>2, <1>3, <2>1
  <2> QED BY <1>1, <2>1, <2>2 DEF OnStrings
<1>5. Shifted(a, b, 1, 0)
  <2>1. Shifted(a, b, y.len1 - z.len1, y.len2 - z.len2) BY <1>0, <1>1, <1>4, Aligned
  <2>2. y.len1 - z.len1 = 1 /\ y.len2 - z.len2 = 0 BY <1>2
  <2> QED BY <2>1, <2>2
<1>6. a.len1 = y.len1 /\ a.len2 = y.len2 BY <1>0, <1>1, LeftAcFact
<1> HIDE DEF b
<1>7. FirstOf(m, a) \notin Byte OBVIOUS
<1> HIDE DEF a, m
<1> DEFINE B == BadOf(m, a)
           t == LeftText(m, a)
<1>8. 1 \in B /\ B \in SUBSET Nat /\ \A k \in B : k >= 1
  <2>1. Lesser(a.len1, a.len2) \in Nat /\ Lesser(a.len1, a.len2) >= 1 BY <1>1, <1>2, <1>6 DEF Lesser
  <2> QED BY <1>7, <2>1 DEF BadOf, BadIn, FirstOf
<1>9. Asked(m, a) = Outcome(m, a, t, B, Lesser(a.len1, a.len2), HowLeft(a)) BY DEF Asked
<1> HIDE DEF B, t
<1>10. LeastOf(B) = 1
  <2>1. LeastOf(B) \in B /\ \A j \in B : LeastOf(B) <= j BY <1>8, LeastFact
  <2>2. LeastOf(B) <= 1 /\ LeastOf(B) >= 1 /\ LeastOf(B) \in Nat BY <1>8, <2>1
  <2> QED BY <2>2
<1>11. MoveGoal = Sent(m, a, t, 0, 0, "TRUNC") BY <1>1, <1>8, <1>9, <1>10 DEF Outcome
<1>12. MoveGoal.len2 = y.len2 - 0 /\ MoveGoal.len1 = y.len1 - 0 BY <1>6, <1>11 DEF Sent
<1>13. Missed BY <1>1, <1>2, <1>12 DEF Missed
<1>14. b.len1 = y.len1 - 1 BY <1>2, <1>5, <1>6 DEF Shifted
<1>15. Seen(m, b, "TRUNC").len1 = y.len1 - 1 BY <1>14 DEF Seen
<1>16. Reached(m, b, "TRUNC") BY <1>2, <1>12, <1>13, <1>15 DEF Reached
<1>17. z.mem = m /\ m \in Memories BY <1>1 DEF m
<1> QED BY <1>4, <1>16, <1>17 DEF Sending, b

\* What a try says of its pointers and of the ACs it would leave.
LEMMA SendingHas ==
    ASSUME begun \in Starts, op \in Sends, NEW y, Sending(y), y.res = "RUN"
    PROVE  LET a == LeftAc(y)
           IN /\ StringAc(a) /\ a.len1 = y.len1 /\ a.len2 = y.len2 /\ Proper(a.bp1) /\ Proper(a.bp2)
              /\ a.bp1.ind = y.s1.bp.ind /\ a.bp2.ind = y.s2.bp.ind
              /\ Position(a.bp1) = Spot(y.s1) /\ Position(a.bp2) = Spot(y.s2)
              /\ y.len1 \in Nat /\ y.len2 \in Nat /\ y.len2 >= 1 /\ DOMAIN y = TryFields
              /\ y.mem \in Memories /\ y.e0 = begun.e0
              /\ Live(y.s1, y.mem) /\ Live(y.s2, y.mem) /\ Safe(y.s1)
              /\ Keepable(y.s1) /\ Keepable(y.s2) /\ Spot(y.s1) \in Int /\ Spot(y.s2) \in Int
              /\ Place(a.bp2, 1)[1] \in DOMAIN y.mem
<1> DEFINE a == LeftAc(y)
<1>0. op \in Strings BY DEF Sends, Strings
<1>1. OnStrings(y) /\ y.mem \in Memories /\ Live(y.s1, y.mem) /\ Live(y.s2, y.mem) /\ Safe(y.s1)
      /\ y.len2 >= 1
  BY DEF Sending
<1>2. /\ StringAc(a) /\ a.len1 = y.len1 /\ a.len2 = y.len2 /\ Proper(a.bp1) /\ Proper(a.bp2)
      /\ a.bp1.ind = begun.ac.bp1.ind /\ a.bp2.ind = begun.ac.bp2.ind
      /\ Position(a.bp1) = Spot(y.s1) /\ Position(a.bp2) = Spot(y.s2)
  BY <1>0, <1>1, LeftAcFact
<1> HIDE DEF a
<1>3. /\ y.len1 \in Nat /\ y.len2 \in Nat /\ DOMAIN y = TryFields /\ y.e0 = begun.e0
      /\ y.s1.bp.ind = begun.ac.bp1.ind /\ y.s2.bp.ind = begun.ac.bp2.ind /\ Keepable(y.s1) /\ Keepable(y.s2)
  BY <1>1 DEF OnStrings
<1>4. Spot(y.s1) \in Int /\ Spot(y.s2) \in Int BY <1>3, UpdateFact
<1>5. Place(a.bp2, 1)[1] \in DOMAIN y.mem
  <2>1. 1 \in 1..a.len2 BY <1>1, <1>2, <1>3
  <2>2. Place(a.bp2, 1)[1] \in Addr BY <1>2, <2>1, Placed
  <2> QED BY <1>1, <2>2 DEF Memories
<1> QED BY <1>1, <1>2, <1>3, <1>4, <1>5 DEF a

\* Where a byte is put.
LEMMA PutFact ==
    ASSUME begun \in Starts, op \in Sends, NEW y, Sending(y), y.res = "RUN", NEW gone, NEW c,
           NEW w, w = xidpb(y.mem, gone, y.s2, c)
    PROVE  /\ Keepable(w.s) /\ w.s.bp.ind = y.s2.bp.ind
           /\ w.ok => /\ Live(w.s, w.mem) /\ Spot(w.s) = Spot(y.s2) + 1
                      /\ w.mem = WithByte(y.mem, Place(LeftAc(y).bp2, 1), c)
           /\ ~w.ok => Spot(w.s) = Spot(y.s2)
<1> DEFINE a == LeftAc(y)
           u == xidpb(y.mem, gone, y.s2, c)
<1>1. /\ Proper(a.bp2) /\ Live(y.s2, y.mem) /\ a.bp2.ind = y.s2.bp.ind
      /\ Position(a.bp2) = Spot(y.s2) /\ Place(a.bp2, 1)[1] \in DOMAIN y.mem
  BY SendingHas
<1>2. Sane(a.bp2) BY <1>1 DEF Proper
<1> HIDE DEF a
<1>3. /\ Keepable(u.s) /\ u.s.bp.ind = y.s2.bp.ind
      /\ u.ok => /\ Live(u.s, u.mem) /\ Spot(u.s) = Spot(y.s2) + 1
                 /\ u.mem = WithByte(y.mem, Place(a.bp2, 1), c)
      /\ ~u.ok => Spot(u.s) = Spot(y.s2)
  BY <1>1, <1>2, WriteFact
<1> HIDE DEF u
<1>4. w = u BY DEF u
<1> QED BY <1>3, <1>4 DEF a

\* A fill byte is put, or it has no place.
LEMMA PadSends ==
    ASSUME begun \in Starts, op \in Sends, NEW y, Sending(y), y.res = "RUN",
           op = "MOVSRJ" => y.len1 < y.len2, op # "MOVSRJ" => y.len1 = 0, NEW gone,
           NEW w, w = xidpb(y.mem, gone, y.s2, y.e0[1]), NEW h,
           y.len2 = 1 => h = "WON", y.len2 # 1 => h \in {"RUN", "PI"}, NEW left, left = y.len2 - 1
    PROVE  Sending(IF w.ok THEN [y EXCEPT !.mem = w.mem, !.s2 = w.s, !.len2 = left, !.res = h]
                   ELSE [y EXCEPT !.s2 = w.s, !.res = "PF"])
<1> DEFINE a == LeftAc(y)
<1>1. /\ StringAc(a) /\ a.len1 = y.len1 /\ a.len2 = y.len2 /\ Proper(a.bp1) /\ Proper(a.bp2)
      /\ a.bp1.ind = y.s1.bp.ind /\ a.bp2.ind = y.s2.bp.ind
      /\ Position(a.bp1) = Spot(y.s1) /\ Position(a.bp2) = Spot(y.s2)
      /\ y.len1 \in Nat /\ y.len2 \in Nat /\ y.len2 >= 1 /\ DOMAIN y = TryFields
      /\ y.mem \in Memories /\ y.e0 = begun.e0
      /\ Live(y.s1, y.mem) /\ Live(y.s2, y.mem) /\ Safe(y.s1)
      /\ Keepable(y.s1) /\ Keepable(y.s2) /\ Spot(y.s1) \in Int /\ Spot(y.s2) \in Int
      /\ Place(a.bp2, 1)[1] \in DOMAIN y.mem
  BY SendingHas
<1> DEFINE c == begun.e0[1]
           p == Place(a.bp2, 1)
           z == IF w.ok THEN [y EXCEPT !.mem = w.mem, !.s2 = w.s, !.len2 = left, !.res = h]
                ELSE [y EXCEPT !.s2 = w.s, !.res = "PF"]
<1>2. c = FirstOf(y.mem, a)
  <2>1. CASE op = "MOVSRJ"
    <3>1. 1 <= a.len2 - a.len1 BY <1>1, <2>1
    <3> QED BY <2>1, <3>1 DEF FirstOf, RightText, RightFrom
  <2>2. CASE op # "MOVSRJ"
    <3>1. ~(1 <= a.len1) BY <1>1, <2>2
    <3> QED BY <2>2, <3>1 DEF FirstOf, LeftText, LeftFrom
  <2> QED BY <2>1, <2>2
<1>3. c \in Byte BY StringBegun DEF Strings, Sends
<1>4. Takes(y) = 0 BY DEF Takes
<1>5. /\ Keepable(w.s) /\ w.s.bp.ind = y.s2.bp.ind
      /\ w.ok => /\ Live(w.s, w.mem) /\ Spot(w.s) = Spot(y.s2) + 1 /\ w.mem = WithByte(y.mem, p, c)
      /\ ~w.ok => Spot(w.s) = Spot(y.s2)
  <2>1. w = xidpb(y.mem, gone, y.s2, c) BY <1>1
  <2> HIDE DEF c
  <2> QED BY <2>1, PutFact
<1> HIDE DEF a, c, p
<1>6. CASE w.ok
  <2>1. /\ DOMAIN z = TryFields /\ z.op = y.op /\ z.e0 = y.e0 /\ z.flags = y.flags /\ z.mem = w.mem
        /\ z.len1 = y.len1 /\ z.len2 = y.len2 - 1 /\ z.s1 = y.s1 /\ z.s2 = w.s /\ z.res = h
    BY <1>1, <1>6 DEF TryFields
  <2>2. z.len1 = y.len1 - Takes(y) /\ Spot(z.s1) = Spot(y.s1) + Takes(y) BY <1>1, <1>4, <2>1
  <2>3. /\ z.len2 # 0 => z.res \in {"RUN", "PI"}
        /\ z.len2 = 0 => z.res = "WON"
    BY <1>1, <2>1
  <2>4. z.len2 = 0 => z.res = IF op # "MOVSRJ" /\ z.len1 > 0 THEN "TRUNC" ELSE "WON"
    <3>1. CASE op = "MOVSRJ" BY <2>3, <3>1
    <3>2. CASE op # "MOVSRJ"
      <4>1. ~(z.len1 > 0) BY <2>1, <3>2
      <4> QED BY <2>3, <4>1
    <3> QED BY <3>1, <3>2
  <2>5. z.mem = WithByte(y.mem, Place(LeftAc(y).bp2, 1), c) BY <1>5, <1>6, <2>1 DEF p, a
  <2>6. c = FirstOf(y.mem, LeftAc(y)) BY <1>2 DEF a
  <2>7. /\ Live(z.s1, y.mem) /\ Safe(z.s1) /\ z.s1.bp.ind = y.s1.bp.ind
        /\ Live(z.s2, z.mem) /\ z.s2.bp.ind = y.s2.bp.ind /\ Spot(z.s2) = Spot(y.s2) + 1
    BY <1>1, <1>5, <1>6, <2>1
  <2>8. z.len2 = y.len2 - 1 BY <2>1
  <2> HIDE DEF z
  <2>9. Sending(z) BY <1>3, <2>1, <2>2, <2>3, <2>4, <2>5, <2>6, <2>7, <2>8, SendOn
  <2> QED BY <2>9 DEF z
<1>7. CASE ~w.ok
  <2>1. /\ DOMAIN z = TryFields /\ z.op = y.op /\ z.e0 = y.e0 /\ z.flags = y.flags /\ z.mem = y.mem
        /\ z.len1 = y.len1 /\ z.len2 = y.len2 /\ z.s1 = y.s1 /\ z.s2 = w.s /\ z.res = "PF"
    BY <1>1, <1>7 DEF TryFields
  <2> HIDE DEF z
  <2>2. Sending(z) BY <1>1, <1>5, <1>7, <2>1, SendFails
  <2> QED BY <2>2 DEF z
<1> QED BY <1>6, <1>7

\* The byte read is put, or it has no place and is not read.
LEMMA DepositSends ==
    ASSUME begun \in Starts, op \in Sends, NEW y, Sending(y), y.res = "RUN",
           y.len1 # 0, op = "MOVSRJ" => y.len1 = y.len2, NEW gone,
           NEW src, src = xildb(y.mem, gone, y.s1), src.ok,
           NEW c, c = FirstOf(y.mem, LeftAc(y)), c \in Byte, NEW h,
           y.len2 # 1 => h \in {"RUN", "PI"},
           y.len2 = 1 => h = IF op # "MOVSRJ" /\ y.len1 > 1 THEN "TRUNC" ELSE "WON"
    PROVE  Sending(Deposit(y, gone, src.s, c, y.flags, h))
<1> DEFINE a == LeftAc(y)
           z == Deposit(y, gone, src.s, c, y.flags, h)
           w == xidpb(y.mem, gone, y.s2, c)
           p == Place(a.bp2, 1)
<1>1. /\ StringAc(a) /\ a.len1 = y.len1 /\ a.len2 = y.len2 /\ Proper(a.bp1) /\ Proper(a.bp2)
      /\ a.bp1.ind = y.s1.bp.ind /\ a.bp2.ind = y.s2.bp.ind
      /\ Position(a.bp1) = Spot(y.s1) /\ Position(a.bp2) = Spot(y.s2)
      /\ y.len1 \in Nat /\ y.len2 \in Nat /\ y.len2 >= 1 /\ DOMAIN y = TryFields
      /\ y.mem \in Memories /\ y.e0 = begun.e0
      /\ Live(y.s1, y.mem) /\ Live(y.s2, y.mem) /\ Safe(y.s1)
      /\ Keepable(y.s1) /\ Keepable(y.s2) /\ Spot(y.s1) \in Int /\ Spot(y.s2) \in Int
      /\ Place(a.bp2, 1)[1] \in DOMAIN y.mem
  BY SendingHas
<1>2. /\ w.ok => z = [y EXCEPT !.mem = w.mem, !.s1 = src.s, !.s2 = w.s, !.len1 = @ - 1,
                              !.len2 = @ - 1, !.flags = y.flags, !.res = h]
      /\ ~w.ok => z = [y EXCEPT !.s1 = xdecbp(src.s), !.s2 = w.s, !.flags = y.flags, !.res = "PF"]
  BY DEF Deposit
<1>3. Sane(a.bp1) /\ Sane(a.bp2) BY <1>1 DEF Proper
<1> HIDE DEF a, z
<1>4. /\ Keepable(src.s) /\ src.s.bp.ind = y.s1.bp.ind /\ Live(src.s, y.mem) /\ Spot(src.s) = Spot(y.s1) + 1
      /\ src.s.y = Place(a.bp1, 1)[1]
  BY <1>1, <1>3, ReadFact
<1>5. Safe(src.s)
  <2>1. 1 \in 1..a.len1 BY <1>1
  <2>2. Place(a.bp1, 1)[1] \in Addr /\ Place(a.bp1, 1)[1] \notin DestWords BY <1>1, <2>1, Placed
  <2> QED BY <1>4, <2>2 DEF Safe
<1>6. /\ Keepable(w.s) /\ w.s.bp.ind = y.s2.bp.ind
      /\ w.ok => /\ Live(w.s, w.mem) /\ Spot(w.s) = Spot(y.s2) + 1 /\ w.mem = WithByte(y.mem, p, c)
      /\ ~w.ok => Spot(w.s) = Spot(y.s2)
  <2>1. PICK v : v = xidpb(y.mem, gone, y.s2, c) OBVIOUS
  <2>2. /\ Keepable(v.s) /\ v.s.bp.ind = y.s2.bp.ind
        /\ v.ok => /\ Live(v.s, v.mem) /\ Spot(v.s) = Spot(y.s2) + 1
                   /\ v.mem = WithByte(y.mem, Place(LeftAc(y).bp2, 1), c)
        /\ ~v.ok => Spot(v.s) = Spot(y.s2)
    BY <2>1, PutFact
  <2>3. w = v BY <2>1
  <2> HIDE DEF w
  <2> QED BY <2>2, <2>3 DEF p, a
<1>7. Takes(y) = 1
  <2>1. CASE op = "MOVSRJ" BY <1>1, <2>1 DEF Takes
  <2>2. CASE op # "MOVSRJ" BY <2>2 DEF Takes
  <2> QED BY <2>1, <2>2
<1> HIDE DEF w, p
<1>8. CASE w.ok
  <2>1. z = [y EXCEPT !.mem = w.mem, !.s1 = src.s, !.s2 = w.s, !.len1 = y.len1 - 1,
                      !.len2 = y.len2 - 1, !.flags = y.flags, !.res = h]
    BY <1>1, <1>2, <1>8
  <2>2. /\ DOMAIN z = TryFields /\ z.op = y.op /\ z.e0 = y.e0 /\ z.flags = y.flags /\ z.mem = w.mem
        /\ z.len1 = y.len1 - 1 /\ z.len2 = y.len2 - 1 /\ z.s1 = src.s /\ z.s2 = w.s /\ z.res = h
    BY <1>1, <2>1 DEF TryFields
  <2>3. z.len2 # 0 => z.res \in {"RUN", "PI"} BY <1>1, <2>2
  <2>4. z.len2 = 0 => z.res = IF op # "MOVSRJ" /\ z.len1 > 0 THEN "TRUNC" ELSE "WON"
    <3>1. z.len2 = 0 => z.res = IF op # "MOVSRJ" /\ y.len1 > 1 THEN "TRUNC" ELSE "WON"
      BY <1>1, <2>2
    <3>2. z.len1 > 0 <=> y.len1 > 1 BY <1>1, <2>2
    <3> QED BY <3>1, <3>2
  <2>5. z.mem = WithByte(y.mem, Place(LeftAc(y).bp2, 1), c) BY <1>6, <1>8, <2>2 DEF p, a
  <2>6. z.len1 = y.len1 - Takes(y) /\ Spot(z.s1) = Spot(y.s1) + Takes(y) BY <1>4, <1>7, <2>2
  <2>7. Sending(z) BY <1>4, <1>5, <1>6, <1>8, <2>2, <2>3, <2>4, <2>5, <2>6, SendOn
  <2> QED BY <2>7 DEF z
<1>9. CASE ~w.ok
  <2>1. z = [y EXCEPT !.s1 = xdecbp(src.s), !.s2 = w.s, !.flags = y.flags, !.res = "PF"] BY <1>2, <1>9
  <2>2. Keepable(xdecbp(src.s)) /\ Spot(xdecbp(src.s)) = Spot(y.s1) /\ xdecbp(src.s).bp.ind = y.s1.bp.ind
    BY <1>1, UnreadFact
  <2> DEFINE back == xdecbp(src.s)
  <2> HIDE DEF back
  <2>3. /\ DOMAIN z = TryFields /\ z.op = y.op /\ z.e0 = y.e0 /\ z.flags = y.flags /\ z.mem = y.mem
        /\ z.len1 = y.len1 /\ z.len2 = y.len2 /\ z.s1 = back /\ z.s2 = w.s /\ z.res = "PF"
    BY <1>1, <2>1 DEF TryFields, back
  <2>4. Sending(z) BY <1>6, <1>9, <2>2, <2>3, SendFails DEF back
  <2> QED BY <2>4 DEF z
<1> QED BY <1>8, <1>9

\* A turn of MOVSLJ or MOVSO.
LEMMA SendTurn ==
    ASSUME begun \in Starts, op \in {"MOVSLJ", "MOVSO"}, NEW y, Sending(y), y.res = "RUN",
           NEW gone, NEW brk \in BOOLEAN
    PROVE  Sending(MoveStep(y, gone, brk))
<1> DEFINE z == MoveStep(y, gone, brk)
           a == LeftAc(y)
           src == xildb(y.mem, gone, y.s1)
           b == src.b + (IF y.op = "MOVSO" THEN Offset ELSE 0)
           w == xidpb(y.mem, gone, y.s2, y.e0[1])
           both == y.len1 = y.len2
           h == IF y.len2 = 1 THEN IF both THEN "WON" ELSE "TRUNC" ELSE IF brk THEN "PI" ELSE "RUN"
           h0 == IF y.len2 = 1 THEN "WON" ELSE "RUN"
<1>0. op \in Sends /\ op # "MOVSRJ" /\ y.op = op BY DEF Sends, Sending, OnStrings
<1>1. /\ StringAc(a) /\ a.len1 = y.len1 /\ a.len2 = y.len2 /\ Proper(a.bp1) /\ Proper(a.bp2)
      /\ a.bp1.ind = y.s1.bp.ind /\ a.bp2.ind = y.s2.bp.ind
      /\ Position(a.bp1) = Spot(y.s1) /\ Position(a.bp2) = Spot(y.s2)
      /\ y.len1 \in Nat /\ y.len2 \in Nat /\ y.len2 >= 1 /\ DOMAIN y = TryFields
      /\ y.mem \in Memories /\ y.e0 = begun.e0
      /\ Live(y.s1, y.mem) /\ Live(y.s2, y.mem) /\ Safe(y.s1)
      /\ Keepable(y.s1) /\ Keepable(y.s2) /\ Spot(y.s1) \in Int /\ Spot(y.s2) \in Int
      /\ Place(a.bp2, 1)[1] \in DOMAIN y.mem
  BY <1>0, SendingHas
<1>2. CASE y.len1 = 0
  <2>1. z = Pad(y, gone, FALSE) BY <1>2 DEF MoveStep
  <2>2. /\ w.ok => z = [y EXCEPT !.mem = w.mem, !.s2 = w.s, !.len2 = y.len2 - 1, !.res = h0]
        /\ ~w.ok => z = [y EXCEPT !.s2 = w.s, !.res = "PF"]
    BY <1>1, <2>1 DEF Pad, Later
  <2>3. h0 \in {"RUN", "WON"} /\ (y.len2 = 1 => h0 = "WON") /\ (y.len2 # 1 => h0 \in {"RUN", "PI"})
    OBVIOUS
  <2>4. PICK v : v = w OBVIOUS
  <2>5. v = xidpb(y.mem, gone, y.s2, y.e0[1]) BY <2>4
  <2> HIDE DEF w, z, h0
  <2>6. PICK left : left = y.len2 - 1 OBVIOUS
  <2>7. z = IF v.ok THEN [y EXCEPT !.mem = v.mem, !.s2 = v.s, !.len2 = left, !.res = h0]
            ELSE [y EXCEPT !.s2 = v.s, !.res = "PF"]
    BY <2>2, <2>4, <2>6
  <2>8. Sending(IF v.ok THEN [y EXCEPT !.mem = v.mem, !.s2 = v.s, !.len2 = left, !.res = h0]
                ELSE [y EXCEPT !.s2 = v.s, !.res = "PF"])
    BY <1>0, <1>2, <2>3, <2>5, <2>6, PadSends
  <2>9. Sending(z) BY <2>7, <2>8
  <2> QED BY <2>9 DEF z
<1>3. Sane(a.bp1) BY <1>1 DEF Proper
<1> HIDE DEF a
<1>4. /\ src.ok \in BOOLEAN /\ Keepable(src.s) /\ src.s.bp.ind = y.s1.bp.ind
      /\ src.ok => /\ Spot(src.s) = Spot(y.s1) + 1
                   /\ src.b = y.mem[Place(a.bp1, 1)[1]][Place(a.bp1, 1)[2]]
      /\ ~src.ok => Spot(src.s) = Spot(y.s1)
  BY <1>1, <1>3, ReadFact
<1>5. y.len1 # 0 => y.mem[Place(a.bp1, 1)[1]][Place(a.bp1, 1)[2]] \in Byte
  <2>1. SUFFICES ASSUME y.len1 # 0 PROVE y.mem[Place(a.bp1, 1)[1]][Place(a.bp1, 1)[2]] \in Byte OBVIOUS
  <2>2. 1 \in 1..a.len1 BY <1>1, <2>1
  <2>3. Place(a.bp1, 1)[1] \in Addr BY <1>0, <1>1, <2>2, Placed
  <2>4. Place(a.bp1, 1)[2] \in 1..BytesPerWord BY <1>3, PlaceByte
  <2> QED BY <1>1, <2>3, <2>4 DEF Memories
<1>6. CASE y.len1 # 0 /\ ~src.ok
  <2>1. z = [y EXCEPT !.s1 = src.s, !.res = "PF"] BY <1>6 DEF MoveStep
  <2> HIDE DEF src, z
  <2>2. /\ DOMAIN z = TryFields /\ z.op = y.op /\ z.e0 = y.e0 /\ z.flags = y.flags /\ z.mem = y.mem
        /\ z.len1 = y.len1 /\ z.len2 = y.len2 /\ z.s1 = src.s /\ z.s2 = y.s2 /\ z.res = "PF"
    BY <1>1, <2>1 DEF TryFields
  <2>3. Sending(z) BY <1>0, <1>1, <1>4, <1>6, <2>2, SendFails
  <2> QED BY <2>3 DEF z
<1>7. CASE y.len1 # 0 /\ src.ok
  <2>1. b = FirstOf(y.mem, a)
    <3>1. src.b = SourceAt(y.mem, a.bp1, 1) BY <1>4, <1>7 DEF SourceAt
    <3>2. 1 <= a.len1 BY <1>1, <1>7
    <3>3. FirstOf(y.mem, a) = SourceAt(y.mem, a.bp1, 1) + Off BY <1>0, <3>2 DEF FirstOf, LeftText, LeftFrom
    <3>4. b = src.b + Off BY <1>0 DEF Off
    <3> QED BY <3>1, <3>3, <3>4
  <2>2. CASE b \notin Byte
    <3>1. z = [y EXCEPT !.s1 = src.s, !.len1 = y.len1 - 1, !.res = "TRUNC"]
      BY <1>1, <1>7, <2>2 DEF MoveStep
    <3> HIDE DEF src, z, b
    <3>2. /\ DOMAIN z = TryFields /\ z.op = y.op /\ z.e0 = y.e0 /\ z.flags = y.flags /\ z.mem = y.mem
          /\ z.len1 = y.len1 - 1 /\ z.len2 = y.len2 /\ z.s1 = src.s /\ z.s2 = y.s2 /\ z.res = "TRUNC"
      BY <1>1, <3>1 DEF TryFields
    <3>3. FirstOf(y.mem, LeftAc(y)) \notin Byte BY <2>1, <2>2 DEF a
    <3>4. op = "MOVSO"
      <4>1. src.b \in Byte BY <1>4, <1>5, <1>7
      <4>2. src.b \in Int BY <4>1, StringAssumption DEF Byte
      <4>3. op # "MOVSO" => b = src.b BY <1>0, <4>2 DEF b
      <4> QED BY <2>2, <4>1, <4>3
    <3>5. Sending(z) BY <1>4, <1>7, <3>2, <3>3, <3>4, SendStops
    <3> QED BY <3>5 DEF z
  <2>3. CASE b \in Byte
    <3>1. z = Deposit(y, gone, src.s, b, y.flags, h) BY <1>7, <2>3 DEF MoveStep
    <3>2. y.len2 # 1 => h \in {"RUN", "PI"} OBVIOUS
    <3>3. y.len2 = 1 => h = IF op # "MOVSRJ" /\ y.len1 > 1 THEN "TRUNC" ELSE "WON"
      <4>1. y.len2 = 1 => (both <=> ~(y.len1 > 1)) BY <1>1, <1>7
      <4>2. y.len2 = 1 => h = IF both THEN "WON" ELSE "TRUNC" OBVIOUS
      <4> QED BY <1>0, <4>1, <4>2, Zenon
    <3>4. b = FirstOf(y.mem, LeftAc(y)) BY <2>1 DEF a
    <3>5. PICK r : r = src OBVIOUS
    <3>6. r = xildb(y.mem, gone, y.s1) /\ r.ok BY <1>7, <3>5
    <3> HIDE DEF src, h, b, z
    <3>7. Sending(Deposit(y, gone, r.s, b, y.flags, h))
      BY <1>0, <1>7, <2>3, <3>2, <3>3, <3>4, <3>6, DepositSends
    <3>8. Sending(z) BY <3>1, <3>5, <3>7
    <3> QED BY <3>8 DEF z
  <2> QED BY <2>2, <2>3
<1> QED BY <1>2, <1>4, <1>6, <1>7

\* A turn of MOVSRJ.
LEMMA RightTurn ==
    ASSUME begun \in Starts, op = "MOVSRJ", NEW y, Sending(y), y.res = "RUN",
           NEW gone, NEW brk \in BOOLEAN
    PROVE  Sending(RightStep(y, gone, brk))
<1> DEFINE z == RightStep(y, gone, brk)
           a == LeftAc(y)
           src == xildb(y.mem, gone, y.s1)
           w == xidpb(y.mem, gone, y.s2, y.e0[1])
           h == IF y.len2 = 1 THEN "WON" ELSE IF brk THEN "PI" ELSE "RUN"
           h0 == IF y.len2 = 1 THEN "WON" ELSE IF brk /\ y.len2 - 1 # y.len1 THEN "PI" ELSE "RUN"
<1>0. op \in Sends /\ y.op = op /\ y.len1 <= y.len2 BY DEF Sends, Sending, OnStrings
<1>1. /\ StringAc(a) /\ a.len1 = y.len1 /\ a.len2 = y.len2 /\ Proper(a.bp1) /\ Proper(a.bp2)
      /\ a.bp1.ind = y.s1.bp.ind /\ a.bp2.ind = y.s2.bp.ind
      /\ Position(a.bp1) = Spot(y.s1) /\ Position(a.bp2) = Spot(y.s2)
      /\ y.len1 \in Nat /\ y.len2 \in Nat /\ y.len2 >= 1 /\ DOMAIN y = TryFields
      /\ y.mem \in Memories /\ y.e0 = begun.e0
      /\ Live(y.s1, y.mem) /\ Live(y.s2, y.mem) /\ Safe(y.s1)
      /\ Keepable(y.s1) /\ Keepable(y.s2) /\ Spot(y.s1) \in Int /\ Spot(y.s2) \in Int
      /\ Place(a.bp2, 1)[1] \in DOMAIN y.mem
  BY <1>0, SendingHas
<1>2. CASE y.len1 < y.len2
  <2> DEFINE pad == Pad(y, gone, brk)
  <2>1. z = IF pad.len2 = y.len1 /\ pad.res = "PI" THEN [pad EXCEPT !.res = "RUN"] ELSE pad
    BY <1>2 DEF RightStep
  <2>2. /\ w.ok => pad = [y EXCEPT !.mem = w.mem, !.s2 = w.s, !.len2 = y.len2 - 1, !.res = h]
        /\ ~w.ok => pad = [y EXCEPT !.s2 = w.s, !.res = "PF"]
    BY <1>1 DEF Pad, Later
  <2> HIDE DEF pad
  <2>3. ASSUME w.ok PROVE z = [y EXCEPT !.mem = w.mem, !.s2 = w.s, !.len2 = y.len2 - 1, !.res = h0]
    <3> HIDE DEF w, z
    <3>1. pad = [y EXCEPT !.mem = w.mem, !.s2 = w.s, !.len2 = y.len2 - 1, !.res = h] BY <2>2, <2>3
    <3>2. pad.len2 = y.len2 - 1 /\ pad.res = h BY <1>1, <3>1 DEF TryFields
    <3>3. CASE pad.len2 = y.len1 /\ pad.res = "PI"
      <4>1. z = [pad EXCEPT !.res = "RUN"] BY <2>1, <3>3
      <4>2. [pad EXCEPT !.res = "RUN"] = [y EXCEPT !.mem = w.mem, !.s2 = w.s, !.len2 = y.len2 - 1, !.res = "RUN"]
        BY <1>1, <3>1 DEF TryFields
      <4>3. h0 = "RUN" BY <3>2, <3>3
      <4> QED BY <4>1, <4>2, <4>3
    <3>4. CASE ~(pad.len2 = y.len1 /\ pad.res = "PI")
      <4>1. z = pad BY <2>1, <3>4
      <4>2. h0 = h BY <3>2, <3>4
      <4> QED BY <3>1, <4>1, <4>2
    <3> QED BY <3>3, <3>4
  <2>4. ASSUME ~w.ok PROVE z = [y EXCEPT !.s2 = w.s, !.res = "PF"]
    <3> HIDE DEF w, z
    <3>1. pad = [y EXCEPT !.s2 = w.s, !.res = "PF"] BY <2>2, <2>4
    <3>2. pad.res = "PF" BY <1>1, <3>1 DEF TryFields
    <3> QED BY <2>1, <3>1, <3>2
  <2>5. (y.len2 = 1 => h0 = "WON") /\ (y.len2 # 1 => h0 \in {"RUN", "PI"}) OBVIOUS
  <2>6. PICK v : v = w OBVIOUS
  <2>7. v = xidpb(y.mem, gone, y.s2, y.e0[1]) BY <2>6
  <2> HIDE DEF w, z, h0
  <2>8. PICK left : left = y.len2 - 1 OBVIOUS
  <2>9. z = IF v.ok THEN [y EXCEPT !.mem = v.mem, !.s2 = v.s, !.len2 = left, !.res = h0]
            ELSE [y EXCEPT !.s2 = v.s, !.res = "PF"]
    BY <2>3, <2>4, <2>6, <2>8
  <2>10. Sending(IF v.ok THEN [y EXCEPT !.mem = v.mem, !.s2 = v.s, !.len2 = left, !.res = h0]
                 ELSE [y EXCEPT !.s2 = v.s, !.res = "PF"])
    BY <1>0, <1>2, <2>5, <2>7, <2>8, PadSends
  <2>11. Sending(z) BY <2>9, <2>10
  <2> QED BY <2>11 DEF z
<1>3. Sane(a.bp1) BY <1>1 DEF Proper
<1> HIDE DEF a
<1>4. /\ src.ok \in BOOLEAN /\ Keepable(src.s) /\ src.s.bp.ind = y.s1.bp.ind
      /\ src.ok => src.b = y.mem[Place(a.bp1, 1)[1]][Place(a.bp1, 1)[2]]
      /\ ~src.ok => Spot(src.s) = Spot(y.s1)
  BY <1>1, <1>3, ReadFact
<1>5. CASE ~(y.len1 < y.len2) /\ ~src.ok
  <2>1. z = [y EXCEPT !.s1 = src.s, !.res = "PF"] BY <1>5 DEF RightStep
  <2> HIDE DEF src, z
  <2>2. /\ DOMAIN z = TryFields /\ z.op = y.op /\ z.e0 = y.e0 /\ z.flags = y.flags /\ z.mem = y.mem
        /\ z.len1 = y.len1 /\ z.len2 = y.len2 /\ z.s1 = src.s /\ z.s2 = y.s2 /\ z.res = "PF"
    BY <1>1, <2>1 DEF TryFields
  <2>3. Sending(z) BY <1>0, <1>1, <1>4, <1>5, <2>2, SendFails
  <2> QED BY <2>3 DEF z
<1>6. CASE ~(y.len1 < y.len2) /\ src.ok
  <2>0. y.len1 = y.len2 /\ y.len1 # 0 BY <1>0, <1>1, <1>6
  <2>1. z = Deposit(y, gone, src.s, src.b, y.flags, h) BY <1>6 DEF RightStep, Later
  <2>2. src.b = SourceAt(y.mem, a.bp1, 1) BY <1>4, <1>6 DEF SourceAt
  <2>3. src.b = FirstOf(y.mem, LeftAc(y))
    <3>1. FirstOf(y.mem, a) = RightText(y.mem, a)[1] BY DEF FirstOf
    <3>2. ~(1 <= a.len2 - a.len1 \/ 1 > a.len2) BY <1>1, <2>0
    <3>3. 1 + (a.len1 - a.len2) = 1 BY <1>1, <2>0
    <3>4. RightText(y.mem, a)[1] = SourceAt(y.mem, a.bp1, 1) BY <3>2, <3>3 DEF RightText, RightFrom
    <3> QED BY <2>2, <3>1, <3>4 DEF a
  <2>4. src.b \in Byte
    <3>1. 1 \in 1..a.len1 BY <1>1, <2>0
    <3>2. Place(a.bp1, 1)[1] \in Addr BY <1>0, <1>1, <3>1, Placed
    <3>3. Place(a.bp1, 1)[2] \in 1..BytesPerWord BY <1>1, PlaceByte DEF Proper
    <3> QED BY <1>1, <2>2, <3>2, <3>3 DEF Memories, SourceAt
  <2>5. (y.len2 # 1 => h \in {"RUN", "PI"})
        /\ (y.len2 = 1 => h = IF op # "MOVSRJ" /\ y.len1 > 1 THEN "TRUNC" ELSE "WON")
    OBVIOUS
  <2>6. PICK r : r = src OBVIOUS
  <2>7. r = xildb(y.mem, gone, y.s1) /\ r.ok BY <1>6, <2>6
  <2> HIDE DEF src, h, z
  <2>8. Sending(Deposit(y, gone, r.s, r.b, y.flags, h))
    BY <1>0, <2>0, <2>3, <2>4, <2>5, <2>6, <2>7, DepositSends
  <2>9. Sending(z) BY <2>1, <2>6, <2>8
  <2> QED BY <2>9 DEF z
<1> QED BY <1>2, <1>4, <1>5, <1>6

-----------------------------------------------------------------------------
(* From try to try                                                         *)

\* Passing over bytes.
LEMMA PassFact ==
    ASSUME NEW m, NEW gone, NEW s, Live(s, m), s.vp = FALSE, NEW n \in Nat, n > 0
    PROVE  LET r == xadjbp(s, gone, n)
           IN /\ r.ok \in BOOLEAN /\ Keepable(r.s) /\ r.s.bp.ind = s.bp.ind /\ Spot(r.s) = Spot(s) + n
              /\ r.ok => Live(r.s, m) /\ r.s.vp = FALSE
<1> DEFINE over == n - s.p - 1
           q == over \div BytesPerWord
           e == over % BytesPerWord
           yn == q + 1
           left == [s EXCEPT !.p = BytesPerWord - 1 - e, !.y = s.y + yn, !.ycnt = s.ycnt + yn]
           bp == xbpupdate(left)
           down == [s EXCEPT !.p = s.p - n]
           back == [left EXCEPT !.bp = bp, !.ycnt = 0]
           r == xadjbp(s, gone, n)
<1>1. /\ BytesPerWord \in Nat \ {0} /\ Keepable(s) /\ DOMAIN s = CleanFields /\ s.p \in 0..BytesPerWord
      /\ s.bp.y \in Int /\ s.ycnt \in Int /\ Own(s) \in Int /\ DOMAIN s.bp = PtrFields
      /\ s.y = (IF s.bp.ind THEN Chain[Own(s)] ELSE Own(s))
      /\ s.bp.fmt = "OWG" => ~s.bp.ind
  BY WordAssumption DEF Live, Keepable, Own
<1>2. Spot(s) = Own(s) * BytesPerWord + (BytesPerWord - s.p) /\ Own(s) * BytesPerWord \in Int
  BY <1>1 DEF Spot
<1>3. CASE n <= s.p
  <2>1. r.ok = TRUE /\ r.s = down BY <1>3 DEF xadjbp
  <2>2. /\ DOMAIN down = CleanFields /\ down.p = s.p - n /\ down.bp = s.bp /\ down.ycnt = s.ycnt
        /\ down.y = s.y /\ down.vp = FALSE
    BY <1>1 DEF CleanFields
  <2> HIDE DEF r, down
  <2>3. Own(down) = Own(s) BY <2>2 DEF Own
  <2>4. Spot(down) = Spot(s) + n BY <1>1, <1>2, <2>2, <2>3 DEF Spot
  <2>5. Keepable(down) BY <1>1, <1>3, <2>2, <2>3 DEF Keepable
  <2>6. Live(down, m) BY <1>1, <2>2, <2>3, <2>5 DEF Live
  <2> QED BY <2>1, <2>2, <2>4, <2>5, <2>6 DEF r
<1>4. CASE ~(n <= s.p)
  <2>1. over \in Nat BY <1>1, <1>4
  <2>2. q \in Int /\ e \in 0..(BytesPerWord - 1) /\ over = BytesPerWord * q + e
    <3> HIDE DEF over
    <3> QED BY <1>1, <2>1
  <2>3. n = over + s.p + 1 /\ over \in Int BY <1>1, <2>1
  <2> HIDE DEF over, q, e
  <2>4. yn \in Int /\ BytesPerWord - 1 - e \in 0..BytesPerWord BY <1>1, <2>2
  <2>5. (Own(s) + yn) * BytesPerWord + (BytesPerWord - (BytesPerWord - 1 - e)) = Spot(s) + n
    <3>0. (Own(s) + (q + 1)) * BytesPerWord = Own(s) * BytesPerWord + q * BytesPerWord + BytesPerWord
      <4> DEFINE o == Own(s)
      <4>1. o \in Int /\ q \in Int /\ BytesPerWord \in Int BY <1>1, <2>2
      <4> HIDE DEF o
      <4>2. (o + (q + 1)) * BytesPerWord = o * BytesPerWord + q * BytesPerWord + BytesPerWord BY <4>1
      <4> QED BY <4>2 DEF o
    <3>1. (Own(s) + yn) * BytesPerWord = Own(s) * BytesPerWord + q * BytesPerWord + BytesPerWord
      BY <3>0
    <3>2. BytesPerWord * q = q * BytesPerWord /\ q * BytesPerWord \in Int BY <1>1, <2>2
    <3> DEFINE at == (Own(s) + yn) * BytesPerWord
               base == Own(s) * BytesPerWord
               over1 == q * BytesPerWord
    <3>3. /\ at = base + over1 + BytesPerWord /\ base \in Int /\ over1 \in Int /\ over = over1 + e
          /\ Spot(s) = base + (BytesPerWord - s.p)
      BY <1>2, <2>2, <3>1, <3>2
    <3> HIDE DEF at, base, over1
    <3>4. at + (BytesPerWord - (BytesPerWord - 1 - e)) = Spot(s) + n BY <1>1, <2>2, <2>3, <3>3
    <3> QED BY <3>4 DEF at
  <2>6. /\ DOMAIN left = CleanFields /\ left.p = BytesPerWord - 1 - e /\ left.bp = s.bp
        /\ left.ycnt = s.ycnt + yn /\ left.y = s.y + yn /\ left.vp = FALSE
    BY <1>1 DEF CleanFields
  <2>7. /\ r = IF ~s.bp.ind THEN [ok |-> TRUE, s |-> left]
               ELSE IF Reachable(bp, gone) THEN [ok |-> TRUE, s |-> Clean(bp)]
               ELSE [ok |-> FALSE, s |-> back]
    BY <1>4 DEF xadjbp, over, q, e
  <2> HIDE DEF r, left
  <2>8. Own(left) = Own(s) + yn
    <3> HIDE DEF yn
    <3> QED BY <1>1, <2>4, <2>6 DEF Own
  <2>9. Spot(left) = Spot(s) + n BY <2>5, <2>6, <2>8 DEF Spot
  <2>10. Keepable(left)
    <3>1. s.bp.fmt = "OWG" => s.y = Own(s) BY <1>1
    <3> HIDE DEF yn
    <3> QED BY <1>1, <2>4, <2>6, <2>8, <3>1 DEF Keepable
  <2>11. CASE ~s.bp.ind
    <3>1. r.ok = TRUE /\ r.s = left BY <2>7, <2>11
    <3>2. left.y = Own(left) BY <1>1, <2>6, <2>8, <2>11
    <3>3. Live(left, m) BY <2>6, <2>10, <2>11, <3>2 DEF Live
    <3> QED BY <2>6, <2>9, <2>10, <3>1, <3>3 DEF r
  <2>12. Proper(bp) /\ bp.ind = s.bp.ind /\ Position(bp) = Spot(s) + n
    BY <2>6, <2>9, <2>10, UpdateFact
  <2>13. CASE s.bp.ind /\ Reachable(bp, gone)
    <3> HIDE DEF bp
    <3>1. r.ok = TRUE /\ r.s = Clean(bp) BY <2>7, <2>13
    <3>2. /\ Live(Clean(bp), m) /\ Clean(bp).bp.ind = bp.ind /\ Spot(Clean(bp)) = Position(bp)
          /\ Clean(bp).vp = FALSE
      BY <2>12, CleanFact
    <3>3. Keepable(Clean(bp)) BY <3>2 DEF Live
    <3> QED BY <2>12, <3>1, <3>2, <3>3 DEF r
  <2>14. CASE s.bp.ind /\ ~Reachable(bp, gone)
    <3>0. bp.fmt # "OWG" /\ bp.y \in Int /\ bp.p = left.p
      <4>1. bp.fmt # "OWG" /\ bp.p = left.p BY DEF xbpupdate
      <4> QED BY <2>12, <4>1 DEF Proper, Sane
    <3> HIDE DEF bp
    <3>1. r.ok = FALSE /\ r.s = back BY <2>7, <2>14
    <3>2. DOMAIN back = CleanFields /\ back.bp = bp /\ back.ycnt = 0 /\ back.p = left.p
      BY <2>6 DEF CleanFields
    <3> HIDE DEF back
    <3>3. Own(back) = bp.y BY <3>0, <3>2 DEF Own
    <3>4. Spot(back) = Position(bp)
      <4>1. Position(bp) = bp.y * BytesPerWord + (BytesPerWord - bp.p) BY <2>12, PositionFact DEF Proper
      <4> QED BY <3>0, <3>2, <3>3, <4>1 DEF Spot
    <3>5. Keepable(back) BY <2>4, <2>6, <2>12, <3>0, <3>2, <3>3 DEF Keepable, Proper
    <3> QED BY <2>12, <3>1, <3>2, <3>4, <3>5 DEF r
  <2> QED BY <2>11, <2>13, <2>14
<1> QED BY <1>1, <1>3, <1>4

\* What holds of a move between its steps.
MoveAt(m, a, y, how) ==
    /\ y = Idle /\ how = "" => /\ m \in Memories /\ StringAc(a)
                               /\ Effect(begun, m, a) = MoveGoal
                               /\ a.len2 = 0 => a = begun.ac
    /\ y # Idle => how = "" /\ y.mem = m /\ Sending(y) /\ StringAc(a)
    /\ how # "" => y = Idle /\ Reached(m, a, how)

\* What the ACs of a string instruction say, between tries.
LEMMA StringAcFact ==
    ASSUME begun \in Starts, op \in Strings, NEW a, StringAc(a)
    PROVE  /\ a.len1 \in Nat /\ a.len2 \in Nat /\ Proper(a.bp1) /\ Proper(a.bp2)
           /\ Position(a.bp1) \in Int /\ Position(a.bp2) \in Int
<1>1. a.len1 \in Nat /\ a.len2 \in Nat /\ Proper(a.bp1) /\ Proper(a.bp2) BY DEF StringAc, Shifted
<1>2. Sane(a.bp1) /\ Sane(a.bp2) BY <1>1 DEF Proper
<1> QED BY <1>1, <1>2, PositionFact

\* Nothing to move, or nowhere to move it to.
LEMMA NothingToMove ==
    ASSUME begun \in Starts, op \in Sends, mem \in Memories, StringAc(ac),
           Effect(begun, mem, ac) = MoveGoal, ac.len2 = 0, ac = begun.ac
    PROVE  Reached(mem, ac, IF ac.len1 = 0 \/ op = "MOVSRJ" THEN "WON" ELSE "TRUNC")
<1> DEFINE how == IF ac.len1 = 0 \/ op = "MOVSRJ" THEN "WON" ELSE "TRUNC"
<1>0. op \in Strings BY DEF Sends, Strings
<1>2. ac.len1 \in Nat /\ ac.len2 \in Nat /\ Position(ac.bp1) \in Int /\ Position(ac.bp2) \in Int
  BY <1>0, StringAcFact
<1>3. Asked(mem, ac) = MoveGoal BY <1>2, AskedIs
<1>4. CASE op = "MOVSRJ" /\ ac.len1 > 0
  <2>1. MoveGoal = Sent(mem, ac, RightText(mem, ac), ac.len2, ac.len1, "WON")
    BY <1>3, <1>4 DEF Asked, Outcome
  <2>2. MoveGoal.len1 = ac.len1 - ac.len1 BY <2>1 DEF Sent
  <2>3. Seen(mem, ac, how).len1 = ac.len1 BY DEF Seen
  <2>4. Missed BY <1>4 DEF Missed
  <2> QED BY <1>2, <1>4, <2>2, <2>3, <2>4 DEF Reached
<1>5. CASE ~(op = "MOVSRJ" /\ ac.len1 > 0)
  <2>1. op = "MOVSRJ" => ac.len1 = 0 BY <1>2, <1>5
  <2>2. Asked(mem, ac) = Seen(mem, ac, IF op = "MOVSRJ" THEN "WON" ELSE HowLeft(ac))
    BY <1>2, <2>1, AskedNone
  <2>3. (IF op = "MOVSRJ" THEN "WON" ELSE HowLeft(ac)) = how
    <3>1. HowLeft(ac) = IF ac.len1 > 0 THEN "TRUNC" ELSE "WON" BY <1>2 DEF HowLeft
    <3>2. ac.len1 > 0 <=> ~(ac.len1 = 0) BY <1>2
    <3> QED BY <3>1, <3>2
  <2> HIDE DEF how
  <2>4. Seen(mem, ac, how) = MoveGoal BY <1>3, <2>2, <2>3
  <2>5. MoveGoal.len2 = 0 BY <2>4 DEF Seen
  <2>6. ~Missed BY <1>5, <2>5 DEF Missed
  <2>7. Reached(mem, ac, how) BY <2>4, <2>6 DEF Reached
  <2> QED BY <2>7 DEF how
<1> QED BY <1>4, <1>5

\* A try begins where the last one stopped.
LEMMA SendFresh ==
    ASSUME begun \in Starts, op \in Sends, mem \in Memories, StringAc(ac),
           Effect(begun, mem, ac) = MoveGoal, ac.len2 > 0
    PROVE  LET y == Fresh(ac.flags, 0)
           IN /\ OnStrings(y) /\ y.mem = mem /\ y.res = "RUN" /\ DOMAIN y = TryFields
              /\ y.len1 = ac.len1 /\ y.len2 = ac.len2 /\ y.s1.vp = FALSE
              /\ Live(y.s1, mem) /\ Live(y.s2, mem)
              /\ y.len1 \in Nat /\ y.len2 \in Nat /\ y.len2 >= 1 /\ y.mem \in Memories
              /\ Asked(mem, LeftAc(y)) = MoveGoal
              /\ op # "MOVSRJ" \/ y.len1 <= y.len2 => Sending(y)
<1> DEFINE y == Fresh(ac.flags, 0)
           b == LeftAc(y)
<1>0. op \in Strings BY DEF Sends, Strings
<1>2. /\ ac.len1 \in Nat /\ ac.len2 \in Nat BY <1>0, StringAcFact
<1>3. /\ OnStrings(y) /\ y.mem = mem /\ y.res = "RUN" /\ DOMAIN y = TryFields
      /\ y.len1 = ac.len1 /\ y.len2 = ac.len2 /\ y.s1.vp = FALSE
      /\ Live(y.s1, mem) /\ Live(y.s2, mem)
  BY <1>0, FreshFact
<1>4. y.len2 >= 1 BY <1>2, <1>3
<1> HIDE DEF y
<1>5. Asked(mem, b) = MoveGoal
  <2>1. Shifted(ac, b, 0, 0) BY <1>0, <1>3, FreshLeft
  <2> HIDE DEF b
  <2>2. Asked(mem, b) = Asked(mem, ac) BY <2>1, AskedMoved
  <2>3. Effect(begun, mem, ac) = Asked(mem, ac) BY <1>2, AskedIs
  <2> QED BY <2>2, <2>3
<1>6. op # "MOVSRJ" \/ y.len1 <= y.len2 => Sending(y) BY <1>3, <1>4, <1>5 DEF Sending, Safe
<1> QED BY <1>2, <1>3, <1>4, <1>5, <1>6 DEF y

\* And MOVSRJ where there is as much left as there is room for.
LEMMA SendRight ==
    ASSUME begun \in Starts, op = "MOVSRJ", mem \in Memories, StringAc(ac),
           Effect(begun, mem, ac) = MoveGoal, ac.len2 > 0, NEW gone,
           NEW z, z = RightJustified(Fresh(ac.flags, 0), gone)
    PROVE  Sending(z) /\ z.mem = mem
<1> DEFINE y == Fresh(ac.flags, 0)
           n == y.len1 - y.len2
           s1 == y.s1
           r == xadjbp(s1, gone, n)
<1>0. op \in Strings /\ op \in Sends BY DEF Sends, Strings
<1>1. /\ OnStrings(y) /\ y.mem = mem /\ y.res = "RUN" /\ DOMAIN y = TryFields /\ y.s1.vp = FALSE
      /\ Live(y.s1, mem) /\ Live(y.s2, mem)
      /\ y.len1 \in Nat /\ y.len2 \in Nat /\ y.len2 >= 1 /\ y.mem \in Memories
      /\ Asked(mem, LeftAc(y)) = MoveGoal
      /\ op # "MOVSRJ" \/ y.len1 <= y.len2 => Sending(y)
  BY <1>0, SendFresh
<1>2. z = IF y.len1 > y.len2
          THEN [y EXCEPT !.s1 = r.s, !.len1 = y.len2, !.res = IF r.ok THEN "RUN" ELSE "PF"] ELSE y
  BY DEF RightJustified
<1> HIDE DEF y
<1>3. CASE ~(y.len1 > y.len2) BY <1>1, <1>2, <1>3
<1>4. CASE y.len1 > y.len2
  <2>1. n \in Nat /\ n > 0 BY <1>1, <1>4
  <2>2. n = y.len1 - y.len2 OBVIOUS
  <2> HIDE DEF n
  <2>3. /\ r.ok \in BOOLEAN /\ Keepable(r.s) /\ r.s.bp.ind = y.s1.bp.ind /\ Spot(r.s) = Spot(y.s1) + n
        /\ r.ok => Live(r.s, mem) /\ r.s.vp = FALSE
    <3>1. Live(s1, mem) /\ s1.vp = FALSE BY <1>1
    <3> HIDE DEF s1
    <3>2. /\ r.ok \in BOOLEAN /\ Keepable(r.s) /\ r.s.bp.ind = s1.bp.ind /\ Spot(r.s) = Spot(s1) + n
          /\ r.ok => Live(r.s, mem) /\ r.s.vp = FALSE
      BY <2>1, <3>1, PassFact
    <3> QED BY <3>2 DEF s1
  <2>4. z = [y EXCEPT !.s1 = r.s, !.len1 = y.len2, !.res = IF r.ok THEN "RUN" ELSE "PF"] BY <1>2, <1>4
  <2> HIDE DEF r
  <2>5. /\ DOMAIN z = TryFields /\ z.op = y.op /\ z.e0 = y.e0 /\ z.flags = y.flags /\ z.mem = y.mem
        /\ z.len1 = y.len2 /\ z.len2 = y.len2 /\ z.s1 = r.s /\ z.s2 = y.s2
        /\ r.ok => z.res = "RUN"
        /\ ~r.ok => z.res = "PF"
    BY <1>1, <2>4 DEF TryFields
  <2>6. OnStrings(z)
    <3>1. /\ y.len1 <= begun.ac.len1 /\ y.len2 <= begun.ac.len2
          /\ Spot(y.s1) = Position(begun.ac.bp1) + Used1(y.len1)
      BY <1>1 DEF OnStrings
    <3>2. begun.ac.len1 \in Nat /\ Position(begun.ac.bp1) \in Int BY <1>0, StringBegun
    <3>3. z.len1 \in Nat /\ z.len1 <= begun.ac.len1 /\ Used1(z.len1) = Used1(y.len1) + n
          /\ Used1(y.len1) \in Int
      BY <1>1, <1>4, <2>2, <2>5, <3>1, <3>2 DEF Used1
    <3>4. Spot(z.s1) = Position(begun.ac.bp1) + Used1(z.len1)
      BY <2>1, <2>3, <2>5, <3>1, <3>2, <3>3
    <3> QED BY <1>1, <2>3, <2>5, <3>3, <3>4 DEF OnStrings
  <2>7. Asked(mem, LeftAc(z)) = MoveGoal
    <3> DEFINE a == LeftAc(y)
               b == LeftAc(z)
    <3>1. Shifted(a, b, y.len1 - z.len1, y.len2 - z.len2) BY <1>0, <1>1, <2>6, Aligned
    <3>2. y.len1 - z.len1 = n /\ y.len2 - z.len2 = 0 BY <1>1, <2>2, <2>5
    <3>3. Shifted(a, b, n, 0) BY <3>1, <3>2
    <3>4. a.len1 = y.len1 /\ a.len2 = y.len2 BY <1>0, <1>1, LeftAcFact
    <3> HIDE DEF a, b
    <3>5. a.len1 > a.len2 /\ n = a.len1 - a.len2 /\ n \in Int BY <1>4, <2>1, <2>2, <3>4
    <3>6. Asked(mem, b) = Asked(mem, a) BY <1>0, <3>3, <3>5, AskedMoved
    <3> QED BY <1>1, <3>6 DEF a, b
  <2>8. z.mem = mem /\ mem \in Memories /\ z.len2 >= 1 /\ z.len1 <= z.len2 BY <1>1, <2>5
  <2>9. z.res = "RUN" => Live(z.s1, z.mem) /\ Live(z.s2, z.mem) /\ Safe(z.s1)
    BY <1>1, <2>3, <2>5 DEF Safe
  <2>10. z.res \in {"RUN", "PF"} BY <2>3, <2>5
  <2> QED BY <2>6, <2>7, <2>8, <2>9, <2>10 DEF Sending
<1> QED BY <1>3, <1>4

\* A move begins, or ends with nothing to do, or traps with nothing done.
LEMMA SendBegins ==
    ASSUME begun \in Starts, op \in Sends, MoveAt(mem, ac, x, out), Begin
    PROVE  begun' = begun /\ MoveAt(mem', ac', x', out')
<1>1. PICK gone \in Missing : Try(gone) BY DEF Begin
<1>2. x = Idle /\ out = "" BY <1>1 DEF Try
<1>3. /\ mem \in Memories /\ StringAc(ac) /\ Effect(begun, mem, ac) = MoveGoal
      /\ ac.len2 = 0 => ac = begun.ac
  BY <1>2 DEF MoveAt
<1>4. op \notin ToText \cup ToNumber \cup Bytes \cup {"IBP", "ADJBP", "EDIT", "BLT", "XBLT", "CMPS"}
  BY DEF Sends, ToText, ToNumber, Bytes
<1>5. BeginMove(gone)
  BY <1>1, <1>4 DEF Try, BeginCompare, BeginPointer, BeginToText, BeginToNumber, BeginEdit, BeginBlock,
                    BeginByte
<1> DEFINE y == Fresh(ac.flags, 0)
           how == IF ac.len1 = 0 \/ op = "MOVSRJ" THEN "WON" ELSE "TRUNC"
           z == IF op = "MOVSRJ" THEN RightJustified(y, gone) ELSE y
<1>6. \/ UNCHANGED vars
      \/ ac.len2 = 0 /\ Ends(how) /\ ac' = ac
      \/ ac.len2 > 0 /\ Goes(z) /\ ac' = ac
  BY <1>5 DEF BeginMove, Fails
<1>7. CASE UNCHANGED vars BY <1>7 DEF vars
<1>8. CASE ac.len2 = 0 /\ Ends(how) /\ ac' = ac
  <2>1. Reached(mem, ac, how) BY <1>3, <1>8, NothingToMove
  <2>2. how # "" OBVIOUS
  <2> HIDE DEF how
  <2>3. x' = Idle /\ out' = how /\ mem' = mem /\ ac' = ac /\ begun' = begun BY <1>2, <1>8 DEF Ends
  <2> QED BY <2>1, <2>2, <2>3 DEF MoveAt
<1>9. CASE ac.len2 > 0 /\ Goes(z) /\ ac' = ac
  <2>1. Sending(z) /\ z.mem = mem
    <3>1. CASE op = "MOVSRJ" BY <1>3, <1>9, <3>1, SendRight
    <3>2. CASE op # "MOVSRJ"
      <4>1. (op # "MOVSRJ" \/ y.len1 <= y.len2 => Sending(y)) /\ y.mem = mem BY <1>3, <1>9, SendFresh
      <4> QED BY <3>2, <4>1
    <3> QED BY <3>1, <3>2
  <2> HIDE DEF z
  <2>2. z # Idle
    <3>1. z.res # "idle" BY <2>1 DEF Sending
    <3> QED BY <3>1 DEF Idle
  <2>3. x' = z /\ out' = "" /\ mem' = mem /\ ac' = ac /\ begun' = begun BY <1>2, <1>9 DEF Goes
  <2> QED BY <1>3, <2>1, <2>2, <2>3 DEF MoveAt
<1> QED BY <1>6, <1>7, <1>8, <1>9

\* A turn.
LEMMA SendTurns ==
    ASSUME begun \in Starts, op \in Sends, MoveAt(mem, ac, x, out), Turn
    PROVE  begun' = begun /\ MoveAt(mem', ac', x', out')
<1>1. PICK gone \in Missing, brk \in BOOLEAN : TurnWith(gone, brk) BY DEF Turn
<1> DEFINE z == Step(x, gone, brk)
<1>2. x.res = "RUN" /\ x' = z /\ mem' = z.mem /\ begun' = begun /\ ac' = ac /\ out' = out
  BY <1>1 DEF TurnWith
<1>3. x # Idle BY <1>2 DEF Idle
<1>4. out = "" /\ Sending(x) /\ StringAc(ac) BY <1>3 DEF MoveAt
<1>5. x.op = op BY <1>4 DEF Sending, OnStrings
<1>6. Sending(z)
  <2>1. CASE op = "MOVSRJ"
    <3>1. z = RightStep(x, gone, brk) BY <1>5, <2>1, StepFact
    <3>2. Sending(RightStep(x, gone, brk)) BY <1>2, <1>4, <2>1, RightTurn
    <3> QED BY <3>1, <3>2
  <2>2. CASE op \in {"MOVSLJ", "MOVSO"}
    <3>1. z = MoveStep(x, gone, brk) BY <1>5, <2>2, StepFact
    <3>2. Sending(MoveStep(x, gone, brk)) BY <1>2, <1>4, <2>2, SendTurn
    <3> QED BY <3>1, <3>2
  <2> QED BY <2>1, <2>2 DEF Sends
<1> HIDE DEF z
<1>7. z # Idle
  <2>1. z.res # "idle" BY <1>6 DEF Sending
  <2> QED BY <2>1 DEF Idle
<1> QED BY <1>2, <1>4, <1>6, <1>7 DEF MoveAt

\* A try is over.
LEMMA SendLeaves ==
    ASSUME begun \in Starts, op \in Sends, MoveAt(mem, ac, x, out), Leave
    PROVE  begun' = begun /\ MoveAt(mem', ac', x', out')
<1>0. op \in Strings BY DEF Sends, Strings
<1>1. /\ x # Idle /\ x.res \notin {"idle", "RUN"} /\ ac' = Stored(x) /\ x' = Idle
      /\ begun' = begun /\ mem' = mem
      /\ Trapped(x) => out' = ""
      /\ ~Trapped(x) => out' = x.res
  BY LeaveFact
<1>2. out = "" /\ x.mem = mem /\ Sending(x) /\ StringAc(ac) BY <1>1 DEF MoveAt
<1>3. OnStrings(x) /\ mem \in Memories BY <1>2 DEF Sending
<1> DEFINE a == LeftAc(x)
<1>4. ac' = a BY <1>0, <1>1, <1>2, <1>3, StoredStrings
<1>5. StringAc(a) /\ a.len2 = x.len2 BY <1>0, <1>3, LeftAcFact
<1>6. CASE Trapped(x)
  <2>1. Asked(mem, a) = MoveGoal /\ x.len2 >= 1 BY <1>2, <1>6 DEF Sending, Trapped
  <2> HIDE DEF a
  <2>2. a.len1 \in Nat /\ a.len2 \in Nat /\ a.len2 # 0
    <3>1. a.len1 \in Nat /\ a.len2 \in Nat BY <1>0, <1>5, StringAcFact
    <3> QED BY <1>5, <2>1, <3>1
  <2>3. Effect(begun, mem, a) = Asked(mem, a) BY <2>2, AskedIs
  <2> QED BY <1>1, <1>3, <1>4, <1>5, <1>6, <2>1, <2>2, <2>3 DEF MoveAt
<1>7. CASE ~Trapped(x)
  <2>1. x.res \in {"WON", "TRUNC"} BY <1>1, <1>2, <1>7 DEF Sending, Trapped
  <2>2. Reached(mem, a, x.res) BY <1>2, <2>1 DEF Sending
  <2> HIDE DEF a
  <2> QED BY <1>1, <1>4, <1>7, <2>1, <2>2 DEF MoveAt
<1> QED BY <1>6, <1>7

\* However often it is stopped, a move goes on with what is left.
LEMMA SendKeeps ==
    ASSUME begun \in Starts, op \in Sends, MoveAt(mem, ac, x, out), Next
    PROVE  begun' = begun /\ MoveAt(mem', ac', x', out')
BY SendBegins, SendTurns, SendLeaves DEF Next

\* As it is first met.
LEMMA SendStarts ==
    ASSUME begun \in Starts, op \in Sends
    PROVE  MoveAt(begun.mem, begun.ac, Idle, "")
<1>1. StringAc(begun.ac) /\ begun.mem \in Memories BY StringBegun DEF Sends, Strings, Memories
<1> QED BY <1>1 DEF MoveAt, MoveGoal

\* And it is resumable, and does all at once.
LEMMA SendServed ==
    ASSUME begun \in Starts, op \in Sends, MoveAt(mem, ac, x, out)
    PROVE  Resumable /\ AllAtOnce
<1>1. x = Idle /\ out = "" => Effect(begun, mem, ac) = MoveGoal BY DEF MoveAt
<1>2. out # "" => Reached(mem, ac, out) BY DEF MoveAt
<1>3. begun.op = op BY DEF op
<1>4. Missed <=> Departs(begun)
  <2>1. CASE op = "MOVSRJ" BY <1>3, <2>1 DEF Missed, Departs
  <2>2. CASE op = "MOVSO" BY <1>3, <2>2 DEF Missed, Departs, MoveGoal
  <2>3. CASE op = "MOVSLJ" BY <1>3, <2>3 DEF Missed, Departs
  <2> QED BY <2>1, <2>2, <2>3 DEF Sends
<1> QED BY <1>1, <1>2, <1>4 DEF Resumable, AllAtOnce, Reached, MoveGoal

\* As BlockFrame.
LEMMA SendFrame ==
    ASSUME begun' = begun, MoveAt(mem', ac', x', out')
    PROVE  MoveAt(mem, ac, x, out)'
BY DEF MoveAt, Sending, OnStrings, StringAc, MoveGoal, Reached, Missed, LeftAc, Used1, Used2, op, Asked, LeftText, RightText,
       Off, BadOf, HowLeft, Safe, DestWords, Memories

-----------------------------------------------------------------------------
(* The instructions that translate nothing                                 *)

Untranslated == Blocks \cup Bytes \cup OfPointers \cup Sends \cup {"CMPS"}

\* What holds at every step of one of them.
ServedInv ==
    /\ begun \in Starts
    /\ op \in Blocks => BlockAt(mem, ac, x, out)
    /\ op \in Bytes => ByteAt(mem, ac, x, out)
    /\ op \in OfPointers => PointerAt(mem, ac, x, out)
    /\ op \in Sends => MoveAt(mem, ac, x, out)
    /\ op = "CMPS" => CmpAt(mem, ac, x, out)

\* An instruction as it is first met.
LEMMA ServedStarts == Init => ServedInv
<1>1. SUFFICES ASSUME Init PROVE ServedInv OBVIOUS
<1>2. begun \in Starts /\ mem = begun.mem /\ ac = begun.ac /\ x = Idle /\ out = "" BY <1>1 DEF Init
<1>3. op \in Blocks => BlockAt(mem, ac, x, out) BY <1>2, BlockStarts
<1>4. op \in Bytes => ByteAt(mem, ac, x, out) BY <1>2, ByteStarts DEF ByteAt
<1>5. op \in OfPointers => PointerAt(mem, ac, x, out) BY <1>2 DEF PointerAt
<1>6. op \in Sends => MoveAt(mem, ac, x, out) BY <1>2, SendStarts
<1>7. op = "CMPS" => CmpAt(mem, ac, x, out) BY <1>2, CmpStarts
<1> QED BY <1>2, <1>3, <1>4, <1>5, <1>6, <1>7 DEF ServedInv

\* What is said of an instruction is said of the one begun, which does not change.
LEMMA BlockFrame ==
    ASSUME begun' = begun, BlockAt(mem', ac', x', out')
    PROVE  BlockAt(mem, ac, x, out)'
<1>1. Whole' = Whole BY DEF Whole, Words, Count, op
<1>2. BlockGoal' = BlockGoal BY <1>1 DEF BlockGoal, Words, op
<1>3. BlockAc(ac') <=> BlockAc(ac)' BY DEF BlockAc, op
<1>4. Left(mem', ac'.bp1.y, ac'.bp2.y, ToMove(ac')) <=> Left(mem, ac.bp1.y, ac.bp2.y, ToMove(ac))'
  BY <1>1 DEF Left, ToMove, Words, Count, op
<1>5. Moving(x') <=> Moving(x)' BY <1>1 DEF Moving, Left, Done, Words, Count, op
<1> QED BY <1>2, <1>3, <1>4, <1>5 DEF BlockAt

\* As BlockFrame.
LEMMA ByteFrame ==
    ASSUME begun' = begun, ByteAt(mem', ac', x', out')
    PROVE  ByteAt(mem, ac, x, out)'
BY DEF ByteAt, ByteAc, Rested, Carrying, ToTake, MemGoal, NumGoal, ByteGoal, TheByte, op

\* As BlockFrame.
LEMMA PointerFrame ==
    ASSUME begun' = begun, PointerAt(mem', ac', x', out')
    PROVE  PointerAt(mem, ac, x, out)'
BY DEF PointerAt

\* Every step of every instruction keeps it.
LEMMA ServedKept ==
    ASSUME ServedInv, [Next]_vars
    PROVE  ServedInv'
<1>1. begun' = begun
  BY DEF Next, Begin, Turn, Leave, Try, TurnWith, BeginMove, BeginCompare, BeginToText,
         BeginToNumber, BeginEdit, BeginBlock, BeginByte, BeginPointer, Fails, Ends, Goes, vars
<1>2. op' = op /\ begun' \in Starts BY <1>1 DEF op, ServedInv
<1>3. UNCHANGED vars => mem' = mem /\ ac' = ac /\ x' = x /\ out' = out BY DEF vars
<1>4. op \in Blocks => BlockAt(mem, ac, x, out)'
  <2>1. op \in Blocks => BlockAt(mem', ac', x', out') BY <1>3, BlocksKeep DEF ServedInv
  <2> QED BY <1>1, <2>1, BlockFrame
<1>5. op \in Bytes => ByteAt(mem, ac, x, out)'
  <2>1. op \in Bytes => ByteAt(mem', ac', x', out') BY <1>3, BytesKeep DEF ServedInv
  <2> QED BY <1>1, <2>1, ByteFrame
<1>6. op \in OfPointers => PointerAt(mem, ac, x, out)'
  <2>1. op \in OfPointers => PointerAt(mem', ac', x', out') BY <1>3, PointersKeep DEF ServedInv
  <2> QED BY <1>1, <2>1, PointerFrame
<1>7. op \in Sends => MoveAt(mem, ac, x, out)'
  <2>1. op \in Sends => MoveAt(mem', ac', x', out') BY <1>3, SendKeeps DEF ServedInv
  <2> QED BY <1>1, <2>1, SendFrame
<1>8. op = "CMPS" => CmpAt(mem, ac, x, out)'
  <2>1. op = "CMPS" => CmpAt(mem', ac', x', out') BY <1>3, CmpKeeps DEF ServedInv
  <2> QED BY <1>1, <2>1, CmpFrame
<1> QED BY <1>2, <1>4, <1>5, <1>6, <1>7, <1>8 DEF ServedInv

\* And it says that what is still asked for is what was asked for, and what is done is that.
LEMMA Served == ServedInv => (op \in Untranslated => Resumable /\ AllAtOnce)
<1>1. SUFFICES ASSUME ServedInv, op \in Untranslated PROVE Resumable /\ AllAtOnce OBVIOUS
<1>2. CASE op \in Blocks BY <1>1, <1>2, BlocksServed DEF ServedInv
<1>3. CASE op \in Bytes BY <1>1, <1>3, BytesServed DEF ServedInv
<1>4. CASE op \in OfPointers
  <2>1. PointerAt(mem, ac, x, out) BY <1>1, <1>4 DEF ServedInv
  <2>2. ~Departs(begun) BY <1>4, NoDeparture DEF OfPointers
  <2> QED BY <2>1, <2>2 DEF PointerAt, Resumable, AllAtOnce
<1>5. CASE op \in Sends BY <1>1, <1>5, SendServed DEF ServedInv
<1>6. CASE op = "CMPS" BY <1>1, <1>6, CmpServed DEF ServedInv
<1> QED BY <1>1, <1>2, <1>3, <1>4, <1>5, <1>6 DEF Untranslated

\* However often a block, byte or pointer instruction, a CMPSx, MOVSLJ, MOVSRJ or MOVSO has
\* been stopped, and wherever its try is now, what the ACs and memory then ask for (the
\* words XBLT and BLT have left to move, ix_xblt and ix_blt; the byte that FPD says is
\* pending, ix_ldb ... ix_idpb; the strings from where xbpupdate leaves the pointers of
\* ix_cmps, ix_movslj and ix_movsrj) is what was asked for when it began.
THEOREM SameAgain == Spec => [](op \in Untranslated => Resumable)
<1>1. ServedInv /\ [Next]_vars => ServedInv' BY ServedKept
<1>2. ServedInv => (op \in Untranslated => Resumable) BY Served
<1> QED BY ServedStarts, <1>1, <1>2, PTL DEF Spec

\* When one of them ends, memory and ACs are what inexts.c says they are after an execution
\* that nothing interrupted, and it skips if that would, unless it is a MOVSRJ to an empty
\* string (ix_movsrj's early return) or a MOVSO that meets a byte too large (it is not
\* backed up): then they never are.
THEOREM SameAtLast == Spec => [](op \in Untranslated => AllAtOnce)
<1>1. ServedInv /\ [Next]_vars => ServedInv' BY ServedKept
<1>2. ServedInv => (op \in Untranslated => AllAtOnce) BY Served
<1> QED BY ServedStarts, <1>1, <1>2, PTL DEF Spec
================================================================================
