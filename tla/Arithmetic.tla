----------------------------- MODULE Arithmetic -----------------------------
(* The arithmetic instructions of infix.c and inflt.c, shifts included, over the   *)
(* operations of kn10ops.c, and what they should compute, in integers.  One       *)
(* instruction is run; the state keeps the operands it had.  Fixed point, floats  *)
(* and doubles have word sizes of their own: floats must have a fraction and      *)
(* numbers too large for an integer, and doubles a third and fourth word.         *)
EXTENDS Integers, Sequences, FiniteSets, TLC

CONSTANTS WI,              \* bits of a fixed-point word
          WF, EF,          \* bits of a floating word and of its exponent
          WD, ED,          \* and of the high word of a double and its exponent
          Ends,            \* the high words that fixed-point doubles are made of
          QuadEnds,        \* and those of quads
          Counts,          \* shift counts
          Floats,          \* normalized operands of the floating instructions
          FloatDoubles,    \* and of their double-precision forms
          Gap              \* how far apart the exponents of added operands may be

Fix == INSTANCE FixedPoint WITH W <- WI
Flo == INSTANCE FloatingPoint WITH W <- WF, E <- EF
Dbl == INSTANCE FloatingPoint WITH W <- WD, E <- ED

(* FDV and DFMP find the first bit of their result in the high word only if       *)
(* fractions are longer than exponents, as 27 bits are to 8.                      *)
ASSUME SizesAssumption == /\ WI \in Nat /\ WI >= 5
                          /\ EF \in Nat /\ EF >= 2 /\ WF \in Nat /\ WF - 1 - EF > EF
                          /\ ED \in Nat /\ ED >= 2 /\ WD \in Nat /\ WD - 1 - ED > ED
ASSUME OperandsAssumption == /\ Ends \subseteq Fix!Word /\ QuadEnds \subseteq Fix!Word
                             /\ Floats \subseteq Flo!Word
                             /\ FloatDoubles \subseteq Dbl!Word \X (0..(Dbl!Top - 1))
                             /\ Counts \subseteq Int /\ Gap \in Nat

VARIABLES op,       \* the instruction
          mode,     \* where the result goes: "basic" to AC, "M" to memory, "B" to both
          ac,       \* the ACs it uses
          mem,      \* the operand at E
          flags,    \* PC flags it set
          was       \* AC and operand before it ran; <<>> until then
vars == <<op, mode, ac, mem, flags, was>>

Doubles == {<<h, l>> : h \in Ends, l \in Ends}
Pairs == {<<h, l>> : h \in Ends, l \in Fix!Word}
Quads == {<<a, b, c, d>> : a, b, c, d \in QuadEnds}

(* The instructions, and the ACs each starts with. *)
Modal == {"ADD", "SUB", "IMUL", "MUL", "IDIV", "DIV"}
OneWord == {"ADD", "SUB", "IMUL", "ADDI", "SUBI", "MOVN", "ASH", "LSH", "ROT"}
TwoWords == {"DIV", "DMOVN", "ASHC", "LSHC", "ROTC", "CIRC"}
OneFloat == {"FAD", "FADR", "FSB", "FSBR", "FMP", "FMPR", "FDV", "FDVR", "FSC"}
Conversion == {"FIX", "FIXR", "FLTR"}
OneDouble == {"DFAD", "DFSB", "DFMP", "DFDV"}
Starts == (OneWord \X {<<w>> : w \in Fix!Word}) \cup (TwoWords \X Pairs) \cup ({"DADD", "DSUB"} \X Doubles)
            \cup ({"MUL", "IDIV"} \X {<<w, 0>> : w \in Fix!Word})
            \cup ({"DMUL"} \X {d \o <<0, 0>> : d \in Doubles}) \cup ({"DDIV"} \X Quads)
            \cup (OneFloat \X {<<w>> : w \in Floats}) \cup (Conversion \X {<<0>>})
            \cup (OneDouble \X FloatDoubles)

Init == /\ \E s \in Starts : op = s[1] /\ ac = s[2]
        /\ mode \in IF op \in Modal THEN {"basic", "M", "B"} ELSE {"basic"}
        /\ mem = 0 /\ flags = {} /\ was = <<>>

(* Storing what an operation answers: nothing if it fails (a division).  Of a      *)
(* double result the instructions that store in memory store the high word.       *)
Store(m, r) ==
  LET put == r.v # <<>>
  IN /\ was' = <<ac, m>> /\ flags' = r.f
     /\ ac' = IF put /\ mode # "M" THEN r.v \o SubSeq(ac, Len(r.v) + 1, Len(ac)) ELSE ac
     /\ mem' = IF put /\ mode # "basic" THEN r.v[1] ELSE m
     /\ UNCHANGED <<op, mode>>
Run(i, Es, Does(_)) == op = i /\ was = <<>> /\ \E m \in Es : Store(m, Does(m))
Single(r) == [r EXCEPT !.v = <<r.v>>]
AcPair == <<ac[1], ac[2]>>

Add == Run("ADD", Fix!Word, LAMBDA m : Single(Fix!op10add(ac[1], m)))
Sub == Run("SUB", Fix!Word, LAMBDA m : Single(Fix!op10sub(ac[1], m)))
Addi == Run("ADDI", 0..(2^(WI \div 2) - 1), LAMBDA m : Single(Fix!op10mf_addi(ac[1], m)))
Subi == Run("SUBI", 0..(2^(WI \div 2) - 1), LAMBDA m : Single(Fix!op10mf_subi(ac[1], m)))
Imul == Run("IMUL", Fix!Word, LAMBDA m : Single(Fix!op10imul(ac[1], m)))
Mul == Run("MUL", Fix!Word, LAMBDA m : Fix!op10mul(ac[1], m))
Idiv == Run("IDIV", Fix!Word, LAMBDA m : Fix!op10xidiv(ac[1], m))
Div == Run("DIV", Fix!Word, LAMBDA m : Fix!op10xdiv(AcPair, m))
Dadd == Run("DADD", Doubles, LAMBDA m : Fix!op10dadd(AcPair, m))
Dsub == Run("DSUB", Doubles, LAMBDA m : Fix!op10dsub(AcPair, m))
Dmul == Run("DMUL", Doubles, LAMBDA m : Fix!op10dmul(AcPair, m))
Ddiv == Run("DDIV", Doubles, LAMBDA m : Fix!op10ddiv(ac, m))
Movn == Run("MOVN", {0}, LAMBDA m : Single(Fix!op10movn(ac[1])))
Dmovn == Run("DMOVN", {0}, LAMBDA m : Fix!op10dmovn(AcPair))

Ash == Run("ASH", Counts, LAMBDA n : Single(Fix!op10ash(ac[1], n)))
Lsh == Run("LSH", Counts, LAMBDA n : Single(Fix!Result(Fix!Lsh(ac[1], n), {})))
Rot == Run("ROT", Counts, LAMBDA n : Single(Fix!Result(Fix!op10rot(ac[1], n), {})))
Ashc == Run("ASHC", Counts, LAMBDA n : Fix!op10ashc(AcPair, n))
Lshc == Run("LSHC", Counts, LAMBDA n : Fix!Result(Fix!op10lshc(AcPair, n), {}))
Rotc == Run("ROTC", Counts, LAMBDA n : Fix!Result(Fix!op10rotc(AcPair, n), {}))
Circ == Run("CIRC", Counts, LAMBDA n : Fix!Result(Fix!op10circ(AcPair, n), {}))

(* The references align the operands of a sum in TLC's integers. *)
Near(e, f) == e - f \in -Gap..Gap
NearFloats == {m \in Floats : Near(Flo!Exponent(ac[1]), Flo!Exponent(m))}
NearDoubles == {m \in FloatDoubles : Near(Dbl!Exponent(ac[1]), Dbl!Exponent(m[1]))}
Fad == Run("FAD", NearFloats, LAMBDA m : Single(Flo!ffadr(ac[1], m, FALSE, FALSE)))
Fadr == Run("FADR", NearFloats, LAMBDA m : Single(Flo!ffadr(ac[1], m, FALSE, TRUE)))
Fsb == Run("FSB", NearFloats, LAMBDA m : Single(Flo!ffadr(ac[1], m, TRUE, FALSE)))
Fsbr == Run("FSBR", NearFloats, LAMBDA m : Single(Flo!ffadr(ac[1], m, TRUE, TRUE)))
Fmp == Run("FMP", Floats, LAMBDA m : Single(Flo!ffmpr(ac[1], m, FALSE)))
Fmpr == Run("FMPR", Floats, LAMBDA m : Single(Flo!ffmpr(ac[1], m, TRUE)))
Fdv == Run("FDV", Floats \cup {0}, LAMBDA m : Flo!op10xfdv(ac[1], m, FALSE))
Fdvr == Run("FDVR", Floats \cup {0}, LAMBDA m : Flo!op10xfdv(ac[1], m, TRUE))
Fsc == Run("FSC", Counts, LAMBDA n : Single(Flo!op10fsc(ac[1], n)))
Fltr == Run("FLTR", Flo!Word, LAMBDA m : Single(Flo!op10fltr(m)))
FixOp == Run("FIX", Floats, LAMBDA m : Flo!op10xfix(m, FALSE))
Fixr == Run("FIXR", Floats, LAMBDA m : Flo!op10xfix(m, TRUE))
Dfad == Run("DFAD", NearDoubles, LAMBDA m : Dbl!dfad(AcPair, m, FALSE))
Dfsb == Run("DFSB", NearDoubles, LAMBDA m : Dbl!dfad(AcPair, m, TRUE))
Dfmp == Run("DFMP", FloatDoubles, LAMBDA m : Dbl!op10dfmp(AcPair, m))
Dfdv == Run("DFDV", FloatDoubles \cup {<<0, 0>>}, LAMBDA m : Dbl!op10dfdv(AcPair, m))

Next == \/ Add \/ Sub \/ Addi \/ Subi \/ Imul \/ Mul \/ Idiv \/ Div
        \/ Dadd \/ Dsub \/ Dmul \/ Ddiv \/ Movn \/ Dmovn
        \/ Ash \/ Lsh \/ Rot \/ Ashc \/ Lshc \/ Rotc \/ Circ
        \/ Fad \/ Fadr \/ Fsb \/ Fsbr \/ Fmp \/ Fmpr \/ Fdv \/ Fdvr
        \/ Fsc \/ Fltr \/ FixOp \/ Fixr \/ Dfad \/ Dfsb \/ Dfmp \/ Dfdv
Spec == Init /\ [][Next]_vars

(* Every register holds a word. *)
TypeOK == /\ LET bits == IF op \in OneDouble THEN WD ELSE IF op \in OneFloat \cup Conversion THEN WF ELSE WI
             IN \A k \in DOMAIN ac : ac[k] \in 0..(2^bits - 1)
          /\ flags \subseteq {"ARO", "TR1", "CR0", "CR1", "DIV", "FOV", "FXU"}

-----------------------------------------------------------------------------
(* What should be stored, in two's complement over words whose low ones copy the   *)
(* sign (of a number n), and the flags a carry into and out of the sign leaves.    *)
Done == was # <<>>
A == was[1]
M == was[2]
Got == IF mode = "M" THEN <<mem>> ELSE ac
Top == Fix!Top
Words(n, k) == LET hi == Fix!Wrap(n \div Top^(k-1))
               IN [j \in 1..k |-> IF j = 1 THEN hi ELSE Fix!WithSign(Fix!Sign(hi), (n \div Top^(k-j)) % Top)]
DInt(d) == Fix!Value(d[1]) * Top + Fix!Mag(d[2])
QInt(q) == DInt(q) * Top^2 + Fix!Mag(q[3]) * Top + Fix!Mag(q[4])
Fits(n, k) == -(Top^k) <= n /\ n < Top^k
Is(v, f) == /\ Got = SubSeq(v \o SubSeq(A, Len(v) + 1, Len(A)), 1, Len(Got))
            /\ mode = "B" => mem = v[1]
            /\ flags = f
Unless(over) == IF over THEN Fix!Overflow ELSE {}
NotDone(f) == ac = A /\ mem = M /\ flags = f

Unsigned(n, k) == n % (2 * Top^k)
Carries(a, b, c, k) ==
  LET x == Unsigned(a, k)
      y == Unsigned(b, k)
  IN (IF x + y + c >= 2 * Top^k THEN {"CR0"} ELSE {})
       \cup (IF (x % Top^k) + (y % Top^k) + c >= Top^k THEN {"CR1"} ELSE {})
Sum(a, b, k) == Is(Words(a + b, k), Unless(~Fits(a + b, k)) \cup Carries(a, b, 0, k))
Difference(a, b, k) == Is(Words(a - b, k), Unless(~Fits(a - b, k)) \cup Carries(a, -b - 1, 1, k))

Size(n) == IF n < 0 THEN -n ELSE n
Quotient(n, d) == LET q == Size(n) \div Size(d) IN IF (n < 0) # (d < 0) THEN -q ELSE q
Divides(n, d, lowest, k) ==
  IF d = 0 \/ Quotient(n, d) \notin lowest..(Top^k - 1) THEN NotDone(Fix!NoDivide)
  ELSE Is(Words(Quotient(n, d), k) \o Words(n - d * Quotient(n, d), k), {})

(* Fixed-point instructions store the sum, difference, product, quotient and       *)
(* remainder modulo the words they have, flag exactly the results that do not fit  *)
(* and the carries, and leave everything alone when they cannot divide, for all    *)
(* signs and the largest negative number (op10add to op10ddiv).                    *)
FixedRight ==
  LET a == Fix!Value(A[1])
      m == Fix!Value(M)
  IN Done =>
     CASE op = "ADD" -> Sum(a, m, 1)
       [] op = "SUB" -> Difference(a, m, 1)
       [] op = "ADDI" -> Sum(a, M, 1)
       [] op = "SUBI" -> Difference(a, M, 1)
       [] op = "MOVN" -> Difference(0, a, 1)
       [] op = "DADD" -> Sum(DInt(A), DInt(M), 2)
       [] op = "DSUB" -> Difference(DInt(A), DInt(M), 2)
       [] op = "IMUL" -> Is(<<Words(a * m, 2)[2]>>, Unless(~Fits(a * m, 1)))
       [] op = "MUL" -> Is(Words(a * m, 2), Unless(~Fits(a * m, 2)))
       [] op = "DMUL" -> Is(Words(DInt(A) * DInt(M), 4), Unless(~Fits(DInt(A) * DInt(M), 4)))
       [] op = "IDIV" -> Divides(a, m, -Top + (IF m < 0 THEN 1 ELSE 0), 1)
       [] op = "DIV" -> Divides(DInt(A), m, -Top, 1)
       [] op = "DDIV" -> Divides(QInt(A), DInt(M), 1 - Top^2, 2)
       [] OTHER -> TRUE

-----------------------------------------------------------------------------
(* n * 2^k rounded down, and a field of size bits rotated.                         *)
Scale(n, k) == IF k >= 0 THEN n * 2^k ELSE n \div 2^(-k)
Rotated(u, k, size) == LET j == k % size IN ((u * 2^j) % 2^size) + (u \div 2^(size - j))
Field(d) == d[1] * 2^WI + d[2]
Split(u) == <<u \div 2^WI, u % 2^WI>>

(* Shifting arithmetically multiplies by a power of two, keeps the sign and flags  *)
(* exactly the results that lost a significant bit; logical shifts and rotations   *)
(* move the bits of one or two words, and CIRC turns the second word round: for    *)
(* all counts, also those longer than the words (op10ash to op10circ).             *)
ShiftRight ==
  LET sign == Fix!Sign(A[1])
      single == Scale(Fix!Value(A[1]), M)
      double == Scale(DInt(A), M)
      over(n, k) == Unless(M > 0 /\ ~Fits(n, k))
      turned(d) == <<d[1], Fix!hrev(d[2])>>
  IN Done =>
     CASE op = "ASH" -> Is(<<Fix!WithSign(sign, single % Top)>>, over(single, 1))
       [] op = "ASHC" -> IF M = 0 THEN NotDone({})
                         ELSE Is([k \in 1..2 |-> Fix!WithSign(sign, (double \div Top^(2-k)) % Top)],
                                 over(double, 2))
       [] op = "LSH" -> Is(<<Fix!Wrap(Scale(A[1], M))>>, {})
       [] op = "LSHC" -> Is(Split(Scale(Field(A), M) % 4^WI), {})
       [] op = "ROT" -> Is(<<Rotated(A[1], M, WI)>>, {})
       [] op = "ROTC" -> Is(Split(Rotated(Field(A), M, 2 * WI)), {})
       [] op = "CIRC" -> Is(turned(Split(Rotated(Field(turned(A)), M, 2 * WI))), {})
       [] OTHER -> TRUE

-----------------------------------------------------------------------------
(* A floating result against the exact one, N/D * 2^x with the fraction's bits as   *)
(* integer bits (bits of them): f is the fraction stored, e the exponent, which is *)
(* out of its field by 2^exps when the flags say so.                               *)
Out(e, exps) == IF "FXU" \in flags THEN e - 2^exps ELSE IF "FOV" \in flags THEN e + 2^exps ELSE e
Error(f, e, N, D, x) ==     \* D times f minus the exact fraction, and the new D
  IF x >= e THEN <<f * D - N * 2^(x-e), D>> ELSE <<f * D * 2^(e-x) - N, D * 2^(e-x)>>
Normal(f, bits) == f = 0 \/ Size(f) \in 2^(bits-1)..(2^bits - 1)

Nearest(f, e, N, D, x, bits) ==
  LET r == Error(f, e, N, D, x)
  IN Normal(f, bits) /\ \/ 2 * Size(r[1]) < r[2]
                        \/ 2 * Size(r[1]) = r[2] /\ ((r[1] > 0) = (N > 0))
Below(f, e, N, D, x, bits) ==
  LET r == Error(f, e, N, D, x)
  IN (Normal(f, bits) \/ f = -(2^bits)) /\ r[1] <= 0 /\ -r[1] < r[2]
Within(f, e, N, D, x, bits) ==
  LET r == Error(f, e, N, D, x)
  IN (Normal(f, bits) \/ f = -(2^bits)) /\ Size(r[1]) < r[2]

FloatFlags == {{}, Fix!Overflow \cup {"FOV"}, Fix!Overflow \cup {"FOV", "FXU"}}
Floating(Rounds(_, _, _, _, _, _), N, D, x) ==
  LET w == Got[1]
  IN /\ flags \in FloatFlags /\ (N = 0) = (w = 0)
     /\ N # 0 => Rounds(Flo!Value(Flo!Fraction(w)), Out(Flo!Exponent(w), EF), N, D, x, Flo!F)

(* Operands of a sum, made integers of the lower exponent. *)
Aligned(f, e, low) == f * 2^(e - low)
LowOf(e, g) == IF e < g THEN e ELSE g

(* On normalized operands the rounding instructions give the nearest float, halves *)
(* away from zero, the others the one below (division: less than a unit away);     *)
(* the result is normalized, and when its exponent is too large or too small it is  *)
(* right modulo the field and flagged.  FIX truncates, FIXR rounds halves up, and   *)
(* only numbers too large are refused (ffadr to op10xfix).                         *)
FloatRight ==
  LET fa == Flo!Value(Flo!Fraction(A[1]))
      ea == Flo!Exponent(A[1])
      fm == Flo!Value(Flo!Fraction(M))
      em == Flo!Exponent(M)
      low == LowOf(ea, em)
      sum == Aligned(fa, ea, low) + Aligned(fm, em, low)
      dif == Aligned(fa, ea, low) - Aligned(fm, em, low)
      by == ea + em - Flo!Excess - Flo!F
      over == ea - em + Flo!Excess + Flo!F
      point == em - Flo!Excess - Flo!F
      whole == IF fm < 0 THEN -Scale(-fm, point) ELSE Scale(fm, point)
      fits == em <= Flo!Excess + WF - 1
  IN Done =>
     CASE op = "FAD" -> Floating(Below, sum, 1, low)
       [] op = "FADR" -> Floating(Nearest, sum, 1, low)
       [] op = "FSB" -> Floating(Below, dif, 1, low)
       [] op = "FSBR" -> Floating(Nearest, dif, 1, low)
       [] op = "FMP" -> Floating(Below, fa * fm, 1, by)
       [] op = "FMPR" -> Floating(Nearest, fa * fm, 1, by)
       [] op \in {"FDV", "FDVR"} ->
            IF M = 0 THEN NotDone(Flo!FloatNoDivide)
            ELSE IF op = "FDV" THEN Floating(Within, IF fm < 0 THEN -fa ELSE fa, Size(fm), over)
            ELSE Floating(Nearest, IF fm < 0 THEN -fa ELSE fa, Size(fm), over)
       [] op = "FSC" -> Floating(Nearest, fa, 1, ea + M)
       [] op = "FLTR" -> Floating(Nearest, Flo!Value(M), 1, Flo!Excess + Flo!F)
       [] op = "FIX" -> IF fits THEN Is(<<Flo!Wrap(whole)>>, {}) ELSE NotDone(Fix!Overflow)
       [] op = "FIXR" -> IF fits THEN Is(<<Flo!Wrap((Scale(fm, point + 1) + 1) \div 2)>>, {})
                         ELSE NotDone(Fix!Overflow)
       [] OTHER -> TRUE

Doubling(Rounds(_, _, _, _, _, _), N, D, x) ==
  LET f == Dbl!Value(Dbl!Fraction(Got[1])) * Dbl!Top + Got[2]
  IN /\ flags \in FloatFlags /\ (N = 0) = (Got = <<0, 0>>) /\ ~Dbl!Sign(Got[2])
     /\ N # 0 => Rounds(f, Out(Dbl!Exponent(Got[1]), ED), N, D, x, Dbl!F + WD - 1)

\* A negative sum of operands more than a word apart that must be shifted left, of which
\* the first three words (the sum without its lowest cut bits) are a tie and the fourth
\* word breaks it.
Forgotten(n, gap, bits) ==
  LET cut == 2^(gap - (WD-1))
  IN /\ n < 0 /\ gap > WD - 1 /\ -n < 2^(bits - 1 + gap)
     /\ n % cut # 0 /\ (n \div cut) % 2^(WD-2) = 2^(WD-3)

(* Doubles, whose second word continues the fraction, are rounded to the nearest in *)
(* all four operations, except in one case, where they never are: a sum whose      *)
(* fourth word is forgotten becomes what its first three words alone would be      *)
(* rounded to, the neighbour below (dfad to op10dfdv).  The comment on dfad,       *)
(* kn10ops.c:2772, says that the four words are there for the rounding.            *)
DoubleRight ==
  LET fa == Dbl!Value(Dbl!Fraction(A[1])) * Dbl!Top + A[2]
      ea == Dbl!Exponent(A[1])
      fm == Dbl!Value(Dbl!Fraction(M[1])) * Dbl!Top + M[2]
      em == Dbl!Exponent(M[1])
      low == LowOf(ea, em)
      bits == Dbl!F + WD - 1
      gap == Size(ea - em)
      Kept(n) == n - (n % 2^(gap - (WD-1)))
      Adding(n) == /\ Doubling(Nearest, n, 1, low) <=> ~Forgotten(n, gap, bits)
                   /\ Forgotten(n, gap, bits) => Doubling(Nearest, Kept(n), 1, low)
  IN Done =>
     CASE op = "DFAD" -> Adding(Aligned(fa, ea, low) + Aligned(fm, em, low))
       [] op = "DFSB" -> Adding(Aligned(fa, ea, low) - Aligned(fm, em, low))
       [] op = "DFMP" -> Doubling(Nearest, fa * fm, 1, ea + em - Dbl!Excess - bits)
       [] op = "DFDV" -> IF M = <<0, 0>> THEN NotDone(Dbl!FloatNoDivide)
                         ELSE Doubling(Nearest, IF fm < 0 THEN -fa ELSE fa, Size(fm),
                                       ea - em + Dbl!Excess + bits)
       [] OTHER -> TRUE
=============================================================================
