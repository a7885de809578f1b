--------------------------- MODULE FloatingPoint ---------------------------
(* The floating-point operations of kn10ops.c: a sign, E exponent bits in excess  *)
(* notation and F fraction bits (8 and 27 in the code), continued in the W-1      *)
(* magnitude bits of a second word for doubles.  Negative numbers are the two's   *)
(* complement of the whole.  G format and the KA10's instructions are left out.   *)
EXTENDS FixedPoint
CONSTANT E

F == W - 1 - E
Excess == 2^(E-1)
SFEMAGS == 2^E - 1
SFFHIBIT == 2^(F-1)                          \* the first fraction bit
SFFBITS == F \div 3                          \* fraction bits in the left halfword

(* Exponent and signed fraction of a word (SFSETUP), and the fraction's magnitude. *)
Exponent(w) == LET e == w \div 2^F IN IF Sign(w) THEN 2^(E+1) - 1 - e ELSE e
Fraction(w) == (w % 2^F) + IF Sign(w) THEN 2^W - 2^F ELSE 0
PosFraction(w) == Abs(Fraction(w))

(* The exponent goes back into a fraction whose upper bits are its sign; if it    *)
(* does not fit it is stored all the same and the flags say so.                   *)
WithExponent(w, e) == w + (IF Sign(w) THEN -1 ELSE 1) * (e % 2^E) * 2^F
ExponentFlags(e) == IF e < 0 THEN Overflow \cup {"FOV", "FXU"}
                    ELSE FlagIf(e > SFEMAGS, Overflow \cup {"FOV"})
FloatNoDivide == NoDivide \cup {"FOV"}

(* The next lower word says whether to round: its first bit, and for negative      *)
(* numbers any bit after that.                                                     *)
RoundBit(lo) == Mag(lo) >= Top \div 2
Others(lo) == lo % (Top \div 2) # 0

(* The exponents' difference orders the operands of a sum.                         *)
Exchanged(a, b, big, small, Add(_, _, _, _)) ==
  IF Exponent(a) < Exponent(b) THEN Add(small, big, Exponent(b) - Exponent(a), Exponent(b))
  ELSE Add(big, small, Exponent(a) - Exponent(b), Exponent(a))

-----------------------------------------------------------------------------
(* Single precision: addition (ffadr).  The sum is two words; its sign, exponent  *)
(* field and first fraction bit tell how to normalize.  The answer of a           *)
(* normalizing step is the word, its exponent and whether to add one.             *)
Step(w, e, up) == [w |-> w, e |-> e, up |-> up]
LeadBits(w) == w \div SFFHIBIT
MinusZero(w) == w % 2^F = 0
Packed(s) == Result(WithExponent(s.w, s.e), ExponentFlags(s.e))

(* Mutant: negative halves are rounded towards zero. *)
NegNormal_Halves(d, e, rnd) ==
  LET up == rnd /\ RoundBit(d[2])
  IN IF MinusZero(d[1]) /\ ~up THEN Step(d[1] + SFFHIBIT, e + 1, FALSE)
     ELSE Step(d[1], e, up)
NegNormal(d, e, rnd) ==
  LET up == rnd /\ RoundBit(d[2]) /\ Others(d[2])
  IN IF MinusZero(d[1]) /\ ~up THEN Step(d[1] + SFFHIBIT, e + 1, FALSE)
     ELSE Step(d[1], e, up)

(* Any other sum is shifted by i until its first significant bit is in place. *)
FirstBit(w) == op10ffo(IF Sign(w) THEN Not(w) ELSE w)
Renormal(d, e) ==
  LET By(lo) == (IF FirstBit(d[1]) < W THEN FirstBit(d[1]) ELSE FirstBit(lo) + W - 1) - (E + 1)
      Shifted(s, r, i) == IF s /\ MinusZero(r[1]) THEN Step(r[1] + SFFHIBIT, e - i + 1, FALSE)
                          ELSE Step(r[1], e - i, RoundBit(r[2]) /\ (s => Others(r[2])))
      To(lo, i) == Shifted(Sign(d[1]), x_ashc(<<d[1], lo>>, i), i)
      Whole(lo) == To(lo, By(lo))
  IN Whole(WithSign(Sign(d[1]), d[2]))

Normalize(d, e, lead, rnd) ==
  CASE lead = 1 -> Step(d[1], e, RoundBit(d[2]))
    [] lead \in {2, 3} -> Step(x_ash(d[1], -1), e + 1, d[1] % 2 = 1)
    [] lead \in {2^(E+2) - 4, 2^(E+2) - 3} -> NegNormal(x_ashc(d, -1), e + 1, rnd)
    [] lead = 2^(E+2) - 2 -> NegNormal(d, e, rnd)
    [] OTHER -> Renormal(d, e)

RoundUp(s, w) ==
  LET first == LeadBits(w) % 2 = 1
  IN CASE Sign(w) /\ first /\ w % SFFHIBIT # 0 -> Step(x_ash(w, 1), s.e - 1, FALSE)
       [] ~Sign(w) /\ ~first -> Step(SFFHIBIT, s.e + 1, FALSE)
       [] OTHER -> Step(w, s.e, FALSE)
Rounded(s, rnd) == IF rnd /\ s.up THEN RoundUp(s, Wrap(s.w + 1)) ELSE s

ffadr(a, b, negb, rnd) ==
  LET Sum(d, e) == IF d[1] = 0 /\ Mag(d[2]) = 0 THEN Result(0, {})
                   ELSE Packed(Rounded(Normalize(d, e, LeadBits(d[1]), rnd), rnd))
      Add(big, small, n, e) == Sum(<<Wrap(x_ash(small, -n) + big), x_ash(small, W - 1 - n)>>, e)
  IN Exchanged(a, b, Fraction(a), IF negb THEN Neg(Fraction(b)) ELSE Fraction(b), Add)

(* Multiplication (ffmpr).  Without rounding a negative product that lost bits is *)
(* the ones-complement, as the hardware leaves it.                                *)
WithSignOf(neg, exact, r) == [r EXCEPT !.v = IF ~neg THEN @ ELSE IF exact THEN Neg(@) ELSE Not(@)]
Incremented(w, e, up) == IF ~up THEN Step(w, e, up)
                         ELSE IF w + 1 >= 2^F THEN Step(SFFHIBIT, e + 1, up) ELSE Step(w + 1, e, up)
ffmpr(a, b, rnd) ==
  LET Round(d, e) == WithSignOf(Sign(a) # Sign(b), rnd \/ d[2] = 0,
                                Packed(Incremented(d[1], e, rnd /\ RoundBit(d[2]))))
      Place(p, i) == Round(x_ashc(p, i), Exponent(a) + Exponent(b) - Excess - (i - E))
      Product(p) == IF p = <<0, 0>> THEN Result(0, {}) ELSE Place(p, adffo(p) - (E + 1))
  IN Product(op10xmul(PosFraction(a), PosFraction(b)))

(* Division (op10xfdv).  The divisor is doubled first so that normalized operands *)
(* always divide; two bits more than the fraction's are computed when rounding,   *)
(* one when not.                                                                  *)
op10xfdv(a, b, rnd) ==
  LET n == IF rnd THEN F + 2 ELSE F + 1
      Place(w, i, e, rem) == WithSignOf(Sign(a) # Sign(b), rnd \/ rem = 0,
                                        Packed(Step(x_ash(w, i), e - (i + E), FALSE)))
      Carried(w, i, e, rem) == Place(w, IF op10ffo(w) - (E + 1) # i THEN i - 1 ELSE i, e, rem)
      Round(q, i, e, rem) == IF rnd /\ i < 0 /\ (q \div 2^(-i-1)) % 2 = 1
                             THEN Carried(q + 2^(-i-1), i, e, rem) ELSE Place(q, i, e, rem)
      Quotient(q, den, e) ==
        IF q = <<>> THEN Result(<<>>, FloatNoDivide)
        ELSE IF q[1] = 0 THEN Result(<<0>>, {})
        ELSE [Round(q[1], op10ffo(q[1]) - (E + 1), e, IF Sign(q[2]) THEN Wrap(q[2] + den) ELSE q[2])
              EXCEPT !.v = <<@>>]
      Divide(num, den, e) == IF Value(num) >= Value(den) THEN Result(<<>>, FloatNoDivide)
                             ELSE Quotient(ddivstep(<<num, 0>>, den, n, FALSE), den, e)
  IN IF a = Top THEN Result(<<>>, FloatNoDivide)
     ELSE Divide(Abs(a) % 2^F, x_ash(PosFraction(b), 1),
                 Exponent(Abs(a)) + Excess + 1 - Exponent(b) + (W - 1 - n))

-----------------------------------------------------------------------------
(* Conversions.  sfnorm makes a float of an integer fraction and an exponent.     *)
sfnorm(exp, frac, rnd) ==
  LET Norm(m, i) == WithSignOf(Sign(frac), TRUE,
                      Packed(Incremented(Lsh(m, i), exp - i, rnd /\ i < 0 /\ (m \div 2^(-i-1)) % 2 = 1)))
  IN IF frac = 0 THEN Result(0, {}) ELSE Norm(Abs(frac), op10ffo(Abs(frac)) - (E + 1))
op10fltr(w) == sfnorm(Excess + F, w, TRUE)
op10fsc(w, n) == sfnorm(Exponent(w) + n, Fraction(w), FALSE)

(* FIX truncates the magnitude; FIXR rounds one half upwards whatever the sign. *)
op10xfix(w, rnd) ==
  LET up(m, half) == rnd /\ (m \div half) % 2 = 1 /\ ~(Sign(w) /\ m % half = 0)
      fix(m, i) == Lsh(m, i) + IF i < 0 /\ up(m, 2^(-i-1)) THEN 1 ELSE 0
      signed(r) == Result(<<IF Sign(w) THEN Neg(r) ELSE Wrap(r)>>, {})
      Fixed(i) == IF i <= -(F + 1) THEN Result(<<0>>, {}) ELSE signed(fix(PosFraction(w), i))
  IN IF Exponent(w) > Excess + W - 1 THEN Result(<<>>, Overflow)
     ELSE Fixed(Exponent(w) - (Excess + F))

-----------------------------------------------------------------------------
(* Double precision: addition (dfad) in four words, the sum in d and what was     *)
(* shifted out of the smaller operand in rest.                                    *)
op10dfinc(d) == LET lo == Wrap(d[2] + 1)
                IN IF Mag(lo) # 0 THEN <<d[1], lo>> ELSE <<Wrap(d[1] + 1), 0>>
DMinusZero(d) == MinusZero(d[1]) /\ Mag(d[2]) = 0
DPacked(s) == Result(<<WithExponent(s.w[1], s.e), Mag(s.w[2])>>, ExponentFlags(s.e))
DWithSignOf(neg, r) == IF neg THEN [r EXCEPT !.v = dmovn(@)] ELSE r

(* Mutant: the fourth word is not looked at here either. *)
DNegNormal_ThreeWords(d, rest, e) ==
  LET up == RoundBit(rest[1]) /\ Others(rest[1])
  IN IF DMinusZero(d) /\ ~up THEN Step(<<d[1] + SFFHIBIT, d[2]>>, e + 1, FALSE)
     ELSE Step(d, e, up)
DNegNormal(d, rest, e) ==
  LET up == RoundBit(rest[1]) /\ (Others(rest[1]) \/ Mag(rest[2]) # 0)
  IN IF DMinusZero(d) /\ ~up THEN Step(<<d[1] + SFFHIBIT, d[2]>>, e + 1, FALSE)
     ELSE Step(d, e, up)

(* A sum that needs shifting left is normalized in three words only. *)
DRenormal(d, rest, e) ==
  LET By(low) == (CASE FirstBit(d[1]) < W -> FirstBit(d[1])
                    [] FirstBit(d[1]) = W /\ FirstBit(d[2]) < W -> FirstBit(d[2]) + W - 1
                    [] FirstBit(d[1]) = W /\ FirstBit(d[2]) = W -> FirstBit(low) + 2*W - 2) - (E + 1)
      Move(tail, low, i) ==
        CASE i <= 0 -> x_ashc(d, i)
          [] i > 0 /\ i < W - 1 -> <<x_ashc(d, i)[1], tail[1]>>
          [] i >= W - 1 /\ i < 2*W - 2 -> x_ashc(<<d[2], low>>, i - (W-1))
          [] i >= 2*W - 2 -> <<x_ash(low, i - (2*W - 2)), 0>>
      Round(s, r, up, i) == IF s /\ DMinusZero(r) /\ ~up THEN Step(x_ashc(r, -1), e - i + 1, FALSE)
                            ELSE Step(r, e - i, up)
      Lost(s, r, lost, i) == Round(s, r, RoundBit(lost) /\ (s => Others(lost)), i)
      Shifted(tail, low, i) == Lost(Sign(d[1]), Move(tail, low, i), IF i < W - 1 THEN tail[2] ELSE 0, i)
      Third(low, i) == Shifted(x_ashc(<<d[2], low>>, i), low, i)
      Low(low) == Third(low, By(low))
  IN Low(WithSign(Sign(d[1]), rest[1]))

(* An overflowing negative sum takes its lowest bit along into the third word. *)
Down(shifted, bit) == <<(shifted[1] % (Top \div 2)) + (IF Sign(shifted[1]) THEN Top ELSE 0)
                          + (IF bit THEN Top \div 2 ELSE 0), shifted[2]>>
DNormalize(d, rest, e, lead) ==
  CASE lead = 1 -> Step(d, e, RoundBit(rest[1]))
    [] lead \in {2, 3} -> Step(x_ashc(d, -1), e + 1, d[2] % 2 = 1)
    [] lead \in {2^(E+2) - 4, 2^(E+2) - 3} ->
         DNegNormal(x_ashc(d, -1), Down(x_ashc(rest, -1), d[2] % 2 = 1), e + 1)
    [] lead = 2^(E+2) - 2 -> DNegNormal(d, rest, e)
    [] OTHER -> DRenormal(d, rest, e)

DRoundUp(s, d) ==
  LET first == LeadBits(d[1]) % 2 = 1
  IN CASE Sign(d[1]) /\ first /\ (d[1] % SFFHIBIT # 0 \/ Mag(d[2]) # 0) ->
            Step(x_ashc(d, 1), s.e - 1, FALSE)
       [] ~Sign(d[1]) /\ ~first -> Step(<<SFFHIBIT, d[2]>>, s.e + 1, FALSE)
       [] OTHER -> Step(d, s.e, FALSE)
DRounded(s) == IF s.up THEN DRoundUp(s, op10dfinc(s.w)) ELSE s

dfad(a, b, negb) ==
  LET fb == <<Fraction(b[1]), b[2]>>
      Sum(d, rest, e) == IF d[1] = 0 /\ Mag(d[2]) = 0 /\ Mag(rest[1]) = 0 THEN Result(<<0, 0>>, {})
                         ELSE DPacked(DRounded(DNormalize(d, rest, e, LeadBits(d[1]))))
      Add(big, small, n, e) == Sum(x_dadd(big, x_ashc(small, -n)), x_ashc(small, 2*W - 2 - n), e)
  IN Exchanged(a[1], b[1], <<Fraction(a[1]), a[2]>>, IF negb THEN dmovn(fb) ELSE fb, Add)

(* Positive fraction and exponent of a double (SF_DPOSSETUP). *)
DPosSetup(d) ==
  LET Positive(m) == IF (m[1] % 2^F) \div 2^(F - SFFBITS) # 0 THEN [e |-> Exponent(d[1]), f |-> m]
                     ELSE [e |-> Exponent(d[1]) + 1, f |-> <<SFFHIBIT + (m[1] % 2^(F - SFFBITS)), m[2]>>]
  IN IF Sign(d[1]) THEN Positive(dmovn(<<Fraction(d[1]), d[2]>>))
     ELSE [e |-> Exponent(d[1]), f |-> <<Fraction(d[1]), d[2]>>]

(* The quad product of normalized fractions has its first bit in a known place of  *)
(* the highest word; others are shifted up to it a bit at a time.                  *)
DIncremented(d, e, up) ==
  LET Carry(inc) == IF inc[1] >= 2^F THEN Step(<<SFFHIBIT, inc[2]>>, e + 1, up) ELSE Step(inc, e, up)
  IN IF up THEN Carry(op10dfinc(d)) ELSE Step(d, e, up)
FirstAt == 2^(2*F - W)
ShiftUp(p) == LET Shift(s) == IF s.q[1] >= FirstAt THEN s ELSE [q |-> x_qash1(s.q), n |-> s.n + 1]
                  up[k \in 0..(4*W)] == IF k = 0 THEN [q |-> p, n |-> 0] ELSE Shift(up[k-1])
              IN up[4*W]
op10dfmp(a, b) ==
  LET sign == Sign(a[1]) # Sign(b[1])
      Up(q) == (q[3] \div 2^(F-1)) % 2 = 1 /\ ~(sign /\ q[3] % 2^(F-1) = 0 /\ q[4] = 0)
      Round(d, q, e) == DWithSignOf(sign, DPacked(DIncremented(<<d[1], d[2] + q[3] \div 2^F>>, e, Up(q))))
      Place(s, e) == Round(x_ashc(<<s.q[1], s.q[2]>>, E), s.q, e - s.n)
      Product(p, e) == IF p = <<0, 0, 0, 0>> THEN Result(<<0, 0>>, {}) ELSE Place(ShiftUp(p), e)
      Multiply(x, y) == Product(x_dmul(x.f, y.f), x.e + y.e - Excess)
  IN Multiply(DPosSetup(a), DPosSetup(b))

(* Division: the divisor is doubled only when needed; one bit more than the        *)
(* fraction's is computed.                                                         *)
Less(c, d) == c[1] < d[1] \/ (c[1] = d[1] /\ c[2] < d[2])
op10dfdv(a, b) ==
  LET Failed == Result(a, FloatNoDivide)
      Zero == Result(<<0, 0>>, {})
      Place(quo, i, e) == DWithSignOf(Sign(a[1]) # Sign(b[1]),
                                      DPacked(Step(x_ashc(quo, i), e - (i + E), FALSE)))
      Carried(quo, i, e) == Place(quo, IF adffo(quo) - (E + 1) # i THEN i - 1 ELSE i, e)
      Round(quo, i, e) == IF i < 0 /\ (quo[2] \div 2^(-i-1)) % 2 = 1
                          THEN Carried(x_dadd(quo, <<0, 2^(-i-1)>>), i, e) ELSE Place(quo, i, e)
      Quotient(q, e) == IF q = <<>> THEN Failed
                        ELSE IF q[1] = 0 /\ q[2] = 0 THEN Zero
                        ELSE Round(<<q[1], q[2]>>, adffo(q) - (E + 1), e)
      Divide(num, den, e) == IF Less(num, den) THEN Quotient(qdivstep(num \o <<0, 0>>, den, F + W), e)
                             ELSE Failed
      Ready(num, den, e) == IF num = <<0, 0>> THEN Zero
                            ELSE IF Less(num, den) THEN Divide(num, den, e)
                            ELSE Divide(num, x_ashc(den, 1), e + 1)
      Setup(m, y) == IF Sign(m[1]) \/ (y.f[1] = 0 /\ Mag(y.f[2]) = 0) THEN Failed
                     ELSE Ready(<<m[1] % 2^F, Mag(m[2])>>, <<y.f[1], Mag(y.f[2])>>,
                                Exponent(m[1]) + Excess - y.e + (E - 1))
  IN Setup(IF Sign(a[1]) THEN dmovn(a) ELSE a, DPosSetup(b))
=============================================================================
