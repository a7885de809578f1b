---------------------------- MODULE FixedPoint ----------------------------
(* The fixed-point operations of kn10ops.c on words of W bits (36 in the code).  *)
(* A word is a natural number below 2^W whose top bit is the sign; a double is a *)
(* pair <<HI, LO>> and a quad a tuple of four, and the sign bits of the low      *)
(* words are not part of the value.  An operation answers with its value and the *)
(* PC flags it sets.  Halfwords and the 16-bit digits of the multiplications are *)
(* the C code's way to hold words and are left out.                              *)
EXTENDS Integers, Sequences
CONSTANT W

Top == 2^(W-1)                              \* the sign bit
Word == 0..(2^W - 1)
Wrap(n) == n % 2^W

(* Tests and flagless operations on words (the op10m_ macros). *)
Sign(w) == w >= Top
Mag(w) == w % Top
Neg(w) == Wrap(-w)
Not(w) == 2^W - 1 - w
WithSign(s, w) == IF s THEN Mag(w) + Top ELSE Mag(w)
Fill(s) == IF s THEN 2^W - 1 ELSE 0
Value(w) == IF Sign(w) THEN w - 2^W ELSE w

(* The flags, and what an operation answers. *)
Overflow == {"ARO", "TR1"}
NoDivide == Overflow \cup {"DIV"}
FlagIf(c, f) == IF c THEN f ELSE {}
Result(v, f) == [v |-> v, f |-> f]

(* Double negation: floating (low sign clear) and fixed (low sign copied). *)
dmovn(d) == LET lo == Mag(Neg(d[2]))
            IN <<IF lo # 0 THEN Not(d[1]) ELSE Neg(d[1]), lo>>
dneg(d) == LET n == dmovn(d) IN <<n[1], WithSign(Sign(n[1]), n[2])>>

(* MOVN and DMOVN set flags for zero and for the largest negative number. *)
MovnFlags(w) == IF Mag(w) # 0 THEN {}
                ELSE IF Sign(w) THEN Overflow \cup {"CR1"} ELSE {"CR0", "CR1"}
op10movn(w) == Result(Neg(w), MovnFlags(w))
op10dmovn(d) == Result(dmovn(d), FlagIf(Mag(d[2]) = 0, MovnFlags(d[1])))

x_qneg(q) ==
  LET l == Neg(q[4])
      m == Neg(q[3])
      hi == IF Mag(l) # 0 THEN <<Not(q[1]), Not(q[2]), Not(q[3])>>
            ELSE IF Mag(m) # 0 THEN <<Not(q[1]), Not(q[2]), m>>
            ELSE dmovn(<<q[1], q[2]>>) \o <<m>>
  IN <<hi[1]>> \o [k \in 1..3 |-> WithSign(Sign(hi[1]), (hi \o <<l>>)[k+1])]

(* First one bit: the number of zeros to its left, W or 2W-1 when there is none. *)
op10ffo(w) == CHOOSE n \in 0..W : w < 2^(W-n) /\ (n = W \/ w >= 2^(W-n-1))
adffo(d) == IF d[1] # 0 THEN op10ffo(d[1]) ELSE W - 1 + op10ffo(Mag(d[2]))

-----------------------------------------------------------------------------
(* Shifts; a positive count is to the left. *)
(* Mutant: bits shifted out of the word are kept. *)
Lsh_NoWrap(w, n) == IF n >= W \/ n <= -W THEN 0
                    ELSE IF n >= 0 THEN w * 2^n ELSE w \div 2^(-n)
Lsh(w, n) == IF n >= W \/ n <= -W THEN 0
             ELSE IF n >= 0 THEN Wrap(w * 2^n) ELSE w \div 2^(-n)

op10lshc(d, n) ==
  CASE n <= -W -> <<0, IF n < -(2*W) THEN 0 ELSE Lsh(d[1], n + W)>>
    [] n >= W -> <<IF n >= 2*W THEN 0 ELSE Lsh(d[2], n - W), 0>>
    [] n < 0 /\ n > -W -> <<Lsh(d[1], n), Lsh(d[2], n) + Lsh(d[1], W + n)>>
    [] n >= 0 /\ n < W -> <<Lsh(d[1], n) + Lsh(d[2], n - W), Lsh(d[2], n)>>

(* Will a left shift by n lose a bit of significance?  (x_ashflg) *)
(* Mutant: the last bit to be lost is not looked at. *)
x_ashflg_Short(w, n) ==
  LET m == IF Sign(w) THEN Not(w) ELSE w
  IN \/ Sign(w) /\ n > W - 1
     \/ IF n >= W - 1 THEN m # 0 ELSE m >= 2^(W-n)
x_ashflg(w, n) ==
  LET m == IF Sign(w) THEN Not(w) ELSE w
  IN \/ Sign(w) /\ n > W - 1
     \/ IF n >= W - 1 THEN m # 0 ELSE m >= 2^(W-1-n)

x_ash(w, n) == IF n >= 0 THEN WithSign(Sign(w), Lsh(w, n))
               ELSE Wrap(Value(w) \div 2^(IF -n > W - 1 THEN W - 1 ELSE -n))

x_ashc(d, n) ==
  LET s == Sign(d[1])
      lo == Mag(d[2])
  IN CASE n = 0 -> d
       [] n >= W - 1 ->
            <<WithSign(s, IF n >= 2*W - 2 THEN 0 ELSE Lsh(d[2], n - (W-1))), WithSign(s, 0)>>
       [] n > 0 /\ n < W - 1 ->
            <<WithSign(s, Lsh(d[1], n) + Lsh(lo, n - (W-1))), WithSign(s, Lsh(lo, n))>>
       [] n < -(W-1) ->
            <<Fill(s), IF n < -(2*W - 2) THEN Fill(s) ELSE x_ash(d[1], W - 1 + n)>>
       [] n < 0 /\ n >= -(W-1) ->
            <<x_ash(d[1], n), WithSign(s, Lsh(lo, n) + Mag(x_ash(d[1], W - 1 + n)))>>

op10ash(w, n) == Result(x_ash(w, n), FlagIf(n > 0 /\ x_ashflg(w, n), Overflow))

(* ASHC to the left by more than a word is done by hand: the bits lost from HI  *)
(* are all of it, those lost from LO are looked for only if HI loses none.      *)
op10ashc(d, n) ==
  IF n > W - 1
  THEN LET s == Sign(d[1])
           hi == IF s THEN Not(d[1]) ELSE d[1]
           lo == WithSign(s, d[2])
       IN Result(<<x_ash(lo, n - (W-1)), WithSign(s, 0)>>,
                 FlagIf(hi # 0 \/ x_ashflg(lo, n - (W-1)), Overflow))
  ELSE Result(x_ashc(d, n), FlagIf(n > 0 /\ x_ashflg(d[1], n), Overflow))

(* Rotations first make the count positive; a count of -W becomes W, not 0. *)
Canonical(n, size) == IF n < 0 THEN size - ((-n) % size) ELSE n % size
op10rot(w, n) == LET h == Canonical(n, W) IN Lsh(w, h) + Lsh(w, h - W)
op10rotc(d, n) ==
  LET h == Canonical(n, 2*W)
      e == IF h >= W THEN <<d[2], d[1]>> ELSE d
      r == IF h >= W THEN h - W ELSE h
  IN <<Lsh(e[1], r) + Lsh(e[2], r - W), Lsh(e[2], r) + Lsh(e[1], r - W)>>

(* CIRC: the second word is filled and emptied from its other end. *)
hrev(w) == LET rev[k \in 0..W] == IF k = 0 THEN 0
                                  ELSE 2 * rev[k-1] + ((w \div 2^(k-1)) % 2)
           IN rev[W]
op10circ(d, n) ==
  LET h == Canonical(n, 2*W)
      e == IF h >= W THEN <<hrev(d[2]), hrev(d[1])>> ELSE d
      r == IF h >= W THEN h - W ELSE h
  IN <<Lsh(e[1], r) + Lsh(hrev(e[2]), r - W), Lsh(e[2], -r) + Lsh(hrev(e[1]), W - r)>>

-----------------------------------------------------------------------------
(* Addition and subtraction: the flags follow from three signs (ADDFLAGS and      *)
(* SUBFLAGS).                                                                     *)
ADDFLAGS(sum, a, b) ==
  CASE Sign(a) /\ Sign(b) -> IF Sign(sum) THEN {"CR0", "CR1"} ELSE Overflow \cup {"CR0"}
    [] ~Sign(a) /\ ~Sign(b) -> FlagIf(Sign(sum), Overflow \cup {"CR1"})
    [] Sign(a) # Sign(b) -> FlagIf(~Sign(sum), {"CR0", "CR1"})
SUBFLAGS(dif, a, b) ==
  CASE Sign(a) = Sign(b) -> FlagIf(~Sign(dif), {"CR0", "CR1"})
    [] ~Sign(a) /\ Sign(b) -> FlagIf(Sign(dif), Overflow \cup {"CR1"})
    [] Sign(a) /\ ~Sign(b) -> {"CR0"} \cup IF Sign(dif) THEN {"CR1"} ELSE Overflow

op10add(a, b) == LET sum == Wrap(a + b) IN Result(sum, ADDFLAGS(sum, a, b))
op10sub(a, b) == LET dif == Wrap(a - b) IN Result(dif, SUBFLAGS(dif, a, b))

(* Their immediate forms take an unsigned halfword. *)
op10mf_addi(w, r) == LET sum == Wrap(w + r)
                     IN Result(sum, IF Sign(w) THEN FlagIf(~Sign(sum), {"CR0", "CR1"})
                                    ELSE FlagIf(Sign(sum), Overflow \cup {"CR1"}))
op10mf_subi(w, r) == LET dif == Wrap(w - r)
                     IN Result(dif, IF Sign(w) THEN {"CR0"} \cup IF Sign(dif) THEN {"CR1"} ELSE Overflow
                                    ELSE FlagIf(~Sign(dif), {"CR0", "CR1"}))

(* A carry out of the low word shows in its sign bit. *)
x_dadd(a, b) == LET lo == Mag(a[2]) + Mag(b[2])
                    hi == Wrap(a[1] + b[1] + IF Sign(lo) THEN 1 ELSE 0)
                IN <<hi, WithSign(Sign(hi), lo)>>
x_dsub(a, b) == x_dadd(a, dmovn(b))
op10dadd(a, b) == LET d == x_dadd(a, b) IN Result(d, ADDFLAGS(d[1], a[1], b[1]))
op10dsub(a, b) ==
  LET lo == Wrap(Mag(a[2]) - Mag(b[2]))
      hi == Wrap(a[1] - b[1] - IF Sign(lo) THEN 1 ELSE 0)
  IN Result(<<hi, WithSign(Sign(hi), lo)>>, SUBFLAGS(hi, a[1], b[1]))

-----------------------------------------------------------------------------
(* Multiplication: of magnitudes, then the sign.  Negating the largest negative   *)
(* number leaves it, which is wanted (it is 2^(W-1) unsigned) except when both    *)
(* operands are that.                                                             *)
Abs(w) == IF Sign(w) THEN Neg(w) ELSE w
op10xmul(a, b) == LET p == a * b IN <<Wrap(p \div Top), p % Top>>

(* Mutant: the largest negative product counts as an overflow. *)
op10imul_NoMaxneg(a, b) ==
  LET sign == Sign(a) # Sign(b)
      d == op10xmul(Abs(a), Abs(b))
  IN IF a = Top /\ b = Top THEN Result(Top, Overflow)
     ELSE Result((IF sign THEN dneg(d) ELSE d)[2], FlagIf(d[1] # 0, Overflow))
op10imul(a, b) ==
  LET sign == Sign(a) # Sign(b)
      d == op10xmul(Abs(a), Abs(b))
  IN IF a = Top /\ b = Top THEN Result(Top, Overflow)
     ELSE Result((IF sign THEN dneg(d) ELSE d)[2],
                 FlagIf(d[1] # 0 /\ ~(sign /\ d[1] = 1 /\ d[2] = 0), Overflow))

op10mul(a, b) ==
  LET d == op10xmul(Abs(a), Abs(b))
  IN IF a = Top /\ b = Top THEN Result(<<Top, Top>>, Overflow)
     ELSE Result(IF Sign(a) # Sign(b) THEN dneg(d) ELSE d, {})

(* The unsigned double product: 2W-1 bits each, so HI of the quad may reach the   *)
(* sign, which the low words then copy.                                           *)
x_dmul(a, b) ==
  LET p == (a[1] * Top + Mag(a[2])) * (b[1] * Top + Mag(b[2]))
      hi == Wrap(p \div Top^3)
  IN <<hi>> \o [k \in 1..3 |-> WithSign(Sign(hi), p \div Top^(3-k))]

op10dmul(a, b) ==
  LET da == IF Sign(a[1]) THEN dneg(a) ELSE a
      db == IF Sign(b[1]) THEN dneg(b) ELSE b
      p == x_dmul(da, db)
  IN IF Sign(b[1]) /\ Sign(db[1]) /\ Sign(da[1]) THEN Result([k \in 1..4 |-> Top], Overflow)
     ELSE Result(IF Sign(a[1]) # Sign(b[1]) THEN x_qneg(p) ELSE p, {})

-----------------------------------------------------------------------------
(* Division without restoring: each step shifts a bit of the dividend in, then     *)
(* subtracts the divisor or, after a step that went below zero, adds it.  The      *)
(* answer is <<>> when the quotient would not fit, else <<quotient, remainder>>.   *)
ddivstep(d, w, n, qsign) ==
  LET hi == Wrap(d[1] - w)
      step[k \in 0..n] ==
        IF k = 0 THEN [hi |-> hi, lo |-> Wrap(2 * d[2]), q |-> 0]
        ELSE LET s == step[k-1]
                 sh == Wrap(2 * s.hi + IF Sign(s.lo) THEN 1 ELSE 0)
                 r == Wrap(IF s.q % 2 = 1 THEN sh - w ELSE sh + w)
             IN [hi |-> r, lo |-> Wrap(2 * s.lo), q |-> Wrap(2 * s.q + IF Sign(r) THEN 0 ELSE 1)]
      Answer(end) == <<end.q, end.hi>>
  IN IF Sign(hi) THEN Answer(step[n])
     ELSE IF qsign /\ hi = 0 /\ Mag(d[2]) < w THEN <<Top, Mag(d[2])>>
     ELSE <<>>

(* Magnitudes are divided, small ones by the host.  *)
QuickBits == W - 4
Restored(qr, den) == IF qr = <<>> THEN <<>>
                     ELSE <<qr[1], IF Sign(qr[2]) THEN Wrap(qr[2] + den) ELSE qr[2]>>
MagDiv(num, den, qsign) ==
  IF num[1] = 0 /\ num[2] < 2^QuickBits /\ den < 2^QuickBits
  THEN <<num[2] \div den, num[2] % den>>
  ELSE Restored(ddivstep(num, den, W - 1, qsign), den)
Signed(qr, qsign, rsign) == IF qr = <<>> THEN <<>>
                            ELSE <<IF qsign THEN Neg(qr[1]) ELSE qr[1], IF rsign THEN Neg(qr[2]) ELSE qr[2]>>
x_div(d, w) ==
  LET sign == Sign(d[1])
      qsign == sign # Sign(w)
  IN IF w = 0 THEN <<>>
     ELSE Signed(MagDiv(IF sign THEN dmovn(d) ELSE d, Abs(w), qsign), qsign, sign)

(* IDIV keeps the dividend when the only obstacle is a positive divisor (KLX). *)
Divided(qr, otherwise) == IF qr # <<>> THEN Result(qr, {})
                          ELSE Result(otherwise, FlagIf(otherwise = <<>>, NoDivide))
op10xidiv(a, b) == Divided(x_div(<<Fill(Sign(a)), a>>, b), IF Sign(b) \/ b = 0 THEN <<>> ELSE <<a, 0>>)
op10xdiv(d, w) == Divided(x_div(d, w), <<>>)

(* A quad shifted left by one, logically in its highest word. *)
x_qash1(q) == [k \in 1..4 |-> IF k = 1 THEN Wrap(2 * q[1] + IF Mag(q[2]) >= Top \div 2 THEN 1 ELSE 0)
                              ELSE Mag(2 * q[k]) + IF k < 4 /\ Mag(q[k+1]) >= Top \div 2 THEN 1 ELSE 0]

qdivstep(q, d, n) ==
  LET first == x_dsub(<<q[1], q[2]>>, d)
      Subtract(s, hi) == IF s.quot % 2 = 1 THEN x_dsub(hi, d) ELSE x_dadd(hi, d)
      After(s, sh, r) == [q |-> r \o <<sh[3], sh[4]>>, quot |-> 2 * s.quot + IF Sign(r[1]) THEN 0 ELSE 1]
      Shifted(s, sh) == After(s, sh, Subtract(s, <<sh[1], sh[2]>>))
      step[k \in 0..n] == IF k = 0 THEN [q |-> first \o <<q[3], q[4]>>, quot |-> 0]
                          ELSE LET s == step[k-1] IN Shifted(s, x_qash1(s.q))
      Answer(end) == <<Wrap(end.quot \div Top), end.quot % Top, end.q[1], end.q[2]>>
  IN IF Sign(first[1]) THEN Answer(step[n]) ELSE <<>>

(* DDIV goes to the single division when high words are empty; a failing division *)
(* answers with the dividend.                                                     *)
SmallDiv(lo, one) == IF one = <<>> THEN <<>> ELSE <<lo, one[1], 0, one[2]>>
DRestored(qr, den) ==
  IF qr = <<>> THEN <<>>
  ELSE <<qr[1], qr[2]>> \o IF Sign(qr[3]) THEN x_dadd(<<qr[3], qr[4]>>, den) ELSE <<qr[3], qr[4]>>
DMagDiv(num, den) ==
  IF num[1] = 0 /\ Mag(num[2]) = 0 /\ Mag(num[3]) = 0 /\ den[1] = 0
  THEN SmallDiv(num[1], x_div(<<Mag(num[3]), num[4]>>, Mag(den[2])))
  ELSE DRestored(qdivstep(num, den, 2*W - 2), den)
DSigned(quo, left, qsign, rsign) ==
  Result((IF qsign THEN dneg(quo) ELSE quo) \o (IF rsign THEN dneg(left) ELSE left), {})
DAnswer(q, qr, qsign, rsign) == IF qr = <<>> THEN Result(q, NoDivide)
                                ELSE DSigned(<<qr[1], qr[2]>>, <<qr[3], qr[4]>>, qsign, rsign)
op10ddiv(q, d) ==
  LET rsign == Sign(q[1])
  IN IF d[1] = 0 /\ Mag(d[2]) = 0 THEN Result(q, NoDivide)
     ELSE DAnswer(q, DMagDiv(IF rsign THEN x_qneg(q) ELSE q, IF Sign(d[1]) THEN dmovn(d) ELSE d),
                  rsign # Sign(d[1]), rsign)
=============================================================================
