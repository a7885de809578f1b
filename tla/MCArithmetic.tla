---------------------------- MODULE MCArithmetic ----------------------------
(* Fixed-point words of 6 bits, floats of 12 with 5 exponent bits, doubles of two  *)
(* words of 10 with 4.  The floating operands are normalized numbers, positive    *)
(* ones and their negatives.                                                      *)
EXTENDS Arithmetic

MCEnds == {0, 1, 2, 15, 16, 30, 31, 32, 33, 47, 48, 62, 63}
MCQuadEnds == {0, 1, 31, 32, 63}
MCCounts == -14..14

MCFloats == LET positive == {64 * e + f : e \in {0, 1, 12, 17, 27, 28, 30, 31}, f \in {32, 33, 43, 48, 62, 63}}
            IN positive \cup {4096 - w : w \in positive}
MCFloatDoubles ==
  LET high == {32 * e + f : e \in {0, 3, 7, 8, 14, 15}, f \in {16, 25, 31}}
      low == {1, 256, 257, 511}
  IN {<<h, l>> : h \in high, l \in low \cup {0}} \cup {<<1023 - h, 512 - l>> : h \in high, l \in low}
       \cup {<<1024 - h, 0>> : h \in high}
=============================================================================
