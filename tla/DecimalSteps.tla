---------------------------- MODULE DecimalSteps ----------------------------
(* The conversions between strings of digits and binary numbers (inexts.c): CVTBDx
   and CVTDBx, each with an offset (O) or a translation table (T), a turn of their
   loops at a time.  The ACs hold the number, in x.num.                           *)
EXTENDS StringSteps

CONSTANT DigitTable     \* what CVTBDT finds for a digit: its byte, and that of a last digit after a minus

ASSUME DigitAssumption == DigitTable \in [0..Radix - 1 -> [rh : Byte, lh : Byte]]

Digit(d) == <<"digit", d>>

\* dpow10, and cvtb_digcnt: how many digits a number takes, one at least.
Power[n \in Nat] == IF n = 0 THEN 1 ELSE Radix * Power[n - 1]
DigitCount(n) == CHOOSE i \in 1..n + 1 : n < Power[i] /\ (i = 1 \/ Power[i - 1] <= n)

Magnitude(n) == IF n < 0 THEN -n ELSE n

\* What ix_cvtbd leaves in the flags before it stores anything.
Signed(num, flags) ==
    flags \cup (IF num < 0 THEN {"N", "M"} ELSE IF num > 0 THEN {"N"} ELSE {})

\* CVTBDx, the padding: x.nd digits are to come, x.len2 bytes are left.
PadNumber(x, gone, brk) ==
    LET dst == xidpb(x.mem, gone, x.s2, x.e0[1])
    IN IF dst.ok
       THEN [x EXCEPT !.mem = dst.mem, !.s2 = dst.s, !.len2 = @ - 1, !.res = IF brk THEN "PI" ELSE "RUN"]
       ELSE [x EXCEPT !.s2 = dst.s, !.res = "PF"]

\* The byte of a digit, cut to the size of a byte when it is stored.
DigitByte(x, dig) ==
    IF x.op = "CVTBDO" THEN (Offset + dig) % ByteSize
    ELSE IF x.nd = 1 /\ "M" \in x.flags THEN DigitTable[dig].lh ELSE DigitTable[dig].rh

\* The next digit; on a page fail the number is rolled back.
DigitStep(x, gone, brk) ==
    LET unit == Power[x.nd - 1]
        dig  == x.num \div unit
        b    == DigitByte(x, dig)
        dst  == xidpb(x.mem, gone, x.s2, b)
    IN IF x.op = "CVTBDT" /\ gone = Digit(dig)
       THEN [x EXCEPT !.res = "PF"]
       ELSE IF ~dst.ok
       THEN [x EXCEPT !.s2 = dst.s, !.res = "PF"]
       ELSE [x EXCEPT !.mem = dst.mem, !.s2 = dst.s, !.nd = @ - 1,
                      !.num = IF x.nd = 1 THEN 0 ELSE @ % unit, !.res = Later(x.nd = 1, brk)]

\* CVTBDx: the padding is asked for by the L flag, which is the S flag.
BinaryStep(x, gone, brk) ==
    IF x.pads /\ x.len2 > x.nd THEN PadNumber(x, gone, brk) ELSE [DigitStep(x, gone, brk) EXCEPT !.pads = FALSE]

\* CVTDBx: one digit more; a number with the M flag is negated when the string is done.
DecimalStep(x, gone, brk) ==
    LET src   == xildb(x.mem, gone, x.s1)
        trans == x.op = "CVTDBT"
        ent   == Table[src.b]
        flags == IF trans THEN Coded(ent.code, x.flags) ELSE x.flags
        dig   == IF trans THEN ent.byte ELSE src.b + Offset
        num   == IF (trans => "S" \in flags) THEN x.num * Radix + dig ELSE x.num
        after == [x EXCEPT !.s1 = src.s, !.len1 = @ - 1, !.flags = flags]
    IN IF ~src.ok
       THEN [x EXCEPT !.s1 = src.s, !.res = "PF"]
       ELSE IF trans /\ gone = Entry(src.b)
       THEN [x EXCEPT !.s1 = xdecbp(src.s), !.res = "PF"]
       ELSE IF \/ trans /\ Stops(ent.code)
               \/ (trans => "S" \in flags) /\ dig \notin 0..Radix - 1
       THEN [after EXCEPT !.res = "TRUNC"]
       ELSE [after EXCEPT !.num = num, !.res = Later(x.len1 = 1, brk)]
=============================================================================
