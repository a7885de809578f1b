----------------------------- MODULE StringSteps -----------------------------
(* The EXTEND string instructions (inexts.c) one turn of their loops at a time.

   x is an execution in progress: the memory, the clean pointers and counts the routine
   keeps in its variables, the flags, and res, which is "RUN" until the routine leaves
   its loop: WON and TRUNC end the instruction (WON skips), PF and PI are the page fail
   and the interrupt that end it half way.  gone is what is not in memory, brk what
   INSBRKTEST finds at the end of the turn; x.e0 are the words after E0, the fill
   bytes of these instructions.                                                     *)
EXTENDS Integers, BytePointers

CONSTANTS
    ByteSize,       \* a byte is in 0..ByteSize - 1
    Radix,          \* ten
    Offset,         \* E1 of MOVSO, CVTBDO and CVTDBO
    Table           \* what MOVST and CVTDBT find for a byte: a code and a byte

ASSUME StringAssumption ==
    /\ ByteSize \in Nat \ {0} /\ Radix \in Nat \ {0, 1} /\ Radix <= ByteSize
    /\ Offset \in Int
    /\ Table \in [0..ByteSize - 1 -> [code : 0..7, byte : 0..ByteSize - 1]]

Byte == 0..ByteSize - 1

\* A word of the translation table holds two entries.
Entry(b) == <<"table", b \div 2>>
FillAt(n) == <<"fill", n>>

Later(done, brk) == IF done THEN "WON" ELSE IF brk THEN "PI" ELSE "RUN"

\* A fill byte.
Pad(x, gone, brk) ==
    LET dst == xidpb(x.mem, gone, x.s2, x.e0[1])
    IN IF dst.ok
       THEN [x EXCEPT !.mem = dst.mem, !.s2 = dst.s, !.len2 = @ - 1, !.res = Later(x.len2 = 1, brk)]
       ELSE [x EXCEPT !.s2 = dst.s, !.res = "PF"]

\* Mutant: the source pointer is not backed up.
Deposit_NoBackup(x, gone, s1, b, flags, next) ==
    LET dst == xidpb(x.mem, gone, x.s2, b)
    IN IF dst.ok
       THEN [x EXCEPT !.mem = dst.mem, !.s1 = s1, !.s2 = dst.s, !.len1 = @ - 1, !.len2 = @ - 1,
                      !.flags = flags, !.res = next]
       ELSE [x EXCEPT !.s1 = s1, !.s2 = dst.s, !.flags = flags, !.res = "PF"]
\* The byte just read with s1 is stored, or the read is undone.
Deposit(x, gone, s1, b, flags, next) ==
    LET dst == xidpb(x.mem, gone, x.s2, b)
    IN IF dst.ok
       THEN [x EXCEPT !.mem = dst.mem, !.s1 = s1, !.s2 = dst.s, !.len1 = @ - 1, !.len2 = @ - 1,
                      !.flags = flags, !.res = next]
       ELSE [x EXCEPT !.s1 = xdecbp(s1), !.s2 = dst.s, !.flags = flags, !.res = "PF"]

\* MOVSLJ and MOVSO, which adds the offset and stops at a byte that does not fit.
\* The padding is not interrupted.
MoveStep(x, gone, brk) ==
    LET src  == xildb(x.mem, gone, x.s1)
        b    == src.b + (IF x.op = "MOVSO" THEN Offset ELSE 0)
        both == x.len1 = x.len2
    IN IF x.len1 = 0
       THEN Pad(x, gone, FALSE)
       ELSE IF ~src.ok
       THEN [x EXCEPT !.s1 = src.s, !.res = "PF"]
       ELSE IF b \notin Byte
       THEN [x EXCEPT !.s1 = src.s, !.len1 = @ - 1, !.res = "TRUNC"]
       ELSE Deposit(x, gone, src.s, b, x.flags,
                    IF x.len2 = 1 THEN IF both THEN "WON" ELSE "TRUNC"
                    ELSE IF brk THEN "PI" ELSE "RUN")

\* The flags after a translation with a code: significance, non-zero, minus.
Coded(code, flags) ==
    CASE code = 2 -> flags \ {"M"}
      [] code = 3 -> flags \cup {"M"}
      [] code = 4 -> flags \cup {"S", "N"}
      [] code = 5 -> flags \cup {"N"}
      [] code = 6 -> {"S", "N"}
      [] code = 7 -> {"S", "N", "M"}
      [] OTHER    -> flags
Stops(code) == code \in {1, 5}

\* MOVST.  A byte is stored once significance has started.
TranslateStep(x, gone, brk) ==
    LET src   == xildb(x.mem, gone, x.s1)
        ent   == Table[src.b]
        flags == Coded(ent.code, x.flags)
        goes  == IF x.len1 > 1 /\ brk THEN "PI" ELSE "RUN"
    IN IF x.len1 = 0
       THEN Pad(x, gone, brk)
       ELSE IF ~src.ok
       THEN [x EXCEPT !.s1 = src.s, !.res = "PF"]
       ELSE IF gone = Entry(src.b)
       THEN [x EXCEPT !.s1 = xdecbp(src.s), !.res = "PF"]
       ELSE IF Stops(ent.code)
       THEN [x EXCEPT !.s1 = src.s, !.len1 = @ - 1, !.flags = flags, !.res = "TRUNC"]
       ELSE IF "S" \notin flags
       THEN [x EXCEPT !.s1 = src.s, !.len1 = @ - 1, !.flags = flags, !.res = goes]
       ELSE Deposit(x, gone, src.s, ent.byte, flags,
                    IF x.len2 > 1 THEN goes ELSE IF x.len1 > 1 THEN "TRUNC" ELSE "WON")

\* MOVSRJ: fill until as much is wanted as there is, then copy.
RightStep(x, gone, brk) ==
    LET src == xildb(x.mem, gone, x.s1)
        pad == Pad(x, gone, brk)
    IN IF x.len1 < x.len2
       THEN IF pad.len2 = x.len1 /\ pad.res = "PI" THEN [pad EXCEPT !.res = "RUN"] ELSE pad
       ELSE IF ~src.ok
       THEN [x EXCEPT !.s1 = src.s, !.res = "PF"]
       ELSE Deposit(x, gone, src.s, src.b, x.flags, Later(x.len2 = 1, brk))

\* CMPSx.  The shorter string goes on with its fill byte.
CompareStep(x, gone, brk) ==
    LET fetch(len, s) == IF len > 0 THEN xildb(x.mem, gone, s)
                         ELSE [ok |-> TRUE, s |-> s, b |-> x.e0[IF x.fill2 THEN 2 ELSE 1]]
        one  == fetch(x.len1, x.s1)
        two  == fetch(x.len2, x.s2)
        less(n) == IF n > 0 THEN n - 1 ELSE 0
    IN IF x.len1 = 0 /\ x.len2 = 0
       THEN [x EXCEPT !.res = "EQ"]
       ELSE IF ~one.ok
       THEN [x EXCEPT !.s1 = one.s, !.res = "PF"]
       ELSE IF ~two.ok
       THEN [x EXCEPT !.s1 = IF x.len1 > 0 THEN xdecbp(one.s) ELSE one.s, !.s2 = two.s, !.res = "PF"]
       ELSE [x EXCEPT !.s1 = one.s, !.s2 = two.s, !.len1 = less(@), !.len2 = less(@),
                      !.res = IF one.b < two.b THEN "LT" ELSE IF one.b > two.b THEN "GT"
                              ELSE IF brk THEN "PI" ELSE "RUN"]
=============================================================================
