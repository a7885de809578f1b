------------------------------ MODULE BlockSteps ------------------------------
(* Moving words, BLT (inmove.c) and XBLT (inexts.c), a word at a time, and the byte
   instructions (inbyte.c), which are stopped at one place only.  The addresses of a
   block are in the Y of the clean pointers, the words left to move in x.num.       *)
EXTENDS StringSteps

Stepped(x, by) == [x EXCEPT !.s1.y = @ + by, !.s2.y = @ + by, !.num = @ - by]
Copied(x, w)  == [x EXCEPT !.mem[x.s2.y] = w]

\* BLT of one word, or of a block that ends before it begins: the AC is left as if all of
\* it had been moved, up or down.
OneWordStep(x, gone) ==
    IF gone \in {Data(x.s1.y), Data(x.s2.y)}
    THEN [x EXCEPT !.res = "PF"]
    ELSE [Stepped(Copied(x, x.mem[x.s1.y]), x.num) EXCEPT !.res = "WON"]

\* BLT.  Into the word after the source, the source is read once.  The interrupt is
\* looked for before a word is moved.
BltStep(x, gone, brk) ==
    LET same == x.s1.y + 1 = x.s2.y
        w    == IF same /\ x.s1.vp THEN x.s1.wd ELSE x.mem[x.s1.y]
        y    == [x EXCEPT !.s1.vp = same, !.s1.wd = IF same THEN w ELSE <<>>]
    IN IF x.num <= 1 /\ x.first
       THEN OneWordStep(x, gone)
       ELSE IF same /\ ~x.s1.vp /\ gone = Data(x.s1.y)
       THEN [x EXCEPT !.res = "PF"]
       ELSE IF brk
       THEN [x EXCEPT !.res = "PI"]
       ELSE IF gone = Data(x.s2.y) \/ (~same /\ gone = Data(x.s1.y))
       THEN [x EXCEPT !.res = "PF"]
       ELSE [Stepped(Copied(y, w), 1) EXCEPT !.first = FALSE, !.res = IF x.num = 1 THEN "WON" ELSE "RUN"]

\* Mutant: the interrupt is looked for before the word is moved.
XbltStep_Early(x, gone, brk) ==
    LET here == IF x.num < 0 THEN Stepped(x, -1) ELSE x
        y    == Copied(here, x.mem[here.s1.y])
        z    == IF x.num < 0 THEN y ELSE Stepped(y, 1)
    IN IF brk THEN [x EXCEPT !.res = "PI"]
       ELSE IF gone \in {Data(here.s1.y), Data(here.s2.y)} THEN [x EXCEPT !.res = "PF"]
       ELSE [z EXCEPT !.res = IF z.num = 0 THEN "WON" ELSE "RUN"]
\* XBLT, up or down; a word that can not be moved is not counted.
XbltStep(x, gone, brk) ==
    LET here == IF x.num < 0 THEN Stepped(x, -1) ELSE x
        y    == Copied(here, x.mem[here.s1.y])
        z    == IF x.num < 0 THEN y ELSE Stepped(y, 1)
    IN IF gone \in {Data(here.s1.y), Data(here.s2.y)} THEN [x EXCEPT !.res = "PF"]
       ELSE [z EXCEPT !.res = Later(z.num = 0, brk)]

-----------------------------------------------------------------------------
\* A byte pointer in memory, one byte on.  Here a one-word global pointer stays one.
Incremented(bp) ==
    IF bp.p > 0 THEN [bp EXCEPT !.p = @ - 1] ELSE [bp EXCEPT !.p = BytesPerWord - 1, !.y = @ + 1]

\* ADJBP: n bytes on or back, q words and r bytes with 1 <= r <= BytesPerWord.
Adjusted(bp, n) ==
    LET l    == BytesPerWord - bp.p
        cw   == n + l
        mag  == IF cw < 0 THEN -cw ELSE cw
        q    == (mag \div BytesPerWord) * (IF cw < 0 THEN -1 ELSE 1)
        r    == mag % BytesPerWord
        back == cw < 0 \/ r = 0
    IN [bp EXCEPT !.y = @ + q - (IF back THEN 1 ELSE 0),
                  !.p = BytesPerWord - (IF back THEN BytesPerWord - r ELSE r)]

\* The word a pointer kept in memory is in.
PointerWord == <<"pointer", 0>>

\* LDB, DPB and the second part of ILDB, IDPB, which is done from the pointer as the first
\* part left it; FPD goes off when the byte has been moved.
ByteStep(x, gone) ==
    LET word == x.mem[x.s1.y]
        i    == BytesPerWord - x.s1.p
        y    == [x EXCEPT !.flags = IF x.op \in {"ILDB", "IDPB"} THEN @ \ {"FPD"} ELSE @, !.res = "WON"]
    IN IF gone = Data(x.s1.y)
       THEN [x EXCEPT !.res = "PF"]
       ELSE IF x.op \in {"LDB", "ILDB"}
       THEN [y EXCEPT !.num = word[i]]
       ELSE [y EXCEPT !.mem[x.s1.y] = [word EXCEPT ![i] = x.num]]
=============================================================================
