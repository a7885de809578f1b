-------------------------- MODULE InstructionEffects --------------------------
(* What an instruction does that nothing stops half way, said of whole strings and
   blocks: the reference the turn by turn modules are checked against.  i is the
   instruction, m the memory and a the ACs it finds.  Where comments of inexts.c
   promise something else than its code does, this is what the comments promise.  *)
EXTENDS DecimalSteps, EditSteps, BlockSteps

Moves    == {"MOVSLJ", "MOVSO", "MOVST", "MOVSRJ"}
ToText   == {"CVTBDO", "CVTBDT"}
ToNumber == {"CVTDBO", "CVTDBT"}
Bytes    == {"LDB", "DPB", "ILDB", "IDPB"}
Ops == Moves \cup ToText \cup ToNumber \cup {"CMPS", "EDIT", "BLT", "XBLT", "IBP", "ADJBP"} \cup Bytes

\* What a reader of memory and ACs can tell; pointers count by where they point.
Seen(m, a, how) ==
    [mem |-> m, how |-> how, flags |-> a.flags, num |-> a.num, at |-> a.at, mark |-> Position(a.mark),
     len1 |-> a.len1, at1 |-> Position(a.bp1), len2 |-> a.len2, at2 |-> Position(a.bp2)]

\* used bytes of the first string are taken and text goes to the second.
Moved(m, a, used, text, how, flags) ==
    [Seen(Laid(m, a.bp2, text), a, how) EXCEPT
        !.flags = flags, !.len1 = @ - used, !.at1 = @ + used,
        !.len2 = @ - Len(text), !.at2 = @ + Len(text)]

Filling(i, n) == [k \in 1..n |-> i.e0[1]]
Lesser(m, n) == IF m < n THEN m ELSE n

\* A byte that does not fit is backed up (165-167), so that a new try fails as well.
MoveEffect(i, m, a, off) ==
    LET n    == Lesser(a.len1, a.len2)
        text == [k \in 1..n |-> Text(m, a.bp1, n)[k] + off]
        bad  == {k \in 1..n : text[k] \notin Byte}
        stop == CHOOSE k \in bad : \A j \in bad : k <= j
    IN IF bad # {}
       THEN Moved(m, a, stop - 1, SubSeq(text, 1, stop - 1), "TRUNC", a.flags)
       ELSE Moved(m, a, n, text \o Filling(i, a.len2 - n),
                  IF a.len1 > a.len2 THEN "TRUNC" ELSE "WON", a.flags)

TranslateEffect(i, m, a) ==
    LET src == Text(m, a.bp1, a.len1)
        T[k \in 0..a.len1] ==
            IF k = 0 THEN [flags |-> a.flags, text |-> <<>>, used |-> 0, how |-> "RUN"]
            ELSE LET t     == T[k - 1]
                     ent   == Table[src[k]]
                     flags == Coded(ent.code, t.flags)
                     text  == IF "S" \in flags THEN Append(t.text, ent.byte) ELSE t.text
                     full  == Len(text) = a.len2 /\ k < a.len1 /\ "S" \in flags
                 IN IF t.how = "TRUNC" THEN t
                    ELSE IF Stops(ent.code)
                    THEN [t EXCEPT !.flags = flags, !.used = k, !.how = "TRUNC"]
                    ELSE [flags |-> flags, text |-> text, used |-> k,
                          how |-> IF full THEN "TRUNC" ELSE "RUN"]
        t == T[a.len1]
    IN IF a.len2 = 0
       THEN Moved(m, a, 0, <<>>, IF a.len1 = 0 THEN "WON" ELSE "TRUNC", a.flags)
       ELSE IF t.how = "TRUNC"
       THEN Moved(m, a, t.used, t.text, "TRUNC", t.flags)
       ELSE Moved(m, a, t.used, t.text \o Filling(i, a.len2 - Len(t.text)), "WON", t.flags)

\* The end of the first string, against the right edge of the second; the whole of it is
\* used one way or another (1569-1571).
RightEffect(i, m, a) ==
    LET n    == Lesser(a.len1, a.len2)
        text == SubSeq(Text(m, a.bp1, a.len1), a.len1 - n + 1, a.len1)
    IN Moved(m, a, a.len1, Filling(i, a.len2 - n) \o text, "WON", a.flags)

CompareEffect(i, m, a) ==
    LET n      == IF a.len1 < a.len2 THEN a.len2 ELSE a.len1
        fill   == i.e0[IF a.len1 > a.len2 THEN 2 ELSE 1]
        at(bp, len, k) == IF k <= len THEN Text(m, bp, len)[k] ELSE fill
        b1(k)  == at(a.bp1, a.len1, k)
        b2(k)  == at(a.bp2, a.len2, k)
        differ == {k \in 1..n : b1(k) # b2(k)}
        first  == CHOOSE k \in differ : \A j \in differ : k <= j
        seen   == IF differ = {} THEN n ELSE first
        n1     == Lesser(seen, a.len1)
        n2     == Lesser(seen, a.len2)
    IN [Seen(m, a, IF differ = {} THEN "EQ" ELSE IF b1(first) < b2(first) THEN "LT" ELSE "GT")
            EXCEPT !.len1 = @ - n1, !.at1 = @ + n1, !.len2 = @ - n2, !.at2 = @ + n2]

ToTextEffect(i, m, a) ==
    LET flags == Signed(a.num, a.flags)
        n     == Magnitude(a.num)
        nd    == DigitCount(n)
        dig(k) == (n \div Power[nd - k]) % Radix
        byte(k) == IF i.op = "CVTBDO" THEN (Offset + dig(k)) % ByteSize
                   ELSE IF k = nd /\ "M" \in flags THEN DigitTable[dig(k)].lh ELSE DigitTable[dig(k)].rh
        pad   == IF "S" \in flags THEN Filling(i, a.len2 - nd) ELSE <<>>
        text  == pad \o [k \in 1..nd |-> byte(k)]
    IN IF nd > a.len2
       THEN [Seen(m, a, "TRUNC") EXCEPT !.flags = flags]
       ELSE [Moved(m, a, 0, text, "WON", flags) EXCEPT !.num = 0, !.len2 = 0]

\* The bytes converted.  Of a digit from the table the bits are just masked, and not tested
\* for being more than nine (219-221), which high says one was.
Converted(i, m, a) ==
    LET src == Text(m, a.bp1, a.len1)
        T[k \in 0..a.len1] ==
            IF k = 0
            THEN [flags |-> IF i.op = "CVTDBO" THEN a.flags \cup {"S"} ELSE a.flags, used |-> 0,
                  num |-> IF "S" \in a.flags THEN a.num ELSE 0, how |-> "WON", high |-> FALSE]
            ELSE LET t     == T[k - 1]
                     ent   == Table[src[k]]
                     trans == i.op = "CVTDBT"
                     flags == IF trans THEN Coded(ent.code, t.flags) ELSE t.flags
                     dig   == IF trans THEN ent.byte ELSE src[k] + Offset
                     bad   == IF trans THEN Stops(ent.code) ELSE dig \notin 0..Radix - 1
                     goes  == ~bad /\ "S" \in flags
                 IN IF t.how = "TRUNC" THEN t
                    ELSE [flags |-> flags, used |-> k, how |-> IF bad THEN "TRUNC" ELSE "WON",
                          num |-> IF goes THEN t.num * Radix + dig ELSE t.num,
                          high |-> t.high \/ (goes /\ dig >= Radix)]
    IN T[a.len1]

ToNumberEffect(i, m, a) ==
    LET t == Converted(i, m, a)
    IN [Seen(m, a, t.how) EXCEPT
            !.flags = t.flags, !.len1 = @ - t.used, !.at1 = @ + t.used,
            !.num = IF t.how = "WON" /\ "M" \in t.flags THEN -t.num ELSE t.num]

\* EDIT, a command after another; t is what it has come to.
Past(bp) == IF bp.p > 0 THEN [bp EXCEPT !.p = @ - 1] ELSE [bp EXCEPT !.p = BytesPerWord - 1, !.y = @ + 1]
Put(t, b) == [t EXCEPT !.mem = Laid(@, t.dst, <<b>>), !.dst = Past(@)]
PutIf(t, b) == IF b = 0 THEN t ELSE Put(t, b)
Signify(i, t) ==
    IF "S" \in t.flags THEN t
    ELSE [PutIf([t EXCEPT !.mark = t.dst], i.e0[2]) EXCEPT !.flags = @ \cup {"S"}]

Chosen(i, t) ==
    LET ent == Table[Text(t.mem, t.src, 1)[1]]
        u   == [t EXCEPT !.src = Past(@), !.flags = Coded(ent.code, @) \ ({"S"} \ @), !.at = @ + 1]
    IN CASE ent.code \in {1, 5}    -> [u EXCEPT !.how = "TRUNC"]
         [] ent.code \in {4, 6, 7} -> Put(Signify(i, u), ent.byte)
         [] OTHER -> IF "S" \in t.flags THEN Put(u, ent.byte) ELSE PutIf(u, i.e0[1])

Commanded(i, t) ==
    LET c == i.pattern[t.at + 1]
        u == [t EXCEPT !.at = @ + 1]
        skips == \/ c[1] = "SKPA"
                 \/ c[1] = "SKPM" /\ "M" \in t.flags
                 \/ c[1] = "SKPN" /\ "N" \in t.flags
    IN CASE skips            -> [t EXCEPT !.at = @ + c[2] + 2]
         [] c[1] = "MESSAG"  -> IF "S" \in t.flags THEN Put(u, i.e0[c[2] + 1]) ELSE PutIf(u, i.e0[1])
         [] c[1] = "SELECT"  -> Chosen(i, t)
         [] c[1] = "SIGST"   -> Signify(i, u)
         [] c[1] = "FLDSEP"  -> [u EXCEPT !.flags = @ \ {"S", "N", "M"}]
         [] c[1] = "EXCHMD"  -> [u EXCEPT !.dst = t.mark, !.mark = t.dst]
         [] c[1] = "STOP"    -> [u EXCEPT !.how = "WON"]
         [] OTHER            -> u

EditEffect(i, m, a) ==
    LET T[n \in 0..Len(i.pattern)] ==
            IF n = 0
            THEN [mem |-> m, src |-> a.bp1, dst |-> a.bp2, mark |-> a.mark, flags |-> a.flags,
                  at |-> a.at, how |-> "RUN"]
            ELSE LET t == T[n - 1] IN IF t.how = "RUN" THEN Commanded(i, t) ELSE t
        t == T[Len(i.pattern)]
    IN [Seen(t.mem, a, t.how) EXCEPT
            !.flags = t.flags, !.at = t.at, !.at1 = Position(t.src), !.at2 = Position(t.dst),
            !.mark = Position(t.mark)]

\* The words of a block one after another, up or down.
Blocked(m, src, dst, n) ==
    LET W[k \in 0..Magnitude(n)] ==
            IF k = 0 THEN m
            ELSE LET by == IF n < 0 THEN -k ELSE k - 1
                     w  == W[k - 1]
                 IN [w EXCEPT ![dst + by] = w[src + by]]
    IN W[Magnitude(n)]

BlockEffect(i, m, a) ==
    LET n    == IF i.op = "BLT" THEN i.e - a.bp2.y + 1 ELSE a.num
        what == Blocked(m, a.bp1.y, a.bp2.y, IF i.op = "BLT" /\ n < 1 THEN 1 ELSE n)
    IN [Seen(what, a, "WON") EXCEPT
            !.num = IF i.op = "BLT" THEN @ ELSE 0, !.at1 = @ + n * BytesPerWord, !.at2 = @ + n * BytesPerWord]

\* The increment is still to be done unless the first part is done.
ByteEffect(i, m, a) ==
    LET on   == IF i.op \in {"ILDB", "IDPB"} /\ "FPD" \notin a.flags THEN 1 ELSE 0
        done == [Seen(m, a, "WON") EXCEPT !.flags = @ \ {"FPD"}, !.at1 = @ + on]
        at   == Place(a.bp1, on)
    IN IF i.op \in {"LDB", "ILDB"} THEN [done EXCEPT !.num = m[at[1]][at[2]]]
       ELSE [done EXCEPT !.mem[at[1]][at[2]] = a.num]

PointerEffect(i, m, a) ==
    IF i.op = "IBP" THEN [Seen(m, a, "WON") EXCEPT !.at1 = @ + 1]
    ELSE [Seen(m, a, "WON") EXCEPT !.at2 = Position(a.bp1) + a.num]

Effect(i, m, a) ==
    CASE i.op = "MOVSLJ"    -> MoveEffect(i, m, a, 0)
      [] i.op = "MOVSO"     -> MoveEffect(i, m, a, Offset)
      [] i.op = "MOVST"     -> TranslateEffect(i, m, a)
      [] i.op = "MOVSRJ"    -> RightEffect(i, m, a)
      [] i.op = "CMPS"      -> CompareEffect(i, m, a)
      [] i.op \in ToText    -> ToTextEffect(i, m, a)
      [] i.op \in ToNumber  -> ToNumberEffect(i, m, a)
      [] i.op = "EDIT"      -> EditEffect(i, m, a)
      [] i.op \in {"BLT", "XBLT"}  -> BlockEffect(i, m, a)
      [] i.op \in Bytes     -> ByteEffect(i, m, a)
      [] i.op \in {"IBP", "ADJBP"} -> PointerEffect(i, m, a)

\* Where the code is known to do something else: MOVSRJ leaves the first string alone when
\* there is no second, MOVSO stops past the byte that does not fit and not before it, and
\* CVTDBT stops at a digit above nine.
Departs(i) ==
    \/ i.op = "MOVSRJ" /\ i.ac.len2 = 0 /\ i.ac.len1 > 0
    \/ i.op = "MOVSO" /\ Effect(i, i.mem, i.ac).len2 > 0
    \/ i.op = "CVTDBT" /\ Converted(i, i.mem, i.ac).high
=============================================================================
