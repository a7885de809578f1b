------------------------- MODULE MCLongInstructions -------------------------
(* Seven words of two bytes of five values; the source is in the first three words and
   the destination in the last three, or just before the source.  Pointers start in
   the middle of a word, before one and after one, direct, global and indirect.     *)
EXTENDS LongInstructions

MCAddr  == 0..6
MCChain == [y \in 10..17 |-> IF y < 14 THEN <<2, 0, 1, 2>>[y - 9] ELSE <<4, 6, 5, 6>>[y - 13]]
MCTable == <<[code |-> 4, byte |-> 1], [code |-> 2, byte |-> 2], [code |-> 1, byte |-> 0],
             [code |-> 7, byte |-> 3], [code |-> 0, byte |-> 2]>>
MCTables == [b \in 0..4 |-> MCTable[b + 1]]
MCDigits == [d \in 0..2 |-> [rh |-> d, lh |-> 4 - d]]
MCNothing == <<"none", 0>>
MCMissing ==
    {MCNothing} \cup {Data(a) : a \in MCAddr} \cup {Cell(y) : y \in DOMAIN MCChain}
    \cup {FillAt(n) : n \in 1..3} \cup {<<"table", n>> : n \in 0..2} \cup {Digit(d) : d \in 0..2}
    \cup {<<"pattern", n>> : n \in 0..2} \cup {Mark, PointerWord}

Memory == <<<<0, 1>>, <<3, 4>>, <<0, 2>>, <<0, 1>>, <<3, 3>>, <<4, 1>>, <<0, 0>>>>
MCMem  == [a \in MCAddr |-> Memory[a + 1]]

Bp(fmt, p, y) == [fmt |-> fmt, p |-> p, y |-> y, ind |-> FALSE]
Ind(p, y)     == [fmt |-> "OWL", p |-> p, y |-> y, ind |-> TRUE]
Sources == {Bp("OWL", 2, 0), Bp("OWG", 1, 0), Bp("TW", 0, 0), Ind(1, 10)}
Targets == {Bp("OWL", 0, 3), Bp("OWG", 2, 4), Ind(1, 14)}

\* An instruction: op, E0, pattern, E, the two strings, flags and number.
S(o, e0, pat, e, l1, b1, l2, b2, f, n) ==
    [op |-> o, e0 |-> e0, pattern |-> pat, e |-> e, mem |-> MCMem,
     ac |-> [len1 |-> l1, bp1 |-> b1, len2 |-> l2, bp2 |-> b2, flags |-> f, num |-> n, at |-> 0,
             mark |-> Bp("OWL", 0, 6)]]
Plain(o, l1, b1, l2, b2, f, n) == S(o, <<4, 0>>, <<>>, 0, l1, b1, l2, b2, f, n)
Here == Bp("OWL", 0, 0)
There == Bp("OWL", 0, 3)

MCMoves ==
    {Plain(o, l1, b1, l2, b2, {}, 0) : o \in Moves \cup {"CMPS"}, l1 \in 0..3, l2 \in 0..3,
        b1 \in Sources, b2 \in Targets}
MCNumbers ==
    {Plain(o, l1, b1, 0, There, f, n) : o \in ToNumber, l1 \in 0..3, b1 \in Sources,
        f \in {{}, {"S"}, {"M"}}, n \in {0, 2}}
\* Numbers in base 3: no digit after the first is zero.
MCTexts ==
    {Plain(o, 0, Here, l2, b2, f, n) : o \in ToText, l2 \in 0..4, b2 \in Targets,
        f \in {{}, {"S"}}, n \in {-14, -8, 0, 2, 4, 5, 22}}
\* Patterns of words of two commands: every command, and skips over the end of a word.
\* The mark is not made indirect where it is exchanged.
Select1 == <<"SELECT", 0>>
Stop    == <<"STOP", 0>>
MCPatterns ==
    {<<Select1, Select1, Select1, Select1, Stop>>,
     <<<<"SIGST", 0>>, Select1, <<"MESSAG", 2>>, Select1, <<"EXCHMD", 0>>, <<"MESSAG", 0>>, Stop>>,
     <<<<"MESSAG", 1>>, Select1, <<"SKPM", 0>>, <<"MESSAG", 1>>, <<"SKPN", 1>>, <<"SKPA", 0>>, <<"NOP", 0>>, Stop>>,
     <<Select1, <<"FLDSEP", 0>>, Select1, <<"SIGST", 0>>, <<"NOP", 0>>, Stop>>}
MCEdits ==
    {S("EDIT", e0, pat, 0, 0, b1, 0, b2, f, 0) : e0 \in {<<4, 1, 2>>, <<0, 3, 0>>, <<1, 0, 3>>},
        pat \in MCPatterns, b1 \in Sources, b2 \in {Bp("OWL", 0, 3), Bp("OWG", 2, 4)}, f \in {{}, {"M"}}}
    \cup {S("EDIT", e0, pat, 0, 0, Here, 0, Ind(1, 14), {}, 0) : e0 \in {<<4, 1, 2>>, <<0, 3, 0>>},
        pat \in {q \in MCPatterns : <<"EXCHMD", 0>> \notin {q[k] : k \in 1..Len(q)}}}
\* Blocks that overlap either way, and one that ends before it begins.
MCBlocks ==
    {S("BLT", <<>>, <<>>, e, 0, Bp("OWL", 0, y1), 0, Bp("OWL", 0, y2), {}, 0) :
        e \in {1, 4, 5}, y1 \in {1, 2, 3}, y2 \in {2, 3}}
    \cup {Plain("XBLT", 0, Bp("OWL", 0, y1), 0, Bp("OWL", 0, y2), {}, n) :
        n \in -3..3, y1 \in {3, 4}, y2 \in {3, 4}}
MCBytes ==
    {Plain(o, 0, b1, 0, There, {}, n) : o \in {"ILDB", "IDPB", "IBP"}, b1 \in Sources, n \in {2}}
    \cup {Plain(o, 0, b1, 0, There, {}, n) :
        o \in {"LDB", "DPB"}, b1 \in {b \in Sources : b.p < BytesPerWord}, n \in {2}}
    \cup {Plain("ADJBP", 0, b1, 0, There, {}, n) : b1 \in {Bp("OWL", p, 9) : p \in 0..2}, n \in -7..7}
MCStarts == MCMoves \cup MCNumbers \cup MCTexts \cup MCEdits \cup MCBlocks \cup MCBytes
\* And some with a zero: 3 is 10 and 10 is 101.
MCZeros ==
    {Plain(o, 0, Here, 3, b2, f, n) : o \in ToText, b2 \in Targets, f \in {{}, {"S"}}, n \in {3, 10}}
=============================================================================
