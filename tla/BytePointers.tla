---------------------------- MODULE BytePointers ----------------------------
(* Byte pointers as the string instructions keep them (inexts.c).  An AC holds a
   pointer; xbpinit turns it into a "clean" one with the effective address worked
   out, the bytes are read and written through that, and xbpupdate turns it back
   when the instruction ends or is interrupted.  The word under a clean pointer is
   mapped and fetched once and kept.

   Positions are counted in bytes: P is the number of bytes to the right of the
   last one used, so 0 is the end of the word and BytesPerWord the state before its
   first byte.  A word is the tuple of its bytes, left to right.                  *)
EXTENDS Naturals, Sequences

CONSTANTS
    BytesPerWord,   \* bytes of the size at hand in a word (36 bits)
    Addr,           \* the addresses of the memory modelled
    Chain           \* for an indirect pointer: the address each value of Y leads to

ASSUME WordAssumption ==
    BytesPerWord \in Nat \ {0} /\ Addr \subseteq Nat /\ DOMAIN Chain \subseteq Nat

Pointer == [fmt : {"OWL", "TW", "OWG"}, p : 0..BytesPerWord, y : Nat, ind : BOOLEAN]

\* What can be missing from memory: the word itself or the one an indirect address
\* is read from.
Data(a) == <<"data", a>>
Cell(y) == <<"cell", y>>

Clean(bp) == [bp |-> bp, p |-> bp.p, y |-> IF bp.ind THEN Chain[bp.y] ELSE bp.y,
              ycnt |-> 0, vp |-> FALSE, wd |-> <<>>]

\* xbpinit fails, with nothing done, when the indirect word is not there.
Reachable(bp, gone) == ~(bp.ind /\ gone = Cell(bp.y))

\* A one-word global pointer goes back as a two-word one.
xbpupdate(s) ==
    [fmt |-> IF s.bp.fmt = "OWG" THEN "TW" ELSE s.bp.fmt, p |-> s.p,
     y   |-> IF s.bp.fmt = "OWG" THEN s.y ELSE s.bp.y + s.ycnt, ind |-> s.bp.ind]

\* Mutant: the position is backed up twice.
MapWord_Twice(mem, gone, s) ==
    LET here == s.vp \/ gone # Data(s.y)
    IN [ok |-> here,
        s  |-> IF here THEN [s EXCEPT !.vp = TRUE, !.wd = IF s.vp THEN @ ELSE mem[s.y]]
                       ELSE [s EXCEPT !.p = @ + 2]]
\* The word is mapped and fetched unless it is at hand; a failure backs up P, never Y.
MapWord(mem, gone, s) ==
    LET here == s.vp \/ gone # Data(s.y)
    IN [ok |-> here,
        s  |-> IF here THEN [s EXCEPT !.vp = TRUE, !.wd = IF s.vp THEN @ ELSE mem[s.y]]
                       ELSE [s EXCEPT !.p = @ + 1]]

\* Increment, as xildb and xidpb do it.  Leaving a word, an indirect pointer is stored
\* in the AC and its address worked out anew.
NextByte(mem, gone, s) ==
    LET left == [s EXCEPT !.p = BytesPerWord - 1, !.ycnt = @ + 1, !.y = @ + 1,
                          !.vp = FALSE, !.wd = <<>>]
        bp   == xbpupdate(left)
    IN IF s.p > 0
       THEN MapWord(mem, gone, [s EXCEPT !.p = @ - 1])
       ELSE IF ~s.bp.ind
       THEN MapWord(mem, gone, left)
       ELSE IF Reachable(bp, gone)
       THEN MapWord(mem, gone, Clean(bp))
       ELSE [ok |-> FALSE, s |-> [left EXCEPT !.bp = bp, !.ycnt = 0, !.p = @ + 1]]

xildb(mem, gone, s) ==
    LET n == NextByte(mem, gone, s)
    IN [ok |-> n.ok, s |-> n.s, b |-> IF n.ok THEN n.s.wd[BytesPerWord - n.s.p] ELSE 0]

xidpb(mem, gone, s, b) ==
    LET n  == NextByte(mem, gone, s)
        wd == [n.s.wd EXCEPT ![BytesPerWord - n.s.p] = b]
    IN IF n.ok THEN [ok |-> TRUE, s |-> [n.s EXCEPT !.wd = wd], mem |-> [mem EXCEPT ![n.s.y] = wd]]
               ELSE [ok |-> FALSE, s |-> n.s, mem |-> mem]

xdecbp(s) == [s EXCEPT !.p = @ + 1]

\* n bytes further, n > 0: whole words at one go.
xadjbp(s, gone, n) ==
    LET over == n - s.p - 1           \* what is left when the word is left
        yn   == over \div BytesPerWord + 1
        left == [s EXCEPT !.p = BytesPerWord - 1 - (over % BytesPerWord), !.y = @ + yn, !.ycnt = @ + yn]
        bp   == xbpupdate(left)
    IN IF n <= s.p
       THEN [ok |-> TRUE, s |-> [s EXCEPT !.p = @ - n]]
       ELSE IF ~s.bp.ind
       THEN [ok |-> TRUE, s |-> left]
       ELSE IF Reachable(bp, gone)
       THEN [ok |-> TRUE, s |-> Clean(bp)]
       ELSE [ok |-> FALSE, s |-> [left EXCEPT !.bp = bp, !.ycnt = 0]]

-----------------------------------------------------------------------------
(* A string as the reader of the manual sees it: the bytes a pointer will come to *)

\* How far the next byte is from address 0, in the pointer's own Y.
Position(bp) == bp.y * BytesPerWord + BytesPerWord - bp.p

\* Where the k-th byte of the string is, k > 0.
Place(bp, k) ==
    LET i == Position(bp) + k - 1
        y == i \div BytesPerWord
    IN <<IF bp.ind THEN Chain[y] ELSE y, (i % BytesPerWord) + 1>>

Text(mem, bp, n) == [k \in 1..n |-> mem[Place(bp, k)[1]][Place(bp, k)[2]]]

\* Memory with a string put where a pointer says.
Laid(mem, bp, str) ==
    [a \in DOMAIN mem |-> [i \in 1..BytesPerWord |->
        IF \E k \in 1..Len(str) : Place(bp, k) = <<a, i>>
        THEN str[CHOOSE k \in 1..Len(str) : Place(bp, k) = <<a, i>>]
        ELSE mem[a][i]]]
=============================================================================
