--------------------------- MODULE LongInstructions ---------------------------
(* An instruction that can be stopped half way, from its first try to its end: the
   EXTEND string instructions and EDIT, the block moves and the byte instructions.  A
   try starts from the ACs, runs some turns of its loop, and either ends or stores what
   it has done in the ACs and traps, for a word that is not in memory or for an
   interrupt; when the monitor has dealt with that the instruction is started again
   from the ACs.  Memory and ACs (with them the PC's First Part Done flag, and a byte
   pointer or mark that is in memory) are all that lasts from a try to the next.     *)
EXTENDS InstructionEffects

CONSTANTS
    Missing,        \* what may be out of memory during a try, one thing at a time
    Nothing,        \* or nothing, one of Missing too
    Starts          \* the instructions, with the ACs and the memory each begins with

ACs == [len1 : Nat, bp1 : Pointer, len2 : Nat, bp2 : Pointer, num : Int, at : Nat,
        flags : SUBSET {"S", "N", "M", "FPD"}, mark : Pointer]

ASSUME StartsAssumption ==
    Starts \subseteq [op : Ops, e0 : Seq(Byte), pattern : Seq(Commands), e : Nat,
                      ac : ACs, mem : [Addr -> [1..BytesPerWord -> Byte]]]

\* A pattern is given as far as it is followed, up to a STOP.
Skips == {"SKPM", "SKPN", "SKPA"}
ASSUME PatternsAssumption ==
    \A i \in Starts : i.op = "EDIT" =>
        /\ i.ac.at < Len(i.pattern)
        /\ \A k \in 1..Len(i.pattern) : i.pattern[k][1] # "STOP" =>
               k + (IF i.pattern[k][1] \in Skips THEN i.pattern[k][2] + 2 ELSE 1) <= Len(i.pattern)

\* The addresses of a block are no byte pointers; what BLT fills is there.
ASSUME BlocksAssumption ==
    \A i \in Starts : i.op \in {"BLT", "XBLT"} =>
        /\ ~i.ac.bp1.ind /\ ~i.ac.bp2.ind
        /\ i.op = "BLT" => i.ac.bp2.y..i.e \subseteq Addr

\* A byte that is used where the pointer is, is in the word; First Part Done is for the
\* instructions that have two parts.
ASSUME BytesAssumption ==
    \A i \in Starts : i.op \in Bytes =>
        /\ i.op \in {"LDB", "DPB"} => "FPD" \notin i.ac.flags
        /\ i.op \in {"LDB", "DPB"} \/ "FPD" \in i.ac.flags => i.ac.bp1.p < BytesPerWord

\* The strings moved and compared are in memory, and what is moved to is not what is
\* moved, nor twice the same byte; a one-word global pointer can not be indirect; the
\* fill bytes for both strings follow E0.
ASSUME StringsAssumption ==
    \A i \in Starts : i.op \in Moves \cup {"CMPS"} =>
        /\ Len(i.e0) >= 2
        /\ \A bp \in {i.ac.bp1, i.ac.bp2} : bp.fmt = "OWG" => ~bp.ind
        /\ \A k \in 1..i.ac.len1 : Place(i.ac.bp1, k)[1] \in Addr
        /\ \A k \in 1..i.ac.len2 : Place(i.ac.bp2, k)[1] \in Addr
        /\ i.op # "CMPS" => \A k \in 1..i.ac.len2 :
               /\ \A j \in 1..i.ac.len1 : Place(i.ac.bp1, j)[1] # Place(i.ac.bp2, k)[1]
               /\ \A j \in 1..i.ac.len2 : Place(i.ac.bp2, j) = Place(i.ac.bp2, k) => j = k

VARIABLES
    begun,      \* the instruction as it was first met
    mem, ac,    \* what lasts
    x,          \* the try in progress, or Idle
    out         \* "" until the instruction ends, then how
vars == <<begun, mem, ac, x, out>>

Idle == [res |-> "idle"]
op   == begun.op

Init == begun \in Starts /\ mem = begun.mem /\ ac = begun.ac /\ x = Idle /\ out = ""

\* A try with nothing done yet.
Fresh(flags, num) ==
    [op |-> op, e0 |-> begun.e0, pattern |-> begun.pattern, mem |-> mem, res |-> "RUN",
     flags |-> flags, num |-> num, nd |-> 0, len1 |-> ac.len1, len2 |-> ac.len2,
     s1 |-> Clean(ac.bp1), s2 |-> Clean(ac.bp2), at |-> ac.at, mark |-> ac.mark,
     fill2 |-> ac.len1 > ac.len2, pads |-> FALSE, first |-> TRUE]

\* Both pointers can be made clean.
Pointers(gone) == Reachable(ac.bp1, gone) /\ Reachable(ac.bp2, gone)

\* Trapping with nothing done: the monitor brings the thing in and the next try follows.
Fails == UNCHANGED vars
Ends(how) == out' = how /\ UNCHANGED <<begun, mem, x>>
Goes(y) == x' = y /\ UNCHANGED <<begun, mem, out>>

\* MOVSRJ passes over what the destination has no room for.
RightJustified(y, gone) ==
    LET s == xadjbp(y.s1, gone, y.len1 - y.len2)
    IN IF y.len1 > y.len2
       THEN [y EXCEPT !.s1 = s.s, !.len1 = y.len2, !.res = IF s.ok THEN "RUN" ELSE "PF"]
       ELSE y

BeginMove(gone) ==
    /\ op \in Moves
    /\ LET y == Fresh(ac.flags, 0)
       IN \/ /\ gone = FillAt(1) \/ (ac.len2 > 0 /\ ~Pointers(gone))
             /\ Fails
          \/ /\ gone # FillAt(1) /\ ac.len2 = 0
             /\ Ends(IF ac.len1 = 0 \/ op = "MOVSRJ" THEN "WON" ELSE "TRUNC") /\ ac' = ac
          \/ /\ gone # FillAt(1) /\ ac.len2 > 0 /\ Pointers(gone)
             /\ Goes(IF op = "MOVSRJ" THEN RightJustified(y, gone) ELSE y) /\ ac' = ac

BeginCompare(gone) ==
    /\ op = "CMPS"
    /\ IF gone = FillAt(IF ac.len1 <= ac.len2 THEN 1 ELSE 2) \/ ~Pointers(gone)
       THEN Fails
       ELSE Goes(Fresh(ac.flags, 0)) /\ ac' = ac

\* The flags are stored before anything can fail.
BeginToText(gone) ==
    /\ op \in ToText
    /\ LET flags == Signed(ac.num, ac.flags)
           nd    == DigitCount(Magnitude(ac.num))
           pads  == ac.len2 > nd /\ "S" \in flags
       IN /\ ac' = [ac EXCEPT !.flags = flags]
          /\ IF nd > ac.len2
             THEN Ends("TRUNC")
             ELSE IF ~Reachable(ac.bp2, gone) \/ (pads /\ gone = FillAt(1))
             THEN UNCHANGED <<begun, mem, x, out>>
             ELSE Goes([Fresh(flags, Magnitude(ac.num)) EXCEPT !.nd = nd, !.pads = pads])

BeginToNumber(gone) ==
    /\ op \in ToNumber
    /\ LET has   == "S" \in ac.flags
           flags == IF op = "CVTDBO" THEN ac.flags \cup {"S"} ELSE ac.flags
           y     == Fresh(flags, IF has THEN ac.num ELSE 0)
       IN IF ~Reachable(ac.bp1, gone)
          THEN Fails
          ELSE Goes([y EXCEPT !.res = IF ac.len1 = 0 THEN "WON" ELSE "RUN"]) /\ ac' = ac

\* All that is needed to begin is fetched before anything is done.
BeginEdit(gone) ==
    /\ op = "EDIT"
    /\ IF gone = PatternAt(ac.at) \/ ~Pointers(gone)
       THEN Fails
       ELSE Goes(Fresh(ac.flags, 0)) /\ ac' = ac

\* Blocks: how many words up to the last one, or as many as AC says.
BeginBlock(gone) ==
    \/ /\ op = "BLT"
       /\ Goes(Fresh(ac.flags, begun.e - ac.bp2.y + 1)) /\ ac' = ac
    \/ /\ op = "XBLT" /\ ac.num = 0
       /\ Ends("WON") /\ ac' = ac
    \/ /\ op = "XBLT" /\ ac.num # 0
       /\ Goes(Fresh(ac.flags, ac.num)) /\ ac' = ac

\* cbpget: the first part increments the pointer, unless it is done, and says it is done
\* before the address of the byte is worked out.
BeginByte(gone) ==
    /\ op \in Bytes
    /\ LET first == op \in {"ILDB", "IDPB"} /\ "FPD" \notin ac.flags
           bp    == IF first THEN Incremented(ac.bp1) ELSE ac.bp1
           flags == IF first THEN ac.flags \cup {"FPD"} ELSE ac.flags
       IN IF gone = PointerWord
          THEN Fails
          ELSE /\ ac' = [ac EXCEPT !.bp1 = bp, !.flags = flags]
               /\ IF Reachable(bp, gone)
                  THEN Goes([Fresh(flags, ac.num) EXCEPT !.s1 = Clean(bp)])
                  ELSE UNCHANGED <<begun, mem, x, out>>

\* IBP changes the pointer, ADJBP makes another of it.
BeginPointer(gone) ==
    /\ op \in {"IBP", "ADJBP"}
    /\ IF gone = PointerWord
       THEN Fails
       ELSE /\ Ends("WON")
            /\ ac' = IF op = "IBP" THEN [ac EXCEPT !.bp1 = Incremented(@)]
                     ELSE [ac EXCEPT !.bp2 = Adjusted(ac.bp1, ac.num)]

\* The instruction is tried with one thing missing, or Nothing.
Try(gone) ==
    /\ x = Idle /\ out = ""
    /\ \/ BeginMove(gone) \/ BeginCompare(gone) \/ BeginToText(gone) \/ BeginToNumber(gone)
       \/ BeginEdit(gone) \/ BeginBlock(gone) \/ BeginByte(gone) \/ BeginPointer(gone)
Begin == \E gone \in Missing : Try(gone)

\* One turn of the loop of the instruction; it looks for an interrupt when done.
Step(y, gone, brk) ==
    CASE y.op \in {"MOVSLJ", "MOVSO"} -> MoveStep(y, gone, brk)
      [] y.op = "MOVST"     -> TranslateStep(y, gone, brk)
      [] y.op = "MOVSRJ"    -> RightStep(y, gone, brk)
      [] y.op = "CMPS"      -> CompareStep(y, gone, brk)
      [] y.op \in ToText    -> BinaryStep(y, gone, brk)
      [] y.op \in ToNumber  -> DecimalStep(y, gone, brk)
      [] y.op = "EDIT"      -> EditStep(y, gone, brk)
      [] y.op = "BLT"       -> BltStep(y, gone, brk)
      [] y.op = "XBLT"      -> XbltStep(y, gone, brk)
      [] y.op \in Bytes     -> ByteStep(y, gone)

TurnWith(gone, brk) ==
    /\ x.res = "RUN"
    /\ \E y \in {Step(x, gone, brk)} : x' = y /\ mem' = y.mem
    /\ UNCHANGED <<begun, ac, out>>
Turn == \E gone \in Missing, brk \in BOOLEAN : TurnWith(gone, brk)

Trapped(y) == y.res \in {"PF", "PI"}

\* What each routine puts back in the ACs on its way out.  In the padding of CVTBDx
\* the number is left as it was, later the count is that of the digits to come.
Stored(y) ==
    LET bp1 == xbpupdate(y.s1)
        bp2 == xbpupdate(y.s2)
        in  == Trapped(y) /\ y.pads
        neg == y.res = "WON" /\ "M" \in y.flags
    IN CASE y.op \in ToText ->
              [ac EXCEPT !.flags = y.flags, !.bp2 = bp2, !.len2 = IF in THEN y.len2 ELSE y.nd,
                         !.num = IF in THEN @ ELSE y.num]
         [] y.op \in ToNumber ->
              [ac EXCEPT !.flags = y.flags, !.bp1 = bp1, !.len1 = y.len1,
                         !.num = IF neg THEN -y.num ELSE y.num]
         [] y.op = "EDIT" ->
              [ac EXCEPT !.flags = y.flags, !.bp1 = bp1, !.bp2 = bp2, !.at = y.at, !.mark = y.mark]
         [] y.op = "BLT" ->
              [ac EXCEPT !.bp1.y = y.s1.y, !.bp2.y = y.s2.y]
         [] y.op = "XBLT" ->
              [ac EXCEPT !.bp1.y = y.s1.y, !.bp2.y = y.s2.y, !.num = y.num]
         [] y.op \in Bytes ->
              [ac EXCEPT !.flags = y.flags, !.num = y.num]
         [] OTHER ->
              [ac EXCEPT !.flags = y.flags, !.bp1 = bp1, !.bp2 = bp2, !.len1 = y.len1, !.len2 = y.len2]

\* Mutant: a try that traps leaves the ACs alone.
Leave_NotStored ==
    /\ x.res \notin {"idle", "RUN"}
    /\ ac' = (IF Trapped(x) THEN ac ELSE Stored(x)) /\ x' = Idle
    /\ out' = IF Trapped(x) THEN "" ELSE x.res
    /\ UNCHANGED <<begun, mem>>
Leave ==
    /\ x.res \notin {"idle", "RUN"}
    /\ ac' = Stored(x) /\ x' = Idle
    /\ out' = IF Trapped(x) THEN "" ELSE x.res
    /\ UNCHANGED <<begun, mem>>

Next == Begin \/ Turn \/ Leave
Spec == Init /\ [][Next]_vars

\* The processor goes on, and tries and turns with nothing missing keep coming: the
\* monitor brings in what a try failed for.  Of interrupts nothing is said, one may wait
\* at every look; only of BLT, which looks before it moves its first word, some look
\* finds none.
FairSpec ==
    /\ Spec /\ WF_vars(Next) /\ SF_vars(Try(Nothing))
    /\ SF_vars(\E brk \in BOOLEAN : TurnWith(Nothing, brk))
    /\ SF_vars(op = "BLT" /\ TurnWith(Nothing, FALSE))

-----------------------------------------------------------------------------
(* Properties                                                              *)

TypeOK ==
    /\ ac \in ACs /\ mem \in [Addr -> [1..BytesPerWord -> Byte]]
    /\ out \in {"", "WON", "TRUNC", "EQ", "LT", "GT"}
    /\ x # Idle => /\ x.mem = mem /\ x.len1 >= 0 /\ x.len2 >= 0 /\ x.nd >= 0
                   /\ \A s \in {x.s1, x.s2} : s.bp \in Pointer /\ s.p \in 0..BytesPerWord

\* Between tries the ACs and memory still ask for what was asked at first.
Resumable == x = Idle /\ out = "" => Effect(begun, mem, ac) = Effect(begun, begun.mem, begun.ac)

\* However often it was stopped, the instruction comes to what inexts.c says it does in one
\* go, but for three cases, where it never does.
AllAtOnce == out # "" => (Seen(mem, ac, out) = Effect(begun, begun.mem, begun.ac) <=> ~Departs(begun))

\* Every try stopped by an interrupt has got further, but for BLT.
ToDo(a) ==
    CASE op = "EDIT" -> Len(begun.pattern) - a.at
      [] op = "XBLT" -> Magnitude(a.num)
      [] OTHER       -> a.len1 + a.len2
Advances == [][x # Idle /\ x.res = "PI" /\ op # "BLT" /\ x' = Idle => ToDo(ac') < ToDo(ac)]_vars

\* So it ends, with an interrupt waiting at every look.
Finishes == <>(out # "")
=============================================================================
