------------------------------ MODULE EditSteps ------------------------------
(* EDIT (inexts.c), a command of the pattern at a time.  x.at counts the commands
   passed over; x.mark is the byte pointer stored at the mark address.  A word of the
   pattern holds PatternWord commands, and interrupts are looked for when the next
   word is come to.                                                                *)
EXTENDS StringSteps

CONSTANT PatternWord    \* four

ASSUME PatternAssumption == PatternWord \in Nat \ {0}

Commands ==
    ({"MESSAG", "SKPM", "SKPN", "SKPA"} \X (0..2))
        \cup ({"STOP", "SELECT", "SIGST", "FLDSEP", "EXCHMD", "NOP"} \X {0})

\* f of v, where v is worked out once: TLC takes a LET anew wherever it is used while it
\* looks for what is enabled.
Once(v, f(_)) == CHOOSE r \in {f(y) : y \in {v}} : TRUE

PatternAt(n) == <<"pattern", n \div PatternWord>>
Mark == <<"mark", 0>>

\* On to the n-th command from here.
Onward(x, gone, brk, n) ==
    LET at   == x.at + n
        over == at \div PatternWord # x.at \div PatternWord
    IN [x EXCEPT !.at = at,
                 !.res = IF over /\ brk THEN "PI" ELSE IF over /\ gone = PatternAt(at) THEN "PF" ELSE "RUN"]

\* Ended, by STOP or a byte that stops it; or given up, with the source as s1.
Over(x, how)   == [x EXCEPT !.at = @ + 1, !.res = how]
GiveUp(x, s1)  == [x EXCEPT !.s1 = s1, !.res = "PF"]

\* A byte, or none for a null one.
Emit(x, gone, b) ==
    Once(xidpb(x.mem, gone, x.s2, b),
         LAMBDA dst : [x EXCEPT !.mem = dst.mem, !.s2 = dst.s, !.res = IF dst.ok THEN @ ELSE "PF"])
EmitUnlessNull(x, gone, b) == IF b = 0 THEN x ELSE Emit(x, gone, b)

\* The destination pointer as it is written to the AC and to the mark.
Updated(x) == [x.s2 EXCEPT !.bp = xbpupdate(x.s2), !.ycnt = 0]

\* Mutant: S is set before the float character is stored.
StartSignificance_Early(x, gone) ==
    LET s2 == Updated(x)
    IN IF "S" \in x.flags THEN x
       ELSE IF gone \in {FillAt(2), Mark} THEN [x EXCEPT !.res = "PF"]
       ELSE [EmitUnlessNull([x EXCEPT !.s2 = s2, !.mark = s2.bp], gone, x.e0[2]) EXCEPT
                !.flags = @ \cup {"S"}]
\* Unless S is set: the mark is put here, the float character stored and S set.
StartSignificance(x, gone) ==
    LET s2 == Updated(x)
    IN IF "S" \in x.flags THEN x
       ELSE IF gone \in {FillAt(2), Mark} THEN [x EXCEPT !.res = "PF"]
       ELSE Once(EmitUnlessNull([x EXCEPT !.s2 = s2, !.mark = s2.bp], gone, x.e0[2]),
                 LAMBDA y : IF y.res = "PF" THEN y ELSE [y EXCEPT !.flags = @ \cup {"S"}])

\* The mark and the destination change places.  When the address of the new one can not
\* be worked out they have changed all the same.
Exchange(x, gone) ==
    LET new == x.mark
    IN IF gone = Mark THEN [x EXCEPT !.s2 = Updated(x), !.res = "PF"]
       ELSE IF Reachable(new, gone)
       THEN [x EXCEPT !.s2 = Clean(new), !.mark = Updated(x).bp]
       ELSE [x EXCEPT !.s2 = [Updated(x) EXCEPT !.bp = new, !.p = new.p],
                      !.mark = Updated(x).bp, !.res = "PF"]

\* A translated byte: stored, replaced by the fill byte, or with it significance starts.
Translated(x, gone, ent) ==
    LET coded == [x EXCEPT !.flags = Coded(ent.code, @)]
        first == [x EXCEPT !.flags = Coded(ent.code, @) \ ({"S"} \ @)]
    IN IF ent.code \in {4, 6, 7}
       THEN Once(StartSignificance(first, gone),
                 LAMBDA y : IF y.res = "PF" THEN y ELSE Emit(y, gone, ent.byte))
       ELSE IF "S" \in x.flags THEN Emit(coded, gone, ent.byte)
       ELSE IF gone = FillAt(1) THEN [coded EXCEPT !.res = "PF"]
       ELSE EmitUnlessNull(coded, gone, x.e0[1])

\* SELECT: a byte of the source.
Selected(x, gone, brk, src) ==
    LET undo == xdecbp(src.s)
        ent  == Table[src.b]
    IN IF ~src.ok THEN GiveUp(x, src.s)
       ELSE IF gone = Entry(src.b) THEN GiveUp(x, undo)
       ELSE IF Stops(ent.code) THEN Over([x EXCEPT !.s1 = src.s, !.flags = Coded(ent.code, @)], "TRUNC")
       ELSE Once(Translated(x, gone, ent),
                 LAMBDA y : IF y.res = "PF" THEN GiveUp(y, undo)
                            ELSE Onward([y EXCEPT !.s1 = src.s], gone, brk, 1))
Select(x, gone, brk) == Once(xildb(x.mem, gone, x.s1), LAMBDA src : Selected(x, gone, brk, src))

\* On, unless the command could not be done.
Going(x, gone, brk) == Once(x, LAMBDA y : IF y.res = "PF" THEN y ELSE Onward(y, gone, brk, 1))

EditStep(x, gone, brk) ==
    LET command == x.pattern[x.at + 1][1]
        n       == x.pattern[x.at + 1][2]
        next(y) == Going(y, gone, brk)
        skip(f) == Onward(x, gone, brk, IF f THEN n + 2 ELSE 1)
        insert  == IF "S" \in x.flags THEN n + 1 ELSE 1
    IN CASE command = "MESSAG" ->
              next(IF gone = FillAt(insert) THEN [x EXCEPT !.res = "PF"]
                   ELSE IF "S" \in x.flags THEN Emit(x, gone, x.e0[insert])
                   ELSE EmitUnlessNull(x, gone, x.e0[insert]))
         [] command = "SKPM"   -> skip("M" \in x.flags)
         [] command = "SKPN"   -> skip("N" \in x.flags)
         [] command = "SKPA"   -> skip(TRUE)
         [] command = "SELECT" -> Select(x, gone, brk)
         [] command = "SIGST"  -> next(StartSignificance(x, gone))
         [] command = "FLDSEP" -> next([x EXCEPT !.flags = @ \ {"S", "N", "M"}])
         [] command = "EXCHMD" -> next(Exchange(x, gone))
         [] command = "NOP"    -> next(x)
         [] command = "STOP"   -> Over(x, "WON")
=============================================================================
