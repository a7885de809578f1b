---------------------------- MODULE Rh20Channel -----------------------------
(***************************************************************************)
(* What an RH20 controller and its data channel do for a drive: the calls  *)
(* of dvrh20.c through the vectors dv_attn, dv_drerr, dv_iobeg, dv_iobuf   *)
(* and dv_ioend, and the command list interpreter below them.              *)
(*                                                                         *)
(* The controller is a record c:                                           *)
(*   cond            the CONI bits that anything depends on, as a set      *)
(*   req, pilev      dv_pireq and rh_pilev (nonzero or not)                *)
(*   draes           the DRAES bit of rh_prep                              *)
(*   attn            the drive's bit of rh_attn                            *)
(*   ptcr, stcr, sbar, sbarf, bcnt    transfer registers                   *)
(*   clp, wcnt, hlt, rev, skip, write  the channel: rh_clp, rh_dcwcnt,     *)
(*                   rh_dchlt, rh_dcrev, rh_dcbuf = 0, rh_dcwrt            *)
(* Every operator returns what a call leaves; none is a step by itself.    *)
(***************************************************************************)
EXTENDS Integers, Sequences

CONSTANTS
    FillWds      \* words of the EPT pattern that a writing channel skips with (4)

ASSUME FillAssumption == FillWds \in Nat \ {0}

Least(a, b) == IF a < b THEN a ELSE b

CondBits == {"CMD", "PCRF", "SCRF", "RAE", "MBA", "MBAE", "CE", "DEE", "DR"}
Errors   == {"CE", "DEE", "DR"}

-----------------------------------------------------------------------------
(* Priority interrupt requests                                             *)

RhPi(c) == IF c.pilev THEN [c EXCEPT !.req = TRUE] ELSE c

\* The conditions under which rh_picheck asks for an interrupt.
Interrupting(c) ==
    \/ "CMD" \in c.cond
    \/ {"MBA", "MBAE"} \subseteq c.cond
    \/ "RAE" \in c.cond /\ ~c.draes

\* Mutant: the request is left on when nothing asks for it any more.
RhPicheck_Sticky(c) == IF Interrupting(c) THEN RhPi(c) ELSE c
RhPicheck(c) == IF Interrupting(c) THEN RhPi(c) ELSE [c EXCEPT !.req = FALSE]

\* The drive turns its attention bit on or off.
Rh20Attn(c, on) ==
    LET up   == [c EXCEPT !.attn = TRUE,  !.cond = @ \cup {"MBA"}]
        down == [c EXCEPT !.attn = FALSE, !.cond = @ \ {"MBA"}]
    IN IF on THEN IF "MBAE" \in c.cond THEN RhPi(up) ELSE up
       ELSE IF ~c.attn THEN c
       ELSE IF "MBA" \in c.cond /\ c.req THEN RhPicheck(down) ELSE down

-----------------------------------------------------------------------------
(* The command list.  A word is [op, cnt, halt, rev, skip, to]: a transfer *)
(* of cnt words, to memory or (skip) nowhere; a jump or halt has `to'.     *)

CcwWord == [op : {"XFR", "JMP", "HLT"}, cnt : Nat, halt : BOOLEAN, rev : BOOLEAN, skip : BOOLEAN,
             to : Nat]

\* Memory after the list is zero, and a zero word is a halt.
CcwAt(c, i) ==
    IF i \in 1..Len(c.list) THEN c.list[i]
    ELSE [op |-> "HLT", cnt |-> 0, halt |-> FALSE, rev |-> FALSE, skip |-> FALSE, to |-> i]

RhdcClear(c) == [c EXCEPT !.clp = 1, !.wcnt = 0, !.hlt = TRUE, !.skip = TRUE]

\* What is no jump is fetched.  On a reverse transfer the code takes the halt bit for its
\* opposite.
Fetched(c, at) ==
    LET w == CcwAt(c, at)
    IN IF w.op = "HLT"
       THEN [ok |-> FALSE,
             c  |-> [c EXCEPT !.clp = w.to, !.wcnt = 0, !.hlt = TRUE, !.rev = FALSE]]
       ELSE [ok |-> TRUE,
             c  |-> [c EXCEPT !.clp = at + 1, !.wcnt = w.cnt, !.hlt = (w.halt # w.rev),
                              !.rev = w.rev, !.skip = w.skip]]

\* rhdc_ccwget: follow jumps to a transfer or a halt.
Ccwget(c) ==
    LET Reach[i \in 1..Len(c.list) + 1] ==
            IF CcwAt(c, i).op = "JMP" THEN Reach[CcwAt(c, i).to] ELSE i
    IN Fetched(c, Reach[c.clp])

\* rh20_iobeg: the first transfer word, and the number of blocks asked for; 0 is failure.
Iobeg(c, write) ==
    LET g == Ccwget([c EXCEPT !.write = write])
    IN IF g.ok THEN [bc |-> c.bcnt, c |-> g.c]
       ELSE [bc |-> 0, c |-> RhPi([g.c EXCEPT !.cond = @ \cup {"CE", "CMD"}])]

\* Words the channel offers next; negative for a reverse transfer.
Offered(c) ==
    LET n == IF c.skip /\ c.write THEN Least(c.wcnt, FillWds) ELSE c.wcnt
    IN IF c.rev THEN -n ELSE n

\* rh20_iobuf: the drive has used some words of the last offer; what is there now?
Iobuf(c, used) ==
    LET left    == [c EXCEPT !.wcnt = @ - used]
        Got(g)  == [n |-> IF g.ok THEN Offered(g.c) ELSE 0, c |-> g.c]
    IN IF c.wcnt = 0 THEN [n |-> 0, c |-> c]
       ELSE IF left.wcnt > 0 THEN [n |-> Offered(left), c |-> left]
       ELSE IF c.hlt THEN [n |-> 0, c |-> left]
       ELSE Got(Ccwget(left))

\* rh20_ioend: the drive stops with `blocks' it still wanted; words left on either side
\* are a channel error.  Command done is set whatever happened.
Ioend(c, blocks) ==
    RhPi([c EXCEPT !.cond = (@ \ {"PCRF"}) \cup {"CMD"}
                            \cup (IF blocks # 0 \/ c.wcnt # 0 THEN {"CE"} ELSE {})])

\* rh20_drerr: a drive exception ends the transfer.
Drerr(c) ==
    Ioend(IF "DEE" \in c.cond THEN c ELSE RhPi([c EXCEPT !.cond = @ \cup {"DEE"}]), 1)
=============================================================================
