----------------------------- MODULE MCRhDisk -------------------------------
(* Two sectors of two words, a buffer of one sector, and short command lists. *)
EXTENDS RhDisk

Ccw(op, cnt, halt, rev, skip, to) ==
    [op |-> op, cnt |-> cnt, halt |-> halt, rev |-> rev, skip |-> skip, to |-> to]
Xfr(n)  == Ccw("XFR", n, FALSE, FALSE, FALSE, 0)
XfrH(n) == Ccw("XFR", n, TRUE, FALSE, FALSE, 0)

Rev(n)  == Ccw("XFR", n, TRUE, TRUE, FALSE, 0)
Skip(n) == Ccw("XFR", n, FALSE, FALSE, TRUE, 0)
Jmp(to) == Ccw("JMP", 0, FALSE, FALSE, FALSE, to)
Setup(list, dma, dly) == [list |-> list, dma |-> dma, dly |-> dly]

\* Whole sectors in one word, moved directly; a direct piece with a rest, and a jump; skipping,
\* copying, and then no list at all; a word with count zero, and then a reverse transfer.
MCSetups == {
    Setup(<<XfrH(4), XfrH(2)>>, TRUE, FALSE),
    Setup(<<Xfr(3), Jmp(3), XfrH(1)>>, TRUE, TRUE),
    Setup(<<Skip(1), XfrH(3)>>, FALSE, FALSE),
    Setup(<<Xfr(0), Rev(2)>>, TRUE, TRUE) }

Req(drv, cmd, blocks, rclp) == [drv |-> drv, cmd |-> cmd, blocks |-> blocks, rclp |-> rclp]
MCRequest == {Req("rp", "RED", 2, TRUE), Req("rp", "WRT", 2, TRUE), Req("rp", "RED", 1, FALSE),
              Req("none", "RED", 1, TRUE)}

MCConos == {{"MEAE", "PIA"}, {"MEAE", "PIA", "CCMD"}, {"MEAE", "PIA", "CCMD", "TEC", "DSCRF", "RCLP"},
            {"CMC"}, {"CRAE", "PIA", "MEAE"}}
=============================================================================
