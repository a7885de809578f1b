------------------------------ MODULE RpDrive -------------------------------
(***************************************************************************)
(* An RP disk drive as the KLH10 sees it, dvrpxx.c built with the          *)
(* subprocess dprpxx: registers, drive commands, and the loop that cuts a  *)
(* transfer into pieces and hands them to the subprocess.                  *)
(*                                                                         *)
(* Everything is a function of a record s of five parts:                   *)
(*   c   the controller, see Rh20Channel                                   *)
(*   d   the drive: GO; of the status register SERR ATN MOL DRY; adr,   *)
(*       the disk address registers (BAFC with DCY) as a sector number;    *)
(*       st (rp_state), scmd (rp_scmd); the transfer: blkadr blkwds blklim *)
(*       begun (rp_xfrcnt > 0) direct; and its configuration: dma          *)
(*       (rp_dpdma: the subprocess may move words to memory itself) and    *)
(*       dly (rp_iodly: transfers start after a delay)                     *)
(*   armed  whether the timer of that delay (rp_iotmr) runs                *)
(*   x   the memory shared with the subprocess: mol, err, scnt, daddr, the *)
(*       words in the buffer, and cmd, the command it has not acknowledged *)
(*   h   history: of the transfer under way the sector asked for, how many *)
(*       channel words it has taken, and the pairs <<disk word, channel    *)
(*       word>> it has moved, in order; whether the KLH10 has panicked     *)
(* A disk word is its sector number times NWds plus its place.  Channel    *)
(* words are counted from 1; 0 is padding.                                 *)
(* Drive errors are the one composite bit; which bit of ER1 goes with it,  *)
(* write lock, volume valid, maintenance and offset are left out.          *)
(***************************************************************************)
EXTENDS Rh20Channel, SequencesExt

CONSTANTS
    NWds,        \* words in a sector (128)
    TotSecs,     \* sectors on the pack
    BufSecs      \* sectors in the shared buffer

ASSUME DriveAssumption ==
    NWds \in Nat \ {0} /\ TotSecs \in Nat \ {0} /\ BufSecs \in Nat \ {0}

BufWds == BufSecs * NWds
Sectors(words) == (words + NWds - 1) \div NWds

\* n consecutive words from the given one on.
Words(from, n) == [i \in 1..n |-> from + i - 1]

Panic(s) == [s EXCEPT !.h.panic = TRUE]

-----------------------------------------------------------------------------
(* Status                                                                  *)

\* rp_ssta: status bits from what the subprocess has said.
RpSsta(s) ==
    LET on == s.d.st # "OFF" /\ s.x.mol
    IN [s EXCEPT !.d.dry = (s.d.st = "READY"), !.d.mol = on]

RpAttn(s) == [s EXCEPT !.d.atn = TRUE, !.c = Rh20Attn(@, TRUE)]
Serr(s)   == [s EXCEPT !.d.serr = TRUE]
GoOff(s)  == [s EXCEPT !.d.go = FALSE]

\* rp_clear: the drive, but not the subprocess, starts afresh.
RpClear(s) ==
    RpSsta([s EXCEPT !.c = Rh20Attn(@, FALSE), !.d.scmd = "none", !.armed = FALSE,
                     !.d.go = FALSE, !.d.serr = FALSE, !.d.atn = FALSE, !.x.err = FALSE])

\* rp_dpcmd: a command for the subprocess.  dp_xstest is true when it has acknowledged
\* the last one, which it does before the KLH10 handles the done event.
RpDpcmd(s, cmd) ==
    IF s.d.st # "READY" /\ ~(s.d.st = "BUSY" /\ s.x.cmd = "none") THEN Panic(s)
    ELSE [s EXCEPT !.d.st = "BUSY", !.x.cmd = cmd]

-----------------------------------------------------------------------------
(* Transfers.  What may fail returns [ok, s].                              *)

Fails(s)  == [ok |-> FALSE, s |-> s]
GoesOn(s) == [ok |-> TRUE,  s |-> s]

\* rp_ioend: the drive is done, with an error, with blocks it still wanted, or normally.
RpIoend(s) ==
    LET t == RpSsta(s)
    IN IF t.d.serr THEN RpAttn([t EXCEPT !.c = Drerr(@)])
       ELSE [t EXCEPT !.c = Ioend(@, IF t.d.blkwds > 0 THEN Sectors(t.d.blkwds) ELSE 0)]

\* Mutant: a transfer that an error stops is not reported.
Updxfr_Silent(s) ==
    LET end   == s.d.blkadr + s.x.scnt
        over  == end >= TotSecs /\ (s.d.blkwds # 0 \/ end > TotSecs)
        moved == [s EXCEPT !.d.blkadr = end, !.d.adr = end, !.d.serr = @ \/ over \/ s.x.err]
    IN IF moved.d.serr THEN Fails(moved) ELSE GoesOn(moved)
\* rp_updxfr after a piece: advance the address, and stop on an error.
Updxfr(s) ==
    LET end   == s.d.blkadr + s.x.scnt
        over  == end >= TotSecs /\ (s.d.blkwds # 0 \/ end > TotSecs)
        moved == [s EXCEPT !.d.blkadr = end, !.d.adr = end, !.d.serr = @ \/ over \/ s.x.err]
    IN IF moved.d.serr THEN Fails(RpIoend(moved)) ELSE GoesOn(moved)

\* The loops that copy between the shared buffer and memory: up to `room' words, in the
\* portions that the channel offers, n first.  A reverse offer stops them.
CopyLoop(c, n, room) ==
    LET Copied(m, left, b) == [c |-> b.c, n |-> b.n, room |-> left - m]
        Portion(p, m) ==
            IF p.n <= 0 \/ p.room = 0 THEN p ELSE Copied(m, p.room, Iobuf(p.c, m))
        Copy(p) == Portion(p, Least(p.n, p.room))
        Pass[t \in 0..room] ==
            IF t = 0 THEN [c |-> c, n |-> n, room |-> room] ELSE Copy(Pass[t-1])
    IN Pass[room]

\* Send the subprocess a piece: scnt sectors from blkadr on.
Piece(s, cmd, sectors, buf) ==
    GoesOn(RpDpcmd([s EXCEPT !.x.scnt = sectors, !.x.daddr = s.d.blkadr, !.x.buf = buf], cmd))

\* The words of a direct piece have moved: tell the channel.
DirectDone(s, n) ==
    LET b == Iobuf(s.c, n)
    IN IF s.c.wcnt # 0 /\ n > s.c.wcnt THEN Panic(s)
       ELSE [s EXCEPT !.c = b.c, !.d.blkwds = @ - n, !.d.blklim = @ - n, !.h.taken = @ + n]

\* rp_wrfilbuf with the shared buffer filled as far as the loop l went: send totw words.
WrFilled(s, l, totw) ==
    LET filled == [s EXCEPT !.c = l.c, !.d.direct = FALSE]
        pad    == [i \in 1..(Sectors(totw) * NWds) |->
                      IF i <= totw THEN s.h.taken + i ELSE 0]
    IN IF l.n < 0 /\ l.room > 0 THEN Fails([filled EXCEPT !.c = Ioend(@, 1)])
       ELSE IF totw <= 0 THEN Fails(RpIoend(filled))
       ELSE Piece([filled EXCEPT !.d.blkwds = @ - totw, !.d.blklim = @ - totw,
                                 !.h.taken = @ + totw],
                  "WRITE", Sectors(totw), pad)

\* rp_wrfilbuf, the part that sets up the next piece of a write.
WrNext(s) ==
    LET most        == Least(BufWds, s.d.blklim)
        Direct(k)   == Piece([s EXCEPT !.d.direct = TRUE], "WRDMA", k,
                             Words(s.h.taken + 1, k * NWds))
        Indirect(l) == WrFilled(s, l, most - l.room)
        Offer(n)    == IF s.d.dma /\ n > NWds THEN Direct(Least(n, s.d.blklim) \div NWds)
                       ELSE Indirect(CopyLoop(s.c, n, most))
    IN Offer(Iobuf(s.c, 0).n)

\* rp_wrfilbuf: what was written is accounted for; then the next piece.
Wrfilbuf(s) ==
    LET Updated(u) == IF ~u.ok THEN u
                      ELSE IF u.s.d.blkwds = 0 THEN Fails(RpIoend(u.s))
                      ELSE WrNext(u.s)
        Told(t)    == IF t.h.panic THEN Fails(t) ELSE Updated(Updxfr(t))
    IN IF ~s.d.begun THEN WrNext([s EXCEPT !.d.begun = TRUE])
       ELSE Told(IF s.d.direct THEN DirectDone(s, s.x.scnt * NWds) ELSE s)

\* Mutant: a direct piece is rounded up to whole sectors.
RdNext_RoundUp(s, n) ==
    LET direct == s.d.dma /\ n > NWds /\ ~s.c.skip
    IN IF s.d.blklim = 0 THEN Fails(RpIoend(s))
       ELSE Piece([s EXCEPT !.d.direct = direct], IF direct THEN "RDDMA" ELSE "READ",
                  Sectors(Least(IF direct THEN n ELSE BufWds, s.d.blklim)), <<>>)
\* rp_rdflsbuf, the part that asks for the next piece of a read; the channel offers n.
RdNext(s, n) ==
    LET direct == s.d.dma /\ n > NWds /\ ~s.c.skip
    IN IF s.d.blklim = 0 THEN Fails(RpIoend(s))
       ELSE Piece([s EXCEPT !.d.direct = direct], IF direct THEN "RDDMA" ELSE "READ",
                  Least(IF direct THEN n ELSE BufWds, s.d.blklim) \div NWds, <<>>)

\* The first n words read, with the channel words they go to.
Received(s, n) == Zip(SubSeq(s.x.buf, 1, n), Words(s.h.taken + 1, n))

\* The words of an indirect piece are copied to memory as far as the channel goes.
\* What is left of the piece when a reverse offer stops the copy is not counted.
Flush(s) ==
    LET all == s.x.scnt * NWds
        Copied(l, n, back) ==
            [n |-> l.n, reverse |-> back,
             s |-> [s EXCEPT !.c = l.c, !.h.taken = @ + n, !.h.moved = @ \o Received(s, n),
                             !.d.blkwds = IF back THEN @ ELSE @ - n,
                             !.d.blklim = IF back THEN @ ELSE @ - n]]
        Loop(l) == Copied(l, all - l.room, l.n < 0 /\ l.room > 0)
    IN Loop(CopyLoop(s.c, Iobuf(s.c, 0).n, all))

\* A direct piece: the subprocess has put the words in memory.
FlushDirect(s, n) ==
    [n |-> Iobuf(s.c, n).n, reverse |-> FALSE,
     s |-> DirectDone([s EXCEPT !.h.moved = @ \o Received(s, n)], n)]

\* rp_rdflsbuf: what was read is disposed of; then the next piece.
Rdflsbuf(s) ==
    LET Updated(f, u) == IF ~u.ok THEN u
                         ELSE IF f.reverse THEN Fails([u.s EXCEPT !.c = Ioend(@, 1)])
                         ELSE IF f.n = 0 \/ u.s.d.blkwds = 0 THEN Fails(RpIoend(u.s))
                         ELSE RdNext(u.s, f.n)
        Flushed(f)    == IF f.s.h.panic THEN Fails(f.s) ELSE Updated(f, Updxfr(f.s))
    IN IF ~s.d.begun THEN RdNext([s EXCEPT !.d.begun = TRUE], Iobuf(s.c, 0).n)
       ELSE Flushed(IF s.d.direct THEN FlushDirect(s, s.x.scnt * NWds) ELSE Flush(s))

\* Mutant: a transfer is not cut at the end of the pack.
IoxfrAsked_NoCut(t, bc, write) ==
    LET set == [t EXCEPT !.d.blkadr = t.d.adr, !.d.blkwds = bc * NWds, !.d.blklim = bc * NWds,
                         !.d.begun = FALSE, !.d.direct = FALSE,
                         !.d.scmd = IF write THEN "WRT" ELSE "RED"]
    IN IF bc = 0 THEN Fails([t EXCEPT !.c = Ioend(@, 0)])
       ELSE IF t.d.adr >= TotSecs THEN Fails(RpAttn([Serr(t) EXCEPT !.c = Drerr(@)]))
       ELSE IF write THEN Wrfilbuf(set) ELSE Rdflsbuf(set)
\* rp_ioxfr, the channel wanting bc blocks: check the address, cut the transfer at the end of
\* the pack, begin.
IoxfrAsked(t, bc, write) ==
    LET set == [t EXCEPT !.d.blkadr = t.d.adr, !.d.blkwds = bc * NWds,
                         !.d.blklim = Least(bc, TotSecs - t.d.adr) * NWds,
                         !.d.begun = FALSE, !.d.direct = FALSE,
                         !.d.scmd = IF write THEN "WRT" ELSE "RED"]
    IN IF bc = 0 THEN Fails([t EXCEPT !.c = Ioend(@, 0)])
       ELSE IF t.d.adr >= TotSecs THEN Fails(RpAttn([Serr(t) EXCEPT !.c = Drerr(@)]))
       ELSE IF write THEN Wrfilbuf(set) ELSE Rdflsbuf(set)

\* rp_ioxfr.
Ioxfr(s, write) ==
    LET Asked(b) == IoxfrAsked([s EXCEPT !.c = b.c], b.bc, write)
    IN Asked(Iobeg(s.c, write))

-----------------------------------------------------------------------------
(* Register writes and events                                              *)

Xfers == {"WRT", "RED"}

\* rp_cmdxct: a drive command, GO being on.
Cmdxct(s, cmd) ==
    LET Begun(x) == IF x.ok THEN [x.s EXCEPT !.d.dry = FALSE] ELSE GoOff(x.s)
        dead == [s EXCEPT !.c = Drerr(Iobeg(@, cmd = "WRT").c)]
    IN CASE cmd = "CLR" -> RpClear(s)
         [] cmd # "CLR" /\ s.d.serr -> RpAttn(GoOff(s))
         [] cmd # "CLR" /\ ~s.d.serr /\ ~s.d.mol ->
                RpAttn(Serr(GoOff(IF cmd \in Xfers THEN dead ELSE s)))
         [] OTHER ->
            CASE cmd = "NOP" -> GoOff(s)
              [] cmd = "RDP" -> GoOff([s EXCEPT !.d.adr = 0])
              [] cmd = "REC" -> GoOff(RpAttn(s))
              [] cmd = "SEK" -> GoOff(RpAttn(IF s.d.adr >= TotSecs THEN Serr(s) ELSE s))
              [] cmd \in Xfers /\ s.d.dly ->
                     [s EXCEPT !.d.scmd = cmd, !.armed = TRUE, !.d.dry = FALSE]
              [] cmd \in Xfers /\ ~s.d.dly ->
                     Begun(Ioxfr(s, cmd = "WRT"))
              [] OTHER -> RpAttn(Serr(GoOff(s)))

\* rpxx_wrreg: while GO is on nothing but attention can be written, and trying is an
\* error of the drive that the caller does not see.
Wrreg(s, reg, val) ==
    CASE s.d.go /\ reg # "ATTN" -> GoesOn(Serr(s))
      [] ~s.d.go /\ reg = "CSR" -> GoesOn(Cmdxct([s EXCEPT !.d.go = TRUE], val))
      [] ~s.d.go /\ reg = "ADR" -> GoesOn([s EXCEPT !.d.adr = val])
      [] reg = "ATTN" -> GoesOn([s EXCEPT !.d.atn = FALSE, !.c = Rh20Attn(@, FALSE)])
      [] OTHER -> Fails(Serr(s))

\* rpxx_timeout: the delay is over.
RpTimeout(s) ==
    LET t == [s EXCEPT !.armed = FALSE]
        Begun(x) == IF x.ok THEN x.s ELSE GoOff(x.s)
    IN IF s.d.scmd \notin Xfers THEN t ELSE Begun(Ioxfr(t, s.d.scmd = "WRT"))

\* rp_dpcmddon: a piece, or a mount, is complete.
RpDpcmddon(s) ==
    LET Finish(t)  == RpSsta(GoOff([t EXCEPT !.d.scmd = "none"]))
        Further(x) == IF x.ok THEN x.s ELSE Finish(x.s)
    IN CASE s.d.scmd = "MOUNT"  -> Finish(RpAttn(RpSsta(s)))
         [] s.d.scmd \in Xfers  ->
                Further(IF s.d.scmd = "WRT" THEN Wrfilbuf(s) ELSE Rdflsbuf(s))
         [] s.d.scmd = "none"   -> Finish(s)

\* rpxx_evhsdon: the subprocess has said it is done.
RpEvhsdon(s) == RpDpcmddon([s EXCEPT !.d.st = "READY"])

\* rpxx_mount, with a pack or without: refused when busy, else started if it must be.
RpMount(s, pack) ==
    CASE s.d.st = "BUSY" -> s
      [] s.d.st = "OFF" /\ pack = "none" -> s
      [] OTHER -> RpDpcmd([s EXCEPT !.d.scmd = "MOUNT",
                                    !.d.st = IF @ = "OFF" THEN "READY" ELSE @,
                                    !.x.buf = <<>>, !.x.pack = pack], "MOUNT")
=============================================================================
