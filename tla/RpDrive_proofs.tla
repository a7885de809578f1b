--------------------------- MODULE RpDrive_proofs ---------------------------
(***************************************************************************)
(* What the functions of Rh20Channel and RpDrive return, for every number  *)
(* of words in a sector, sectors on a pack and in the buffer, and every    *)
(* channel list.  The results that RhDisk_proofs uses are                  *)
(*   AttnFact, IobegFact, IoendFact, DrerrFact  calls of the controller    *)
(*   WrFurtherFact, RdFurtherFact               a piece is done            *)
(*   IoxfrFact                                  a transfer is attempted    *)
(* A piece that goes to the subprocess is Away: it lies on the pack, and   *)
(* if it is direct its words fit into what the channel has left, so that   *)
(* telling the channel of them afterwards is no panic.                     *)
(*                                                                         *)
(* A record is described by its fields.  Kept, Ended, Gone, Counted, Moved *)
(* say which ones an operator may change, and the lemmas compose them.     *)
(***************************************************************************)
EXTENDS RpDrive, NatInduction

\* The fields of the four records.
CFields == {"cond", "req", "pilev", "draes", "attn", "ptcr", "stcr", "sbar", "sbarf", "bcnt",
            "list", "clp", "wcnt", "hlt", "rev", "skip", "write"}
DFields == {"go", "serr", "atn", "mol", "dry", "adr", "st", "scmd", "blkadr", "blkwds", "blklim",
            "begun", "direct", "dma", "dly"}
XFields == {"mol", "err", "scnt", "daddr", "buf", "cmd", "pack"}
HFields == {"from", "taken", "moved", "panic"}

\* A controller: a record of these parts, its attention bit the drive's.
Ctl(c) ==
    /\ DOMAIN c = CFields /\ c.cond \subseteq CondBits
    /\ c.req \in BOOLEAN /\ c.pilev \in BOOLEAN /\ c.draes \in BOOLEAN /\ c.attn \in BOOLEAN
    /\ c.wcnt \in Nat /\ c.list \in Seq(CcwWord)
    /\ c.attn <=> "MBA" \in c.cond

\* The interrupt request is on when it must be, and for a reason.
Asks(c) ==
    /\ c.pilev /\ ("CMD" \in c.cond \/ {"MBA", "MBAE"} \subseteq c.cond) => c.req
    /\ c.req => Interrupting(c)

\* The bits that a call of the drive's may turn on.
Reports == {"CE", "CMD", "DEE"}

\* What nothing that a drive does with its controller changes.
SameRegs(c, e) ==
    /\ e.pilev = c.pilev /\ e.draes = c.draes /\ e.ptcr = c.ptcr /\ e.stcr = c.stcr
    /\ e.sbar = c.sbar /\ e.sbarf = c.sbarf /\ e.bcnt = c.bcnt /\ e.list = c.list
    /\ \A b \in {"SCRF", "RAE", "MBAE"} : b \in e.cond <=> b \in c.cond

\* What a call of the channel's leaves alone.
SameCtl(c, e) ==
    SameRegs(c, e) /\ e.cond = c.cond /\ e.req = c.req /\ e.attn = c.attn

\* A call of the drive's: the controller stays one, and asks for interrupts if it did.
Called(c, e) == Ctl(e) /\ SameRegs(c, e) /\ (Asks(c) => Asks(e))

\* CONI shows an error.
Failed(c) == c.cond \cap Errors # {}

\* c with other bits on, except for the reports and PCRF.
Rebit(c, k) ==
    /\ DOMAIN k = CFields /\ k.cond \subseteq CondBits
    /\ \A b \in {"SCRF", "RAE", "MBAE", "MBA"} : b \in k.cond <=> b \in c.cond
    /\ \A f \in CFields \ {"cond"} : k[f] = c[f]

\* RhPi on a controller whose conditions have changed leaves a controller, which asks for an
\* interrupt if command done is among them.
LEMMA RhPiFact ==
    ASSUME NEW c, Ctl(c), NEW k, Rebit(c, k)
    PROVE  /\ Ctl(RhPi(k)) /\ SameRegs(c, RhPi(k))
           /\ "CMD" \in k.cond => Asks(RhPi(k))
           /\ RhPi(k).cond = k.cond
           /\ \A f \in CFields \ {"req", "cond"} : RhPi(k)[f] = c[f]
<1> DEFINE e == RhPi(k)
<1>1. /\ DOMAIN k = CFields /\ k.cond \subseteq CondBits
      /\ \A f \in CFields \ {"cond"} : k[f] = c[f]
  BY DEF Rebit
<1>2. /\ DOMAIN e = CFields /\ e.req = (c.req \/ c.pilev)
      /\ \A f \in CFields \ {"req"} : e[f] = k[f]
  BY <1>1 DEF Ctl, CFields, RhPi
<1> HIDE DEF e
<1>7. \A b \in {"SCRF", "RAE", "MBAE", "MBA"} : b \in e.cond <=> b \in c.cond
  BY <1>1, <1>2 DEF CFields, Rebit
<1>3. Ctl(e) /\ SameRegs(c, e)
  <2>1. SameRegs(c, e) BY <1>1, <1>2, <1>7 DEF SameRegs, CFields
  <2>2. Ctl(e) BY <1>1, <1>2, <1>7 DEF Ctl, CFields
  <2> QED BY <2>1, <2>2
<1>4. "CMD" \in k.cond => Asks(e) BY <1>1, <1>2 DEF Ctl, Asks, Interrupting, CFields
<1>5. /\ e.cond = k.cond
      /\ \A f \in CFields \ {"req", "cond"} : e[f] = c[f]
  BY <1>1, <1>2 DEF CFields
<1> QED BY <1>3, <1>4, <1>5 DEF e

\* The drive's call that turns attention on or off (rh20_attn) changes that bit alone, and the
\* request is right after it.
LEMMA AttnFact ==
    ASSUME NEW c, Ctl(c), NEW on \in BOOLEAN
    PROVE  /\ Called(c, Rh20Attn(c, on))
           /\ Rh20Attn(c, on).attn = on
           /\ Rh20Attn(c, on).cond \ {"MBA"} = c.cond \ {"MBA"}
           /\ Rh20Attn(c, on).wcnt = c.wcnt
BY DEF Ctl, Called, SameRegs, Asks, RhPi, Interrupting, CFields, CondBits, Rh20Attn, RhPicheck

\* A word of the list fetched: the controller itself is untouched, and a halt leaves no words.
LEMMA FetchedFact ==
    ASSUME NEW c, Ctl(c), NEW at
    PROVE  /\ Ctl(Fetched(c, at).c) /\ SameCtl(c, Fetched(c, at).c)
           /\ Fetched(c, at).c.write = c.write
           /\ ~Fetched(c, at).ok => Fetched(c, at).c.wcnt = 0
<1> DEFINE w == CcwAt(c, at)
<1>1. w.cnt \in Nat
  <2>1. CASE at \in 1..Len(c.list)
    <3>1. c.list[at] \in CcwWord BY <2>1 DEF Ctl
    <3> QED BY <2>1, <3>1 DEF CcwAt, CcwWord
  <2>2. CASE at \notin 1..Len(c.list) BY <2>2 DEF CcwAt
  <2> QED BY <2>1, <2>2
<1>2. Fetched(c, at) = IF w.op = "HLT"
       THEN [ok |-> FALSE,
             c  |-> [c EXCEPT !.clp = w.to, !.wcnt = 0, !.hlt = TRUE, !.rev = FALSE]]
       ELSE [ok |-> TRUE,
             c  |-> [c EXCEPT !.clp = at + 1, !.wcnt = w.cnt, !.hlt = (w.halt # w.rev),
                              !.rev = w.rev, !.skip = w.skip]]
  BY DEF Fetched
<1> HIDE DEF w
<1> QED BY <1>1, <1>2 DEF Ctl, SameCtl, SameRegs, CFields

\* The same of rhdc_ccwget, which follows jumps first.
LEMMA CcwgetFact ==
    ASSUME NEW c, Ctl(c)
    PROVE  /\ Ctl(Ccwget(c).c) /\ SameCtl(c, Ccwget(c).c)
           /\ Ccwget(c).c.write = c.write
           /\ ~Ccwget(c).ok => Ccwget(c).c.wcnt = 0
<1>1. \E at : Ccwget(c) = Fetched(c, at) BY DEF Ccwget
<1> QED BY <1>1, FetchedFact

\* What the channel offers: never more than the word it is at has left, and nothing only
\* when there is nothing left.
Offer(b) == b.n \in Int /\ b.n <= b.c.wcnt /\ (b.n = 0 => b.c.wcnt = 0)

\* What is offered is at most what the word under way has left, and none only if it has none.
LEMMA OfferedFact ==
    ASSUME NEW c, Ctl(c)
    PROVE  Offered(c) \in Int /\ Offered(c) <= c.wcnt /\ (Offered(c) = 0 => c.wcnt = 0)
BY FillAssumption DEF Ctl, Offered, Least

\* rh20_iobuf, told no more than it had offered, leaves a controller that differs in the channel
\* alone, and a sound offer; asked for nothing, it counts nothing.
LEMMA IobufFact ==
    ASSUME NEW c, Ctl(c), NEW used \in Int, c.wcnt # 0 => used <= c.wcnt
    PROVE  /\ Ctl(Iobuf(c, used).c) /\ SameCtl(c, Iobuf(c, used).c)
           /\ Offer(Iobuf(c, used))
           /\ used = 0 => Iobuf(c, used).c.wcnt = c.wcnt
<1> DEFINE left == [c EXCEPT !.wcnt = @ - used]
<1>1. /\ DOMAIN left = CFields /\ left.wcnt = c.wcnt - used
      /\ \A f \in CFields \ {"wcnt"} : left[f] = c[f]
  BY DEF Ctl, CFields
<1>2. Iobuf(c, used) =
       IF c.wcnt = 0 THEN [n |-> 0, c |-> c]
       ELSE IF left.wcnt > 0 THEN [n |-> Offered(left), c |-> left]
       ELSE IF c.hlt THEN [n |-> 0, c |-> left]
       ELSE [n |-> IF Ccwget(left).ok THEN Offered(Ccwget(left).c) ELSE 0, c |-> Ccwget(left).c]
  BY DEF Iobuf
<1> HIDE DEF left
<1>3. CASE c.wcnt = 0
  <2>1. Iobuf(c, used) = [n |-> 0, c |-> c] BY <1>2, <1>3
  <2> QED BY <2>1, <1>3 DEF Offer, SameCtl, SameRegs
<1>4. CASE c.wcnt # 0
  <2>1. Ctl(left) /\ SameCtl(c, left) BY <1>1, <1>4 DEF Ctl, SameCtl, SameRegs, CFields
  <2>2. Offered(left) \in Int /\ Offered(left) <= left.wcnt /\ (Offered(left) = 0 => left.wcnt = 0)
    BY <2>1, OfferedFact
  <2>3. CASE left.wcnt > 0
    <3>1. Iobuf(c, used) = [n |-> Offered(left), c |-> left] BY <1>2, <1>4, <2>3
    <3> QED BY <3>1, <2>1, <2>2, <2>3, <1>1 DEF Offer, Ctl
  <2>4. CASE ~(left.wcnt > 0) /\ c.hlt
    <3>1. Iobuf(c, used) = [n |-> 0, c |-> left] BY <1>2, <1>4, <2>4
    <3>2. left.wcnt = 0 /\ used # 0 BY <1>1, <1>4, <2>4 DEF Ctl
    <3> QED BY <3>1, <3>2, <2>1 DEF Offer
  <2>5. CASE ~(left.wcnt > 0) /\ ~c.hlt
    <3> DEFINE g == Ccwget(left)
    <3>1. /\ Ctl(g.c) /\ SameCtl(left, g.c) /\ (~g.ok => g.c.wcnt = 0)
      BY <2>1, CcwgetFact
    <3>2. Offered(g.c) \in Int /\ Offered(g.c) <= g.c.wcnt /\ (Offered(g.c) = 0 => g.c.wcnt = 0)
      BY <3>1, OfferedFact
    <3>3. Iobuf(c, used) = [n |-> IF g.ok THEN Offered(g.c) ELSE 0, c |-> g.c]
      BY <1>2, <1>4, <2>5
    <3>4. used # 0 BY <1>1, <1>4, <2>5 DEF Ctl
    <3>5. SameCtl(c, g.c) BY <2>1, <3>1 DEF SameCtl, SameRegs
    <3> HIDE DEF g
    <3> QED BY <3>1, <3>2, <3>3, <3>4, <3>5 DEF Offer
  <2> QED BY <2>3, <2>4, <2>5
<1> QED BY <1>3, <1>4

\* A transfer begins: the list's first word is fetched, and nothing reported, or the controller
\* reports an error.
LEMMA IobegFact ==
    ASSUME NEW c, Ctl(c), NEW write
    PROVE  LET b == Iobeg(c, write)
           IN  /\ Called(c, b.c) /\ b.c.attn = c.attn
               /\ "PCRF" \in b.c.cond <=> "PCRF" \in c.cond
               /\ b.bc = c.bcnt \/ (b.bc = 0 /\ Failed(b.c))
               /\ b.bc # 0 => b.c.cond = c.cond
<1> DEFINE w == [c EXCEPT !.write = write]
           g == Ccwget(w)
           b == Iobeg(c, write)
<1>1. Ctl(w) /\ SameCtl(c, w) BY DEF Ctl, SameCtl, SameRegs, CFields
<1>2. b = IF g.ok THEN [bc |-> c.bcnt, c |-> g.c]
          ELSE [bc |-> 0, c |-> RhPi([g.c EXCEPT !.cond = @ \cup {"CE", "CMD"}])]
  BY DEF Iobeg
<1> HIDE DEF w
<1>3. Ctl(g.c) /\ SameCtl(w, g.c) BY <1>1, CcwgetFact
<1> DEFINE k == g.c
<1> HIDE DEF b, g, k
<1>4. Ctl(k) /\ SameCtl(c, k) BY <1>1, <1>3 DEF SameCtl, SameRegs, k
<1>5. CASE g.ok
  <2>1. Asks(c) => Asks(k) BY <1>4 DEF Asks, SameCtl, SameRegs, Interrupting
  <2>2. b.bc = c.bcnt /\ b.c = k BY <1>2, <1>5 DEF k
  <2>3. k.attn = c.attn /\ k.cond = c.cond /\ Called(c, k) BY <1>4, <2>1 DEF Called, SameCtl
  <2> QED BY <2>2, <2>3 DEF b
<1>6. CASE ~g.ok
  <2> DEFINE m == [k EXCEPT !.cond = @ \cup {"CE", "CMD"}]
             e == RhPi(m)
  <2>1. Rebit(k, m) BY <1>4 DEF Ctl, Rebit, CFields, CondBits
  <2>2. m.cond = k.cond \cup {"CE", "CMD"} BY <1>4 DEF Ctl, CFields
  <2>3. b.c = e /\ b.bc = 0 BY <1>2, <1>6 DEF k
  <2> HIDE DEF m
  <2>4. /\ Ctl(e) /\ SameRegs(k, e) /\ Asks(e) /\ e.cond = m.cond
        /\ \A f \in CFields \ {"req", "cond"} : e[f] = k[f]
    BY <1>4, <2>1, <2>2, RhPiFact
  <2> HIDE DEF e
  <2>5. e.attn = c.attn BY <1>4, <2>4 DEF SameCtl, CFields
  <2>6. Failed(e) BY <2>2, <2>4 DEF Failed, Errors
  <2> QED BY <1>4, <2>2, <2>3, <2>4, <2>5, <2>6 DEF Called, SameCtl, SameRegs, b
<1> QED BY <1>5, <1>6

\* The drive stops: whatever it says, command done is on and asked for; an error too, if there was
\* one or the drive wanted more blocks.
LEMMA IoendFact ==
    ASSUME NEW c, Ctl(c), NEW blocks
    PROVE  LET e == Ioend(c, blocks)
           IN  /\ Ctl(e) /\ SameRegs(c, e) /\ Asks(e)
               /\ "PCRF" \notin e.cond /\ "CMD" \in e.cond
               /\ \A f \in CFields \ {"req", "cond"} : e[f] = c[f]
               /\ blocks # 0 \/ Failed(c) => Failed(e)
<1> DEFINE k == [c EXCEPT !.cond = (@ \ {"PCRF"}) \cup {"CMD"}
                            \cup (IF blocks # 0 \/ c.wcnt # 0 THEN {"CE"} ELSE {})]
           e == RhPi(k)
<1>1. Rebit(c, k) BY DEF Ctl, Rebit, CFields, CondBits
<1>2. "PCRF" \notin k.cond /\ "CMD" \in k.cond BY DEF Ctl, CFields
<1>5. blocks # 0 \/ Failed(c) => Failed(k) BY DEF Ctl, CFields, Failed, Errors
<1>3. Ioend(c, blocks) = e BY DEF Ioend
<1> HIDE DEF k
<1>4. /\ Ctl(e) /\ SameRegs(c, e) /\ Asks(e) /\ e.cond = k.cond
      /\ \A f \in CFields \ {"req", "cond"} : e[f] = c[f]
  BY <1>1, <1>2, RhPiFact
<1> HIDE DEF e
<1> QED BY <1>2, <1>3, <1>4, <1>5 DEF Failed

\* The drive gives up with an error.
LEMMA DrerrFact ==
    ASSUME NEW c, Ctl(c)
    PROVE  LET e == Drerr(c)
           IN  /\ Ctl(e) /\ SameRegs(c, e) /\ Asks(e)
               /\ "PCRF" \notin e.cond /\ "CMD" \in e.cond
               /\ \A f \in CFields \ {"req", "cond"} : e[f] = c[f]
               /\ Failed(e)
<1> DEFINE m == [c EXCEPT !.cond = @ \cup {"DEE"}]
           k == RhPi(m)
           d == IF "DEE" \in c.cond THEN c ELSE k
<1>1. Rebit(c, m) BY DEF Ctl, Rebit, CFields, CondBits
<1> HIDE DEF m
<1>2. Ctl(k) /\ SameRegs(c, k) /\ (\A f \in CFields \ {"req", "cond"} : k[f] = c[f])
  BY <1>1, RhPiFact
<1>3. Drerr(c) = Ioend(d, 1) BY DEF Drerr, k, m
<1> HIDE DEF k
<1>4. Ctl(d) /\ SameRegs(c, d) /\ (\A f \in CFields \ {"req", "cond"} : d[f] = c[f])
  BY <1>2 DEF SameRegs
<1> HIDE DEF d
<1> DEFINE e == Ioend(d, 1)
<1>5. /\ Ctl(e) /\ SameRegs(d, e) /\ Asks(e)
      /\ "PCRF" \notin e.cond /\ "CMD" \in e.cond
      /\ \A f \in CFields \ {"req", "cond"} : e[f] = d[f]
      /\ Failed(e)
  <2>1. 1 # 0 OBVIOUS
  <2> QED BY <1>4, <2>1, IoendFact
<1> HIDE DEF e
<1> QED BY <1>3, <1>4, <1>5 DEF SameRegs, e

-----------------------------------------------------------------------------
(* Arithmetic                                                              *)

\* Whole sectors in a number of words.
LEMMA DivFact ==
    ASSUME NEW m \in Nat
    PROVE  m \div NWds \in Nat /\ (m \div NWds) * NWds <= m /\ m < (m \div NWds) * NWds + NWds
BY DriveAssumption

\* Sectors that hold a number of words, the last of them perhaps in part.
LEMMA SectorsFact ==
    ASSUME NEW m \in Nat
    PROVE  Sectors(m) \in Nat /\ m <= Sectors(m) * NWds /\ Sectors(m) * NWds < m + NWds
           /\ (m > 0 => Sectors(m) > 0)
BY DriveAssumption DEF Sectors

\* Sectors may be compared by their words.
LEMMA Cancel ==
    ASSUME NEW a \in Int, NEW b \in Int, a * NWds <= b * NWds
    PROVE  a <= b
BY DriveAssumption

\* Words of several sectors.
LEMMA Distr ==
    ASSUME NEW a \in Int, NEW b \in Int
    PROVE  (a + b) * NWds = a * NWds + b * NWds /\ (a - b) * NWds = a * NWds - b * NWds
BY DriveAssumption

\* A sector that begins before the end of another is not behind it.
LEMMA Under ==
    ASSUME NEW a \in Int, NEW b \in Int, a * NWds < b * NWds + NWds
    PROVE  a <= b
BY DriveAssumption

\* More sectors are not fewer words.
LEMMA Prod ==
    ASSUME NEW a \in Nat, NEW b \in Nat, a <= b
    PROVE  a * NWds \in Nat /\ a * NWds <= b * NWds /\ (a > 0 => a * NWds > 0)
BY DriveAssumption

\* Words in a row, counted and indexed.
LEMMA WordsFact ==
    ASSUME NEW from \in Int, NEW n \in Nat
    PROVE  /\ Words(from, n) \in Seq(Int) /\ Len(Words(from, n)) = n
           /\ \A i \in 1..n : Words(from, n)[i] = from + i - 1
BY DEF Words

-----------------------------------------------------------------------------
(* Copying between the shared buffer and memory                            *)

\* One turn of the copying loop.
Copy(p) ==
    IF p.n <= 0 \/ p.room = 0 THEN p
    ELSE [c |-> Iobuf(p.c, Least(p.n, p.room)).c, n |-> Iobuf(p.c, Least(p.n, p.room)).n,
          room |-> p.room - Least(p.n, p.room)]

\* f is the copying loop from `start' on.
IsLoop(f, start, room) == f = [t \in 0..room |-> IF t = 0 THEN start ELSE Copy(f[t-1])]

\* The copying loop is a recursive function on 0..room: there is a function that satisfies its
\* equation.
LEMMA LoopFact ==
    ASSUME NEW start, NEW room \in Nat
    PROVE  \E f : IsLoop(f, start, room)
<1> DEFINE P(f, k) == f = [t \in 0..k |-> IF t = 0 THEN start ELSE Copy(f[t-1])]
           T == {k \in 0..room : \E f : P(f, k)}
<1>1. 0 \in T
  <2> DEFINE g == [t \in 0..0 |-> start]
  <2>1. P(g, 0) OBVIOUS
  <2>2. 0 \in 0..room OBVIOUS
  <2> HIDE DEF P, g
  <2> QED BY <2>1, <2>2
<1>2. ASSUME NEW k \in 0..room, k \in T, k < room PROVE k + 1 \in T
  <2>1. PICK f : P(f, k) BY <1>2
  <2> DEFINE g == [t \in 0..k+1 |-> IF t = k + 1 THEN Copy(f[k]) ELSE f[t]]
  <2>2. g = [t \in 0..k+1 |-> IF t = 0 THEN start ELSE Copy(g[t-1])]
    <3>1. ASSUME NEW t \in 0..k+1
          PROVE  g[t] = IF t = 0 THEN start ELSE Copy(g[t-1])
      <4>1. CASE t = k + 1 BY <4>1
      <4>2. CASE t # k + 1
        <5>1. t \in 0..k /\ g[t] = f[t] BY <4>2
        <5>2. f[t] = IF t = 0 THEN start ELSE Copy(f[t-1])
          <6> DEFINE r == [u \in 0..k |-> IF u = 0 THEN start ELSE Copy(f[u-1])]
          <6>1. r[t] = IF t = 0 THEN start ELSE Copy(f[t-1]) BY <5>1
          <6>2. f = r BY <2>1
          <6> HIDE DEF r
          <6> QED BY <6>1, <6>2
        <5>3. t # 0 => g[t-1] = f[t-1] BY <5>1
        <5> QED BY <5>1, <5>2, <5>3
      <4> QED BY <4>1, <4>2
    <3> HIDE DEF g
    <3>2. g = [t \in 0..k+1 |-> g[t]] BY DEF g
    <3> QED BY <3>1, <3>2
  <2>3. k + 1 \in 0..room BY <1>2
  <2> HIDE DEF g
  <2>4. P(g, k + 1) BY <2>2
  <2> HIDE DEF P
  <2> QED BY <2>3, <2>4
<1>3. T \in SUBSET (0..room) OBVIOUS
<1> HIDE DEF T
<1>4. \A i \in 0..room : i \in T BY <1>1, <1>2, <1>3, UpTo
<1>5. room \in T BY <1>4
<1> QED BY <1>5 DEF T, IsLoop

\* The copying loop ends with a sound offer of the channel, with the room used up or with nothing
\* more to copy, and has copied nothing if there was nothing at first.
LEMMA CopyLoopFact ==
    ASSUME NEW c, Ctl(c), NEW n \in Int, n <= c.wcnt, n = 0 => c.wcnt = 0, NEW room \in Nat
    PROVE  LET l == CopyLoop(c, n, room)
           IN  /\ Ctl(l.c) /\ SameCtl(c, l.c) /\ Offer(l)
               /\ l.room \in 0..room /\ (l.n <= 0 \/ l.room = 0)
               /\ n <= 0 => l.room = room
<1> DEFINE start == [c |-> c, n |-> n, room |-> room]
           F == CHOOSE f : IsLoop(f, start, room)
<1>1. CopyLoop(c, n, room) = F[room] BY DEF CopyLoop, Copy, IsLoop
<1> HIDE DEF start
<1>2. \E f : IsLoop(f, start, room) BY LoopFact
<1>3. IsLoop(F, start, room) BY <1>2, Zenon
<1> HIDE DEF F
<1>4. \A t \in 0..room : F[t] = IF t = 0 THEN start ELSE Copy(F[t-1])
  <2> DEFINE r == [t \in 0..room |-> IF t = 0 THEN start ELSE Copy(F[t-1])]
  <2>1. \A t \in 0..room : r[t] = IF t = 0 THEN start ELSE Copy(F[t-1]) OBVIOUS
  <2>2. F = r BY <1>3 DEF IsLoop
  <2> HIDE DEF r
  <2> QED BY <2>1, <2>2
<1> DEFINE Good(p) ==
             /\ Ctl(p.c) /\ SameCtl(c, p.c) /\ Offer(p)
             /\ p.room \in 0..room /\ (n <= 0 => p.room = room /\ p.n = n)
           T == {t \in 0..room : Good(F[t]) /\ (F[t].n <= 0 \/ F[t].room <= room - t)}
<1>5. 0 \in T
  <2>1. F[0] = start BY <1>4
  <2> QED BY <2>1 DEF SameCtl, SameRegs, Offer, start
<1>6. ASSUME NEW t \in 0..room, t \in T, t < room PROVE t + 1 \in T
  <2> DEFINE p == F[t]
             m == Least(p.n, p.room)
  <2>1. t + 1 \in 0..room /\ F[t+1] = Copy(p) BY <1>4, <1>6
  <2>2. Good(p) /\ (p.n <= 0 \/ p.room <= room - t) BY <1>6
  <2> HIDE DEF p
  <2>3. CASE p.n <= 0 \/ p.room = 0
    <3>1. F[t+1] = p BY <2>1, <2>3 DEF Copy
    <3>2. p.room <= room - (t + 1) \/ p.n <= 0 BY <2>3, <2>2, <2>1
    <3> QED BY <2>1, <2>2, <3>1, <3>2
  <2>4. CASE ~(p.n <= 0 \/ p.room = 0)
    <3> DEFINE b == Iobuf(p.c, m)
    <3>1. m \in 1..p.room /\ m <= p.n BY <2>2, <2>4 DEF Offer, Least
    <3>2. F[t+1] = [c |-> b.c, n |-> b.n, room |-> p.room - m] BY <2>1, <2>4 DEF Copy
    <3> HIDE DEF m
    <3>3. m \in Int /\ (p.c.wcnt # 0 => m <= p.c.wcnt)
      BY <2>2, <3>1 DEF Offer, Ctl
    <3>4. Ctl(b.c) /\ SameCtl(p.c, b.c) /\ Offer(b) BY <2>2, <3>3, IobufFact
    <3>5. SameCtl(c, b.c) BY <2>2, <3>4 DEF SameCtl, SameRegs
    <3>6. p.room - m \in 0..room /\ p.room - m <= room - (t + 1) BY <2>1, <2>2, <2>4, <3>1
    <3>7. ~(n <= 0) BY <2>2, <2>4
    <3> HIDE DEF b
    <3>8. Good(F[t+1]) BY <3>2, <3>4, <3>5, <3>6, <3>7 DEF Offer
    <3> QED BY <2>1, <3>2, <3>6, <3>8
  <2> QED BY <2>3, <2>4
<1>7. T \in SUBSET (0..room) OBVIOUS
<1> HIDE DEF T
<1>8. \A i \in 0..room : i \in T BY <1>5, <1>6, <1>7, UpTo
<1>9. room \in T BY <1>8
<1>10. Good(F[room]) /\ (F[room].n <= 0 \/ F[room].room <= room - room) BY <1>9 DEF T
<1> QED BY <1>1, <1>10

-----------------------------------------------------------------------------
(* States                                                                  *)

\* A state of controller, drive and shared memory: records of the parts they have, the
\* controller's attention bit the drive's, and a drive with a pack on line has a subprocess.
Parts(s) ==
    /\ DOMAIN s = {"c", "d", "armed", "x", "h"} /\ DOMAIN s.d = DFields
    /\ DOMAIN s.x = XFields /\ DOMAIN s.h = HFields
    /\ Ctl(s.c)
    /\ s.d.atn = s.c.attn
    /\ s.d.go \in BOOLEAN /\ s.d.serr \in BOOLEAN /\ s.d.mol \in BOOLEAN
    /\ s.x.mol \in BOOLEAN /\ s.x.err \in BOOLEAN /\ s.h.panic \in BOOLEAN
    /\ s.d.adr \in Nat /\ s.x.buf \in Seq(Int)
    /\ s.h.from \in Nat /\ s.h.taken \in Int /\ s.h.moved \in Seq(Int \X Int)
    /\ s.d.mol => s.d.st # "OFF"

\* rp_ssta changes two status bits.
LEMMA SstaFact ==
    ASSUME NEW s, Parts(s)
    PROVE  LET t == RpSsta(s)
           IN  /\ Parts(t) /\ t.c = s.c /\ t.armed = s.armed /\ t.x = s.x /\ t.h = s.h
               /\ \A f \in DFields \ {"dry", "mol"} : t.d[f] = s.d[f]
<1> DEFINE t == RpSsta(s)
<1>1. /\ DOMAIN t = {"c", "d", "armed", "x", "h"} /\ DOMAIN t.d = DFields
      /\ t.c = s.c /\ t.armed = s.armed /\ t.x = s.x /\ t.h = s.h
      /\ \A f \in DFields \ {"dry", "mol"} : t.d[f] = s.d[f]
      /\ t.d.mol \in BOOLEAN /\ (t.d.mol => s.d.st # "OFF")
  BY DEF Parts, RpSsta, DFields
<1> HIDE DEF t
<1>2. Parts(t) BY <1>1 DEF Parts, DFields
<1> QED BY <1>1, <1>2 DEF t

\* rp_attn turns attention on in drive and controller together.
LEMMA AttnState ==
    ASSUME NEW s, Parts(s)
    PROVE  LET t == RpAttn(s)
           IN  /\ Parts(t) /\ Called(s.c, t.c) /\ t.c.cond \ {"MBA"} = s.c.cond \ {"MBA"}
               /\ t.c.wcnt = s.c.wcnt
               /\ t.armed = s.armed /\ t.x = s.x /\ t.h = s.h
               /\ \A f \in DFields \ {"atn"} : t.d[f] = s.d[f]
<1> DEFINE e == Rh20Attn(s.c, TRUE)
           t == RpAttn(s)
<1>1. /\ Called(s.c, e) /\ e.attn = TRUE /\ e.cond \ {"MBA"} = s.c.cond \ {"MBA"}
      /\ e.wcnt = s.c.wcnt
  BY AttnFact DEF Parts
<1> HIDE DEF e
<1>2. /\ DOMAIN t = {"c", "d", "armed", "x", "h"} /\ DOMAIN t.d = DFields
      /\ t.c = e /\ t.armed = s.armed /\ t.x = s.x /\ t.h = s.h
      /\ \A f \in DFields \ {"atn"} : t.d[f] = s.d[f]
      /\ t.d.atn = TRUE
  BY DEF Parts, RpAttn, DFields, e
<1> HIDE DEF t
<1>3. Parts(t) BY <1>1, <1>2 DEF Parts, DFields, Called
<1> QED BY <1>1, <1>2, <1>3 DEF t

\* What a transfer does not change, however far it gets.
Kept(s, t) ==
    /\ Parts(t) /\ SameRegs(s.c, t.c)
    /\ t.armed = s.armed
    /\ t.h.panic = s.h.panic /\ t.h.from = s.h.from /\ t.h.moved = s.h.moved
    /\ t.x.mol = s.x.mol /\ t.x.err = s.x.err /\ t.x.pack = s.x.pack
    /\ \A f \in {"go", "dma", "dly"} : t.d[f] = s.d[f]
    /\ t.d.adr = s.d.adr \/ t.d.adr \in 0..TotSecs

\* A transfer is over: the controller has been told, and asks for an interrupt; without an error
\* all words that were wanted have been taken.
Ended(s, t) ==
    /\ Kept(s, t) /\ Asks(t.c) /\ "PCRF" \notin t.c.cond /\ "CMD" \in t.c.cond
    /\ t.x = s.x /\ t.d.st = s.d.st /\ t.d.scmd = s.d.scmd
    /\ Failed(t.c) \/ t.h.taken = s.h.taken + s.d.blkwds

\* The drive and the controller after Ioend or Drerr of the controller's.
LEMMA TellFact ==
    ASSUME NEW s, Parts(s), NEW e, Ctl(e), SameRegs(s.c, e), Asks(e),
           "PCRF" \notin e.cond, "CMD" \in e.cond, Failed(e) \/ s.d.blkwds = 0,
           \A f \in CFields \ {"req", "cond"} : e[f] = s.c[f],
           NEW t, t = [s EXCEPT !.c = e]
    PROVE  Parts(t) /\ Ended(s, t)
<1>1. /\ DOMAIN t = {"c", "d", "armed", "x", "h"} /\ t.c = e
      /\ t.armed = s.armed /\ t.x = s.x /\ t.h = s.h /\ t.d = s.d
  BY DEF Parts
<1>2. e.attn = s.c.attn BY DEF CFields
<1>3. Parts(t) BY <1>1, <1>2 DEF Parts
<1>4. Failed(t.c) \/ t.h.taken = s.h.taken + s.d.blkwds
  <2>1. s.h.taken \in Int BY DEF Parts
  <2>2. Failed(e) \/ s.d.blkwds = 0 OBVIOUS
  <2> QED BY <1>1, <2>1, <2>2
<1> QED BY <1>1, <1>3, <1>4 DEF Ended, Kept

\* rp_ioend ends the transfer, whichever of its three calls it takes, and does so with an error if
\* the drive has one or wanted more words.
LEMMA RpIoendFact ==
    ASSUME NEW s, Parts(s), s.d.blkwds \in Nat
    PROVE  /\ Ended(s, RpIoend(s))
           /\ s.d.serr \/ s.d.blkwds # 0 => Failed(RpIoend(s).c)
<1> DEFINE t == RpSsta(s)
<1>1. /\ Parts(t) /\ t.c = s.c /\ t.armed = s.armed /\ t.x = s.x /\ t.h = s.h
      /\ \A f \in DFields \ {"dry", "mol"} : t.d[f] = s.d[f]
  BY SstaFact
<1>2. RpIoend(s) =
        IF t.d.serr THEN RpAttn([t EXCEPT !.c = Drerr(@)])
        ELSE [t EXCEPT !.c = Ioend(@, IF t.d.blkwds > 0 THEN Sectors(t.d.blkwds) ELSE 0)]
  BY DEF RpIoend
<1> HIDE DEF t
<1>3. Ctl(t.c) BY <1>1 DEF Parts
<1>4. ASSUME NEW u, Ended(t, u) PROVE Ended(s, u)
  BY <1>1, <1>4 DEF Ended, Kept, DFields
<1>7. t.d.serr = s.d.serr /\ t.d.blkwds = s.d.blkwds BY <1>1 DEF DFields
<1>5. CASE t.d.serr
  <2> DEFINE e == Drerr(t.c)
             k == [t EXCEPT !.c = e]
             u == RpAttn(k)
  <2>1. /\ Ctl(e) /\ SameRegs(t.c, e) /\ Asks(e) /\ "PCRF" \notin e.cond /\ "CMD" \in e.cond
        /\ \A f \in CFields \ {"req", "cond"} : e[f] = t.c[f]
        /\ Failed(e)
    BY <1>3, DrerrFact
  <2> HIDE DEF e
  <2>2. Parts(k) /\ Ended(t, k) /\ k.c = e
    <3>1. Parts(k) /\ Ended(t, k) BY <1>1, <2>1, TellFact
    <3>2. k.c = e BY <1>1 DEF Parts
    <3> QED BY <3>1, <3>2
  <2>3. RpIoend(s) = u BY <1>2, <1>5 DEF e
  <2> HIDE DEF k
  <2>4. /\ Parts(u) /\ Called(k.c, u.c) /\ u.c.cond \ {"MBA"} = k.c.cond \ {"MBA"}
        /\ u.armed = k.armed /\ u.x = k.x /\ u.h = k.h
        /\ \A f \in DFields \ {"atn"} : u.d[f] = k.d[f]
    BY <2>2, AttnState
  <2> HIDE DEF u
  <2>5. "PCRF" \notin u.c.cond /\ "CMD" \in u.c.cond BY <2>2, <2>4 DEF Ended
  <2>7. Failed(u.c) BY <2>1, <2>2, <2>4 DEF Failed, Errors
  <2>6. Ended(t, u) BY <2>2, <2>4, <2>5, <2>7 DEF Ended, Kept, Called, SameRegs, DFields
  <2> QED BY <2>3, <2>6, <2>7, <1>4
<1>6. CASE ~t.d.serr
  <2> DEFINE blocks == IF t.d.blkwds > 0 THEN Sectors(t.d.blkwds) ELSE 0
             e == Ioend(t.c, blocks)
             k == [t EXCEPT !.c = e]
  <2>1. /\ Ctl(e) /\ SameRegs(t.c, e) /\ Asks(e) /\ "PCRF" \notin e.cond /\ "CMD" \in e.cond
        /\ \A f \in CFields \ {"req", "cond"} : e[f] = t.c[f]
        /\ blocks # 0 => Failed(e)
    BY <1>3, IoendFact
  <2>2. RpIoend(s) = k BY <1>2, <1>6
  <2>4. s.d.blkwds # 0 => blocks # 0
    <3>1. s.d.blkwds > 0 => Sectors(s.d.blkwds) > 0 BY SectorsFact
    <3>2. Sectors(s.d.blkwds) \in Nat BY SectorsFact
    <3> QED BY <1>7, <3>1, <3>2
  <2> HIDE DEF e, blocks
  <2>5. Failed(e) \/ t.d.blkwds = 0 BY <1>7, <2>1, <2>4
  <2>3. Parts(k) /\ Ended(t, k) /\ k.c = e
    <3>1. Parts(k) /\ Ended(t, k) BY <1>1, <2>1, <2>5, TellFact
    <3>2. k.c = e BY <1>1 DEF Parts
    <3> QED BY <3>1, <3>2
  <2> HIDE DEF k
  <2>6. Ended(s, k) BY <2>3, <1>4
  <2>7. s.d.serr \/ s.d.blkwds # 0 => Failed(k.c) BY <1>6, <1>7, <2>1, <2>3, <2>4
  <2> QED BY <2>2, <2>6, <2>7
<1> QED BY <1>5, <1>6

-----------------------------------------------------------------------------
(* Pieces of a transfer                                                    *)

\* How far a transfer has got, in numbers; what is left lies on the pack.
Space(d) ==
    /\ d.blkadr \in 0..TotSecs /\ d.blkwds \in Nat /\ d.blklim \in Nat /\ d.blklim <= d.blkwds

\* What is left of the transfer lies on the pack.
Fits(d) == d.blkadr * NWds + d.blklim <= TotSecs * NWds

\* What is left of it are whole sectors.
Whole(d) == \E k \in Nat : d.blklim = k * NWds

\* A piece that the subprocess has: it lies on the pack; the words of a direct one fit into
\* what the channel has; and, but for an indirect write, they are still to be counted.
Away(s) ==
    /\ Space(s.d) /\ s.x.scnt \in Nat /\ s.x.daddr = s.d.blkadr
    /\ s.d.blkadr + s.x.scnt <= TotSecs
    /\ s.d.direct \in BOOLEAN
    /\ s.d.direct => s.x.scnt * NWds <= s.c.wcnt
    /\ s.d.direct \/ s.d.scmd = "RED" => s.x.scnt * NWds <= s.d.blklim /\ Fits(s.d)
    /\ ~s.d.direct /\ s.d.scmd = "WRT" =>
          (s.d.blkadr + s.x.scnt) * NWds + s.d.blklim <= TotSecs * NWds \/ s.c.wcnt = 0
    /\ s.d.scmd = "WRT" => Whole(s.d) \/ s.c.wcnt = 0

\* The channel has nothing left for a transfer that wants more.
Short(s) == ~s.d.direct /\ s.c.wcnt = 0 /\ s.d.blkwds # 0

\* What a piece of a write holds: the words of the channel's after the first `base' ones, and
\* then padding if the channel has run short; those of an indirect piece count as taken.
Filled(s, base) ==
    \E q \in 0..Len(s.x.buf) :
        /\ \A i \in 1..Len(s.x.buf) : s.x.buf[i] = IF i <= q THEN base + i ELSE 0
        /\ q = Len(s.x.buf) \/ Short(s)
        /\ s.h.taken = IF s.d.direct THEN base ELSE base + q

\* The piece follows the first `base' words of the channel's.
Continues(s, base) == IF s.d.scmd = "WRT" THEN Filled(s, base) ELSE s.h.taken = base

\* The next piece is with the subprocess.
Gone(s, t) ==
    /\ Kept(s, t) /\ SameCtl(s.c, t.c)
    /\ t.h.taken + t.d.blkwds = s.h.taken + s.d.blkwds
    /\ t.d.st = "BUSY" /\ t.d.scmd = s.d.scmd /\ t.d.begun = TRUE
    /\ t.d.mol = s.d.mol /\ t.d.serr = s.d.serr
    /\ s.d.scmd = "WRT" => Len(t.x.buf) = t.x.scnt * NWds
    /\ t.x.cmd \in IF s.d.scmd = "WRT" THEN {"WRITE", "WRDMA"} ELSE {"READ", "RDDMA"}
    /\ Away(t)

\* What may come of an attempt to go on with a transfer at sector adr, when `base' words of the
\* channel's have been moved.
Outcome(s, adr, base, r) ==
    \/ \E t : r = GoesOn(t) /\ Gone(s, t) /\ t.d.blkadr = adr /\ Continues(t, base)
    \/ \E t : r = Fails(t) /\ Ended(s, t)

\* It goes on, or ends with an error.
Attempt(s, adr, base, r) == Outcome(s, adr, base, r) /\ (r.ok \/ Failed(r.s.c))

\* A command handed to the subprocess.
Handed(s, t, cmd, sectors, buf) ==
    /\ Parts(t) /\ t.c = s.c /\ t.armed = s.armed /\ t.h = s.h
    /\ \A f \in DFields \ {"st"} : t.d[f] = s.d[f]
    /\ t.d.st = "BUSY"
    /\ t.x.scnt = sectors /\ t.x.daddr = s.d.blkadr /\ t.x.cmd = cmd /\ t.x.buf = buf
    /\ t.x.mol = s.x.mol /\ t.x.err = s.x.err /\ t.x.pack = s.x.pack

\* A piece handed over when the drive is ready is no panic.
LEMMA PieceFact ==
    ASSUME NEW s, Parts(s), s.d.st = "READY", NEW cmd, NEW sectors, NEW buf \in Seq(Int)
    PROVE  \E t : Piece(s, cmd, sectors, buf) = GoesOn(t) /\ Handed(s, t, cmd, sectors, buf)
<1> DEFINE k == [s EXCEPT !.x.scnt = sectors, !.x.daddr = s.d.blkadr, !.x.buf = buf]
           t == [k EXCEPT !.d.st = "BUSY", !.x.cmd = cmd]
<1>1. /\ DOMAIN k = {"c", "d", "armed", "x", "h"} /\ DOMAIN k.x = XFields
      /\ k.c = s.c /\ k.armed = s.armed /\ k.h = s.h /\ k.d = s.d
      /\ k.x.scnt = sectors /\ k.x.daddr = s.d.blkadr /\ k.x.buf = buf
      /\ k.x.mol = s.x.mol /\ k.x.err = s.x.err /\ k.x.pack = s.x.pack
  BY DEF Parts, XFields
<1> HIDE DEF k
<1>2. Piece(s, cmd, sectors, buf) = GoesOn(t) BY <1>1 DEF Piece, RpDpcmd, k
<1>3. /\ DOMAIN t = {"c", "d", "armed", "x", "h"} /\ DOMAIN t.x = XFields /\ DOMAIN t.d = DFields
      /\ t.c = s.c /\ t.armed = s.armed /\ t.h = s.h
      /\ \A f \in DFields \ {"st"} : t.d[f] = s.d[f]
      /\ t.d.st = "BUSY"
      /\ t.x.scnt = sectors /\ t.x.daddr = s.d.blkadr /\ t.x.buf = buf /\ t.x.cmd = cmd
      /\ t.x.mol = s.x.mol /\ t.x.err = s.x.err /\ t.x.pack = s.x.pack
  BY <1>1 DEF Parts, XFields, DFields
<1> HIDE DEF t
<1>4. Parts(t) BY <1>3 DEF Parts, DFields
<1>5. Handed(s, t, cmd, sectors, buf) BY <1>3, <1>4 DEF Handed
<1> QED BY <1>2, <1>5

\* A piece of k sectors that lies on the pack.
LEMMA OnPack ==
    ASSUME NEW a \in Nat, NEW lim \in Nat, NEW k \in Nat, NEW m \in Nat,
           a * NWds + lim <= TotSecs * NWds, m <= lim, k * NWds < m + NWds
    PROVE  a + k <= TotSecs
<1>1. (a + k) * NWds = a * NWds + k * NWds BY Distr
<1>2. a * NWds \in Nat /\ k * NWds \in Nat /\ TotSecs * NWds \in Nat /\ NWds \in Nat
  BY DriveAssumption
<1>3. (a + k) * NWds < TotSecs * NWds + NWds BY <1>1, <1>2
<1> QED BY <1>3, Under, DriveAssumption

\* A filled buffer becomes a piece that lies on the pack, or ends the transfer, which an empty one
\* does.
LEMMA WrFilledFact ==
    ASSUME NEW s, Parts(s), s.d.st = "READY", s.d.scmd = "WRT", s.d.begun = TRUE, Space(s.d),
           s.d.blkwds # 0, NEW most, most = Least(BufWds, s.d.blklim),
           NEW l, Ctl(l.c), SameCtl(s.c, l.c), Offer(l), l.room \in 0..most,
           l.n <= 0 \/ l.room = 0, most # l.room => Fits(s.d) /\ Whole(s.d)
    PROVE  /\ Attempt(s, s.d.blkadr, s.h.taken, WrFilled(s, l, most - l.room))
           /\ most = l.room => ~WrFilled(s, l, most - l.room).ok
<1> DEFINE totw == most - l.room
           filled == [s EXCEPT !.c = l.c, !.d.direct = FALSE]
           pad == [i \in 1..(Sectors(totw) * NWds) |-> IF i <= totw THEN s.h.taken + i ELSE 0]
           further == [filled EXCEPT !.d.blkwds = @ - totw, !.d.blklim = @ - totw, !.h.taken = @ + totw]
           r == WrFilled(s, l, totw)
<1>1. BufWds \in Nat /\ most \in Nat /\ most <= s.d.blklim /\ totw \in Nat /\ totw <= most
  BY DriveAssumption DEF BufWds, Least, Space
<1>2. r = IF l.n < 0 /\ l.room > 0 THEN Fails([filled EXCEPT !.c = Ioend(@, 1)])
          ELSE IF totw <= 0 THEN Fails(RpIoend(filled))
          ELSE Piece(further, "WRITE", Sectors(totw), pad)
  BY DEF WrFilled
<1> HIDE DEF pad, r
<1>3. /\ DOMAIN filled = {"c", "d", "armed", "x", "h"} /\ DOMAIN filled.d = DFields
      /\ filled.c = l.c /\ filled.armed = s.armed /\ filled.h = s.h /\ filled.x = s.x
      /\ \A f \in DFields \ {"direct"} : filled.d[f] = s.d[f]
      /\ filled.d.direct = FALSE
  BY DEF Parts, DFields
<1>4. /\ DOMAIN further = {"c", "d", "armed", "x", "h"} /\ DOMAIN further.d = DFields
      /\ DOMAIN further.h = HFields
      /\ further.c = l.c /\ further.armed = s.armed /\ further.x = s.x
      /\ further.h.panic = s.h.panic /\ further.h.from = s.h.from /\ further.h.moved = s.h.moved
      /\ further.h.taken = s.h.taken + totw
      /\ \A f \in DFields \ {"direct", "blkwds", "blklim"} : further.d[f] = s.d[f]
      /\ further.d.direct = FALSE
      /\ further.d.blkwds = s.d.blkwds - totw /\ further.d.blklim = s.d.blklim - totw
  <2> HIDE DEF filled, totw
  <2> QED BY <1>3 DEF Parts, DFields, HFields
<1> HIDE DEF filled, further
<1>5. Parts(filled) /\ Parts(further)
  <2>1. l.c.attn = s.c.attn BY DEF SameCtl
  <2>2. Parts(filled) BY <1>3, <2>1 DEF Parts, DFields
  <2>4. further.h.taken \in Int
    <3>1. s.h.taken \in Int BY DEF Parts
    <3> HIDE DEF totw
    <3> QED BY <1>1, <1>4, <3>1
  <2>3. Parts(further)
    <3> HIDE DEF totw
    <3> QED BY <1>4, <2>1, <2>4 DEF Parts, DFields
  <2> QED BY <2>2, <2>3
<1>6. ASSUME NEW u, Ended(filled, u) PROVE Ended(s, u)
  BY <1>3, <1>6 DEF Ended, Kept, DFields, SameCtl, SameRegs
<1>10. ASSUME NEW u, r = Fails(u), Ended(s, u), Failed(u.c)
       PROVE  Attempt(s, s.d.blkadr, s.h.taken, r) /\ ~r.ok
  BY <1>10 DEF Attempt, Outcome, Fails
<1>7. CASE l.n < 0 /\ l.room > 0
  <2> DEFINE e == Ioend(filled.c, 1)
             k == [filled EXCEPT !.c = e]
  <2>1. /\ Ctl(e) /\ SameRegs(filled.c, e) /\ Asks(e) /\ "PCRF" \notin e.cond /\ "CMD" \in e.cond
        /\ \A f \in CFields \ {"req", "cond"} : e[f] = filled.c[f]
        /\ Failed(e)
    <3>1. 1 # 0 OBVIOUS
    <3> QED BY <1>3, <3>1, IoendFact
  <2>2. r = Fails(k) BY <1>2, <1>7
  <2> HIDE DEF e
  <2>3. Ended(filled, k) /\ k.c = e
    <3>1. Ended(filled, k) BY <1>5, <2>1, TellFact
    <3>2. k.c = e BY <1>3
    <3> QED BY <3>1, <3>2
  <2> HIDE DEF k
  <2>4. Ended(s, k) /\ Failed(k.c) BY <2>1, <2>3, <1>6
  <2>5. Attempt(s, s.d.blkadr, s.h.taken, r) /\ ~r.ok BY <2>2, <2>4, <1>10
  <2> QED BY <2>5 DEF r
<1>8. CASE ~(l.n < 0 /\ l.room > 0) /\ totw <= 0
  <2>1. r = Fails(RpIoend(filled)) BY <1>2, <1>8
  <2>2. filled.d.blkwds \in Nat /\ filled.d.blkwds # 0 BY <1>3 DEF Space, DFields
  <2>3. Ended(filled, RpIoend(filled)) /\ Failed(RpIoend(filled).c) BY <1>5, <2>2, RpIoendFact
  <2>4. Ended(s, RpIoend(filled)) BY <2>3, <1>6
  <2>5. Attempt(s, s.d.blkadr, s.h.taken, r) /\ ~r.ok BY <2>1, <2>3, <2>4, <1>10
  <2> QED BY <2>5 DEF r
<1>9. CASE ~(l.n < 0 /\ l.room > 0) /\ totw > 0
  <2> DEFINE k == Sectors(totw)
  <2>1. r = Piece(further, "WRITE", k, pad)
    <3> HIDE DEF totw
    <3> QED BY <1>1, <1>2, <1>9
  <2>10. pad \in Seq(Int) /\ Len(pad) = k * NWds
    <3>1. k * NWds \in Nat
      <4>1. k \in Nat BY <1>1, SectorsFact
      <4> HIDE DEF k
      <4> QED BY <4>1, DriveAssumption
    <3>2. s.h.taken \in Int BY DEF Parts
    <3> DEFINE len == k * NWds
    <3>3. pad = [i \in 1..len |-> IF i <= totw THEN s.h.taken + i ELSE 0] BY DEF pad
    <3> HIDE DEF len, totw, k
    <3> QED BY <3>1, <3>2, <3>3 DEF len
  <2>2. PICK t : Piece(further, "WRITE", k, pad) = GoesOn(t) /\ Handed(further, t, "WRITE", k, pad)
    <3>1. further.d.st = "READY" BY <1>4 DEF DFields
    <3>2. Parts(further) BY <1>5
    <3> HIDE DEF k, pad
    <3> QED BY <3>1, <3>2, <2>10, PieceFact
  <2>3. k \in Nat /\ totw <= k * NWds /\ k * NWds < totw + NWds BY <1>1, SectorsFact
  <2>4. Fits(s.d) BY <1>9
  <2>5. s.d.blkadr + k <= TotSecs BY <2>3, <2>4, <1>1, OnPack DEF Fits, Space
  <2>6. (s.d.blkadr + k) * NWds + (s.d.blklim - totw) <= TotSecs * NWds \/ l.c.wcnt = 0
    <3> HIDE DEF k
    <3>1. CASE l.room # 0
      <4>1. l.n = 0 BY <3>1, <1>9 DEF Offer
      <4> QED BY <4>1 DEF Offer
    <3>2. CASE l.room = 0 /\ s.d.blklim <= totw
      <4>1. s.d.blklim - totw = 0 BY <3>2, <1>1 DEF Space
      <4>2. (s.d.blkadr + k) * NWds <= TotSecs * NWds
        <5> QED BY <2>3, <2>5, Prod, DriveAssumption DEF Space
      <4>3. (s.d.blkadr + k) * NWds \in Int /\ TotSecs * NWds \in Int BY <2>3, DriveAssumption DEF Space
      <4> QED BY <4>1, <4>2, <4>3
    <3>3. CASE l.room = 0 /\ ~(s.d.blklim <= totw)
      <4>1. totw = BufSecs * NWds BY <3>3, <1>1 DEF Least, BufWds, Space
      <4>2. BufSecs * NWds <= k * NWds /\ k * NWds < BufSecs * NWds + NWds BY <2>3, <4>1
      <4>3. k * NWds = totw
        <5>1. k <= BufSecs BY <4>2, <2>3, Under, DriveAssumption
        <5>2. BufSecs <= k BY <4>2, <2>3, Cancel, DriveAssumption
        <5>3. k = BufSecs BY <5>1, <5>2, <2>3, DriveAssumption
        <5> QED BY <5>3, <4>1
      <4>4. (s.d.blkadr + k) * NWds = s.d.blkadr * NWds + k * NWds
        <5> QED BY <2>3, Distr, DriveAssumption DEF Space
      <4>5. s.d.blkadr * NWds \in Int /\ TotSecs * NWds \in Int BY DriveAssumption DEF Space
      <4> HIDE DEF totw
      <4> QED BY <4>3, <4>4, <4>5, <2>4, <1>1 DEF Fits, Space
    <3> QED BY <3>1, <3>2, <3>3
  <2>13. \/ totw = k * NWds /\ (\E j \in Nat : s.d.blklim - totw = j * NWds)
         \/ l.c.wcnt = 0 /\ s.d.blkwds - totw # 0
    <3> HIDE DEF k
    <3>1. CASE l.room # 0
      <4>1. l.c.wcnt = 0 BY <3>1, <1>9 DEF Offer
      <4>2. s.d.blkwds - totw # 0 BY <3>1, <1>1 DEF Space
      <4> QED BY <4>1, <4>2
    <3> PICK j \in Nat : s.d.blklim = j * NWds BY <1>9 DEF Whole
    <3>4. ASSUME NEW i \in Nat, totw = i * NWds PROVE k = i
      <4>1. i * NWds <= k * NWds /\ k * NWds < i * NWds + NWds BY <2>3, <3>4
      <4>2. k <= i BY <4>1, <2>3, Under, DriveAssumption
      <4>3. i <= k BY <4>1, <2>3, Cancel, DriveAssumption
      <4> QED BY <4>2, <4>3, <2>3
    <3>2. CASE l.room = 0 /\ s.d.blklim <= totw
      <4>1. totw = s.d.blklim BY <3>2, <1>1 DEF Space
      <4>2. k = j BY <4>1, <3>4
      <4>3. s.d.blklim - totw = 0 * NWds BY <4>1, DriveAssumption DEF Space
      <4> HIDE DEF totw
      <4>4. 0 \in Nat /\ totw = k * NWds BY <4>1, <4>2
      <4> QED BY <4>3, <4>4
    <3>3. CASE l.room = 0 /\ ~(s.d.blklim <= totw)
      <4>1. totw = BufSecs * NWds /\ totw < j * NWds BY <3>3, <1>1 DEF Least, BufWds, Space
      <4>2. k = BufSecs BY <4>1, <3>4, DriveAssumption
      <4>3. BufSecs <= j BY <4>1, Cancel, DriveAssumption
      <4>4. (j - BufSecs) * NWds = j * NWds - BufSecs * NWds BY Distr, DriveAssumption
      <4>5. j - BufSecs \in Nat BY <4>3, DriveAssumption
      <4> HIDE DEF totw
      <4> QED BY <4>1, <4>2, <4>4, <4>5
    <3> QED BY <3>1, <3>2, <3>3, <1>1
  <2> HIDE DEF k, totw
  <2>7. Kept(s, t) /\ SameCtl(s.c, t.c) BY <2>2, <1>4 DEF Handed, Kept, SameCtl, DFields
  <2>8. Away(t)
    <3>1. /\ t.x.scnt = k /\ t.x.daddr = s.d.blkadr /\ t.d.direct = FALSE
          /\ t.d.blkadr = s.d.blkadr /\ t.d.scmd = "WRT" /\ t.c.wcnt = l.c.wcnt
          /\ t.d.blkwds = s.d.blkwds - totw /\ t.d.blklim = s.d.blklim - totw
      BY <2>2, <1>4 DEF Handed, DFields
    <3>2. Space(t.d) BY <3>1, <1>1 DEF Space
    <3>3. Whole(t.d) \/ t.c.wcnt = 0 BY <2>13, <3>1 DEF Whole
    <3> QED BY <2>3, <2>5, <2>6, <3>1, <3>2, <3>3 DEF Away
  <2>12. Len(t.x.buf) = t.x.scnt * NWds
    <3> HIDE DEF pad
    <3> QED BY <2>2, <2>10 DEF Handed
  <2>14. /\ t.h.taken = s.h.taken + totw /\ t.d.blkwds = s.d.blkwds - totw
         /\ t.d.direct = FALSE /\ t.d.scmd = "WRT" /\ t.c.wcnt = l.c.wcnt /\ t.x.buf = pad
    BY <2>2, <1>4 DEF Handed, DFields
  <2>15. t.h.taken + t.d.blkwds = s.h.taken + s.d.blkwds
    <3>1. s.h.taken \in Int /\ s.d.blkwds \in Int BY DEF Parts, Space
    <3> QED BY <1>1, <2>14, <3>1
  <2>9. Gone(s, t) BY <2>2, <2>7, <2>8, <2>12, <2>15, <1>4 DEF Gone, Handed, DFields
  <2>11. t.d.blkadr = s.d.blkadr BY <2>2, <1>4 DEF Handed, DFields
  <2>16. Filled(t, s.h.taken)
    <3>1. totw \in 0..Len(t.x.buf) BY <1>1, <2>3, <2>10, <2>14
    <3>2. \A i \in 1..Len(t.x.buf) : t.x.buf[i] = IF i <= totw THEN s.h.taken + i ELSE 0
      BY <2>10, <2>14 DEF pad, k
    <3>3. totw = Len(t.x.buf) \/ Short(t) BY <2>10, <2>13, <2>14 DEF Short
    <3>4. t.h.taken = IF t.d.direct THEN s.h.taken ELSE s.h.taken + totw BY <2>14
    <3> QED BY <3>1, <3>2, <3>3, <3>4 DEF Filled
  <2>17. Continues(t, s.h.taken) BY <2>14, <2>16 DEF Continues
  <2>18. r = GoesOn(t) BY <2>1, <2>2
  <2>19. Attempt(s, s.d.blkadr, s.h.taken, r) /\ most # l.room
    <3>1. r.ok BY <2>18 DEF GoesOn
    <3>2. most # l.room BY <1>9, <1>1 DEF totw
    <3> QED BY <2>9, <2>11, <2>17, <2>18, <3>1, <3>2 DEF Outcome, Attempt
  <2> QED BY <2>19 DEF r, totw
<1> QED BY <1>7, <1>8, <1>9, <1>1

\* A step within a transfer, nothing having been sent or reported yet.
On(s, k) ==
    /\ Kept(s, k) /\ SameCtl(s.c, k.c) /\ k.x = s.x
    /\ k.h.taken + k.d.blkwds = s.h.taken + s.d.blkwds
    /\ \A f \in {"st", "scmd", "mol", "serr"} : k.d[f] = s.d[f]

\* An outcome from a state that the transfer has come to is one of the transfer.
LEMMA OnFact ==
    ASSUME NEW s, NEW k, On(s, k), NEW adr, NEW base, NEW r, Outcome(k, adr, base, r)
    PROVE  Outcome(s, adr, base, r)
<1>1. ASSUME NEW t, Gone(k, t) PROVE Gone(s, t)
  <2>1. Kept(s, t) BY <1>1 DEF On, Gone, Kept, SameRegs
  <2>2. SameCtl(s.c, t.c) BY <1>1 DEF On, Gone, SameCtl, SameRegs
  <2> QED BY <1>1, <2>1, <2>2 DEF On, Gone
<1>2. ASSUME NEW t, Ended(k, t) PROVE Ended(s, t)
  <2>1. Kept(s, t) BY <1>2 DEF On, Ended, Kept, SameRegs
  <2> QED BY <1>2, <2>1 DEF On, Ended
<1> QED BY <1>1, <1>2 DEF Outcome

\* The next piece of a write, if what is left lies on the pack or the channel has nothing left;
\* in that case there is none.
LEMMA WrNextFact ==
    ASSUME NEW s, Parts(s), s.d.st = "READY", s.d.scmd = "WRT", s.d.begun = TRUE, Space(s.d),
           s.d.blkwds # 0, (Fits(s.d) /\ Whole(s.d)) \/ s.c.wcnt = 0
    PROVE  /\ Attempt(s, s.d.blkadr, s.h.taken, WrNext(s))
           /\ s.c.wcnt = 0 => ~WrNext(s).ok
<1> DEFINE b == Iobuf(s.c, 0)
           n == b.n
           most == Least(BufWds, s.d.blklim)
           l == CopyLoop(s.c, n, most)
           k == Least(n, s.d.blklim) \div NWds
           s1 == [s EXCEPT !.d.direct = TRUE]
           words == Words(s.h.taken + 1, k * NWds)
<1>1. Ctl(s.c) BY DEF Parts
<1>2. n \in Int /\ n <= s.c.wcnt /\ (n = 0 => s.c.wcnt = 0)
  <2>1. Offer(b) /\ b.c.wcnt = s.c.wcnt
    <3>1. 0 \in Int /\ (s.c.wcnt # 0 => 0 <= s.c.wcnt) BY <1>1 DEF Ctl
    <3> QED BY <1>1, <3>1, IobufFact
  <2> QED BY <2>1 DEF Offer
<1>3. WrNext(s) = IF s.d.dma /\ n > NWds THEN Piece(s1, "WRDMA", k, words)
                  ELSE WrFilled(s, l, most - l.room)
  BY DEF WrNext
<1> HIDE DEF n, b
<1>4. CASE s.d.dma /\ n > NWds
  <2>1. WrNext(s) = Piece(s1, "WRDMA", k, words) BY <1>3, <1>4
  <2>2. /\ DOMAIN s1 = {"c", "d", "armed", "x", "h"} /\ DOMAIN s1.d = DFields
        /\ s1.c = s.c /\ s1.armed = s.armed /\ s1.x = s.x /\ s1.h = s.h /\ s1.d.direct = TRUE
        /\ \A f \in DFields \ {"direct"} : s1.d[f] = s.d[f]
    BY DEF Parts, DFields
  <2> HIDE DEF s1, words
  <2>3. Parts(s1) /\ s1.d.st = "READY" BY <2>2 DEF Parts, DFields
  <2> DEFINE m == Least(n, s.d.blklim)
  <2>4. m \in Nat /\ m <= n /\ m <= s.d.blklim
    BY <1>2, <1>4, DriveAssumption DEF Least, Space
  <2>5. k \in Nat /\ k * NWds <= m
    <3> HIDE DEF m
    <3>1. m \div NWds \in Nat /\ (m \div NWds) * NWds <= m BY <2>4, DivFact
    <3> QED BY <3>1 DEF m
  <2> HIDE DEF k
  <2>14. words \in Seq(Int) /\ Len(words) = k * NWds
    <3>1. s.h.taken + 1 \in Int /\ k * NWds \in Nat
      <4>1. s.h.taken \in Int BY DEF Parts
      <4> QED BY <2>5, <4>1, DriveAssumption
    <3> QED BY <3>1, WordsFact DEF words
  <2>6. PICK t : Piece(s1, "WRDMA", k, words) = GoesOn(t) /\ Handed(s1, t, "WRDMA", k, words)
    BY <2>3, <2>14, PieceFact
  <2>7. s.c.wcnt # 0 /\ s.c.wcnt \in Nat BY <1>1, <1>2, <1>4, DriveAssumption DEF Ctl
  <2>8. Fits(s.d) /\ Whole(s.d) BY <2>7
  <2>9. k * NWds \in Nat /\ k * NWds <= n /\ k * NWds <= s.d.blklim
    BY <2>4, <2>5, <1>2, DriveAssumption DEF Space
  <2>10. s.d.blkadr + k <= TotSecs
    <3>1. k * NWds < m + NWds BY <2>4, <2>5, <2>9, DriveAssumption
    <3> HIDE DEF m
    <3> QED BY <2>4, <2>5, <2>8, <3>1, OnPack DEF Fits, Space
  <2>11. Away(t)
    <3>1. /\ t.x.scnt = k /\ t.x.daddr = s.d.blkadr /\ t.d.direct = TRUE /\ t.c = s.c
          /\ t.d.blkadr = s.d.blkadr /\ t.d.scmd = "WRT"
          /\ t.d.blkwds = s.d.blkwds /\ t.d.blklim = s.d.blklim
      BY <2>2, <2>6 DEF Handed, DFields
    <3>2. Space(t.d) /\ Fits(t.d) /\ Whole(t.d) BY <2>8, <3>1 DEF Space, Fits, Whole
    <3>3. k * NWds <= s.c.wcnt BY <1>2, <2>7, <2>9
    <3> QED BY <2>5, <2>9, <2>10, <3>1, <3>2, <3>3 DEF Away
  <2>12. Kept(s, t) /\ SameCtl(s.c, t.c) BY <2>2, <2>6 DEF Handed, Kept, SameCtl, SameRegs, DFields
  <2>13. Gone(s, t) BY <2>2, <2>6, <2>11, <2>12, <2>14 DEF Gone, Handed, DFields
  <2>15. /\ t.d.blkadr = s.d.blkadr /\ t.d.scmd = "WRT" /\ t.d.direct = TRUE
         /\ t.h.taken = s.h.taken /\ t.x.buf = words
    BY <2>2, <2>6 DEF Handed, DFields
  <2>16. Filled(t, s.h.taken)
    <3> DEFINE q == Len(t.x.buf)
    <3>1. q \in 0..q BY <2>14, <2>15, <2>9
    <3>2. \A i \in 1..q : t.x.buf[i] = IF i <= q THEN s.h.taken + i ELSE 0
      <4>1. s.h.taken \in Int /\ s.h.taken + 1 \in Int BY DEF Parts
      <4>2. \A i \in 1..(k * NWds) : words[i] = s.h.taken + 1 + i - 1
        BY <2>9, <4>1, WordsFact DEF words
      <4>3. q = k * NWds BY <2>14, <2>15
      <4> HIDE DEF q
      <4> QED BY <2>9, <2>15, <4>1, <4>2, <4>3
    <3> HIDE DEF q
    <3> QED BY <2>15, <3>1, <3>2 DEF Filled, q
  <2>17. Continues(t, s.h.taken) BY <2>15, <2>16 DEF Continues
  <2>18. WrNext(s) = GoesOn(t) /\ WrNext(s).ok BY <2>1, <2>6 DEF GoesOn
  <2> QED BY <2>7, <2>13, <2>15, <2>17, <2>18 DEF Outcome, Attempt
<1>5. CASE ~(s.d.dma /\ n > NWds)
  <2>1. WrNext(s) = WrFilled(s, l, most - l.room) BY <1>3, <1>5
  <2>2. most \in Nat BY DriveAssumption DEF BufWds, Least, Space
  <2> HIDE DEF most
  <2>3. /\ Ctl(l.c) /\ SameCtl(s.c, l.c) /\ Offer(l)
        /\ l.room \in 0..most /\ (l.n <= 0 \/ l.room = 0)
        /\ n <= 0 => l.room = most
    BY <1>1, <1>2, <2>2, CopyLoopFact
  <2> HIDE DEF l
  <2>4. most # l.room => Fits(s.d) /\ Whole(s.d) BY <1>1, <1>2, <2>3 DEF Ctl
  <2>5. most = Least(BufWds, s.d.blklim) BY DEF most
  <2>6. s.c.wcnt = 0 => most = l.room BY <1>2, <2>3
  <2>7. /\ Attempt(s, s.d.blkadr, s.h.taken, WrFilled(s, l, most - l.room))
        /\ most = l.room => ~WrFilled(s, l, most - l.room).ok
    BY <2>3, <2>4, <2>5, WrFilledFact
  <2> QED BY <2>1, <2>6, <2>7
<1> QED BY <1>4, <1>5

\* n words of a transfer counted.
Counted(s, t, n) ==
    /\ Parts(t) /\ SameCtl(s.c, t.c) /\ t.armed = s.armed /\ t.x = s.x
    /\ t.h.panic = s.h.panic /\ t.h.from = s.h.from /\ t.h.moved = s.h.moved
    /\ \A f \in DFields \ {"blkwds", "blklim"} : t.d[f] = s.d[f]
    /\ t.d.blkwds = s.d.blkwds - n /\ t.d.blklim = s.d.blklim - n /\ t.h.taken = s.h.taken + n

\* The words of a direct piece are counted, once, and the channel is told of no more than it had.
LEMMA DirectDoneFact ==
    ASSUME NEW s, Parts(s), NEW n \in Nat, n <= s.c.wcnt
    PROVE  /\ Counted(s, DirectDone(s, n), n)
           /\ DirectDone(s, n).c = Iobuf(s.c, n).c
<1> DEFINE b == Iobuf(s.c, n)
           t == [s EXCEPT !.c = b.c, !.d.blkwds = @ - n, !.d.blklim = @ - n, !.h.taken = @ + n]
<1>1. Ctl(s.c) BY DEF Parts
<1>2. Ctl(b.c) /\ SameCtl(s.c, b.c)
  <2>1. n \in Int /\ (s.c.wcnt # 0 => n <= s.c.wcnt) OBVIOUS
  <2> QED BY <1>1, <2>1, IobufFact
<1>3. DirectDone(s, n) = t
  <2>1. ~(s.c.wcnt # 0 /\ n > s.c.wcnt) BY <1>1 DEF Ctl
  <2> QED BY <2>1 DEF DirectDone
<1> HIDE DEF b
<1>4. /\ DOMAIN t = {"c", "d", "armed", "x", "h"} /\ DOMAIN t.d = DFields /\ DOMAIN t.h = HFields
      /\ t.c = b.c /\ t.armed = s.armed /\ t.x = s.x
      /\ t.h.panic = s.h.panic /\ t.h.from = s.h.from /\ t.h.moved = s.h.moved
      /\ t.h.taken = s.h.taken + n
      /\ \A f \in DFields \ {"blkwds", "blklim"} : t.d[f] = s.d[f]
      /\ t.d.blkwds = s.d.blkwds - n /\ t.d.blklim = s.d.blklim - n
  BY DEF Parts, DFields, HFields
<1> HIDE DEF t
<1>5. b.c.attn = s.c.attn BY <1>2 DEF SameCtl
<1>8. t.h.taken \in Int
  <2>1. s.h.taken \in Int BY DEF Parts
  <2> QED BY <1>4, <2>1
<1>6. Parts(t) BY <1>2, <1>4, <1>5, <1>8 DEF Parts, DFields
<1>7. Counted(s, t, n) BY <1>2, <1>4, <1>6 DEF Counted
<1> QED BY <1>3, <1>4, <1>7 DEF b

\* The address has been advanced.
Moved(s, t) ==
    /\ Parts(t) /\ t.c = s.c /\ t.armed = s.armed /\ t.x = s.x /\ t.h = s.h
    /\ \A f \in DFields \ {"blkadr", "adr"} : t.d[f] = s.d[f]
    /\ t.d.blkadr = s.d.blkadr + s.x.scnt /\ t.d.adr = t.d.blkadr

\* rp_updxfr ends the transfer with an error or moves the address past a piece without one.
LEMMA UpdxfrFact ==
    ASSUME NEW s, Parts(s), s.d.blkadr + s.x.scnt \in 0..TotSecs, s.d.blkwds \in Nat
    PROVE  \/ \E t : Updxfr(s) = Fails(t) /\ Ended(s, t) /\ Failed(t.c)
           \/ \E t : Updxfr(s) = GoesOn(t) /\ Moved(s, t) /\ ~s.x.err
<1> DEFINE end == s.d.blkadr + s.x.scnt
           over == end >= TotSecs /\ (s.d.blkwds # 0 \/ end > TotSecs)
           t == [s EXCEPT !.d.blkadr = end, !.d.adr = end, !.d.serr = @ \/ over \/ s.x.err]
<1>1. Updxfr(s) = IF t.d.serr THEN Fails(RpIoend(t)) ELSE GoesOn(t) BY DEF Updxfr
<1>2. /\ DOMAIN t = {"c", "d", "armed", "x", "h"} /\ DOMAIN t.d = DFields
      /\ t.c = s.c /\ t.armed = s.armed /\ t.x = s.x /\ t.h = s.h
      /\ \A f \in DFields \ {"blkadr", "adr", "serr"} : t.d[f] = s.d[f]
      /\ t.d.blkadr = end /\ t.d.adr = end
      /\ t.d.serr = (s.d.serr \/ over \/ s.x.err)
  <2> HIDE DEF end, over
  <2> QED BY DEF Parts, DFields
<1> HIDE DEF t, over
<1>3. Parts(t)
  <2>1. t.d.serr \in BOOLEAN /\ end \in Nat BY <1>2
  <2> HIDE DEF end
  <2> QED BY <1>2, <2>1 DEF Parts, DFields
<1> HIDE DEF end
<1>4. CASE t.d.serr
  <2>1. Ended(t, RpIoend(t)) /\ Failed(RpIoend(t).c)
    <3>1. t.d.blkwds \in Nat BY <1>2 DEF DFields
    <3> QED BY <1>3, <1>4, <3>1, RpIoendFact
  <2> DEFINE u == RpIoend(t)
  <2> HIDE DEF u
  <2>2. Ended(t, u) /\ Failed(u.c) BY <2>1 DEF u
  <2>3. end \in 0..TotSecs BY DEF end
  <2>4. Ended(s, u) BY <1>2, <2>2, <2>3 DEF Ended, Kept, DFields
  <2>5. Updxfr(s) = Fails(u) BY <1>1, <1>4 DEF u
  <2> QED BY <2>2, <2>4, <2>5
<1>5. CASE ~t.d.serr
  <2>1. t.d.serr = s.d.serr
    <3>1. s.d.serr \in BOOLEAN /\ t.d.serr \in BOOLEAN BY <1>3 DEF Parts
    <3> QED BY <1>2, <1>5, <3>1
  <2>2. Moved(s, t) BY <1>2, <1>3, <2>1 DEF Moved, DFields, end
  <2>3. ~s.x.err BY <1>2, <1>5
  <2> QED BY <1>1, <1>5, <2>2, <2>3
<1> QED BY <1>4, <1>5

\* rp_wrfilbuf when a transfer begins, and when a piece has been written.
LEMMA WrBeginFact ==
    ASSUME NEW s, Parts(s), s.d.st = "READY", s.d.scmd = "WRT", s.d.begun = FALSE, Space(s.d),
           Fits(s.d), Whole(s.d), s.d.blkwds # 0
    PROVE  Attempt(s, s.d.blkadr, s.h.taken, Wrfilbuf(s))
<1> DEFINE k == [s EXCEPT !.d.begun = TRUE]
<1>1. Wrfilbuf(s) = WrNext(k) BY DEF Wrfilbuf
<1>2. /\ DOMAIN k = {"c", "d", "armed", "x", "h"} /\ DOMAIN k.d = DFields
      /\ k.c = s.c /\ k.armed = s.armed /\ k.x = s.x /\ k.h = s.h
      /\ \A f \in DFields \ {"begun"} : k.d[f] = s.d[f]
      /\ k.d.begun = TRUE
  BY DEF Parts, DFields
<1> HIDE DEF k
<1>3. Parts(k) BY <1>2 DEF Parts, DFields
<1>4. k.d.st = "READY" /\ k.d.scmd = "WRT" /\ k.d.blkadr = s.d.blkadr BY <1>2 DEF DFields
<1>5. Space(k.d) /\ Fits(k.d) /\ Whole(k.d) /\ k.d.blkwds # 0
  BY <1>2 DEF Space, Fits, Whole, DFields
<1>6. Attempt(k, k.d.blkadr, k.h.taken, WrNext(k)) BY <1>2, <1>3, <1>4, <1>5, WrNextFact
<1>7. On(s, k) BY <1>2, <1>3 DEF On, Kept, SameCtl, SameRegs, DFields
<1> DEFINE r == WrNext(k)
           adr == s.d.blkadr
           base == s.h.taken
<1>8. Attempt(k, adr, base, r) BY <1>2, <1>4, <1>6
<1>9. Wrfilbuf(s) = r BY <1>1
<1> HIDE DEF r, adr, base
<1>10. Attempt(s, adr, base, r) BY <1>7, <1>8, OnFact DEF Attempt
<1> QED BY <1>9, <1>10 DEF adr, base

\* s counted and advanced.
LEMMA CountedMoved ==
    ASSUME NEW s, NEW n, NEW k, Counted(s, k, n), NEW t, Moved(k, t),
           s.d.blkadr + s.x.scnt \in 0..TotSecs, n \in Int, s.d.blkwds \in Int, s.h.taken \in Int
    PROVE  On(s, t) /\ t.h.taken = s.h.taken + n /\ t.d.blkwds = s.d.blkwds - n /\ t.d.blklim = s.d.blklim - n
           /\ t.d.blkadr = s.d.blkadr + s.x.scnt /\ t.d.begun = s.d.begun
<1>1. t.c = k.c /\ t.armed = k.armed /\ t.x = k.x /\ t.h = k.h /\ Parts(t) BY DEF Moved
<1>2. /\ \A f \in DFields \ {"blkadr", "adr", "blkwds", "blklim"} : t.d[f] = s.d[f]
      /\ t.d.blkwds = s.d.blkwds - n /\ t.d.blklim = s.d.blklim - n
      /\ t.d.blkadr = s.d.blkadr + s.x.scnt /\ t.d.adr = t.d.blkadr
  BY DEF Counted, Moved, DFields
<1>3. Kept(s, t) BY <1>1, <1>2 DEF Counted, Kept, SameCtl, DFields
<1>5. t.h.taken = s.h.taken + n BY <1>1 DEF Counted
<1>6. t.h.taken + t.d.blkwds = s.h.taken + s.d.blkwds BY <1>2, <1>5
<1>4. On(s, t) BY <1>1, <1>2, <1>3, <1>6 DEF Counted, On, DFields
<1> QED BY <1>2, <1>4, <1>5 DEF DFields

\* Words of the channel's that a write has moved when its piece is done.
Base(s) == IF s.d.direct THEN s.h.taken + s.x.scnt * NWds ELSE s.h.taken

\* A piece of a write is done: the next one starts where it ended, or the transfer ends; with an
\* error if the piece had one or the channel has run short, and else when all that it has moved
\* is counted.
LEMMA WrFurtherFact ==
    ASSUME NEW s, Parts(s), s.d.st = "READY", s.d.scmd = "WRT", s.d.begun = TRUE, Away(s),
           s.h.panic = FALSE
    PROVE  /\ Outcome(s, s.d.blkadr + s.x.scnt, Base(s), Wrfilbuf(s))
           /\ s.x.err \/ Short(s) => ~Wrfilbuf(s).ok /\ Failed(Wrfilbuf(s).s.c)
           /\ Wrfilbuf(s).ok \/ Failed(Wrfilbuf(s).s.c) \/ Wrfilbuf(s).s.h.taken = Base(s)
<1> DEFINE n == IF s.d.direct THEN s.x.scnt * NWds ELSE 0
           k == IF s.d.direct THEN DirectDone(s, s.x.scnt * NWds) ELSE s
           w == Updxfr(k)
           adr == s.d.blkadr + s.x.scnt
           base == Base(s)
           r == Wrfilbuf(s)
           Right == /\ Outcome(s, adr, base, r)
                    /\ s.x.err \/ Short(s) => ~r.ok /\ Failed(r.s.c)
                    /\ r.ok \/ Failed(r.s.c) \/ r.s.h.taken = base
<1>1. adr \in 0..TotSecs BY DriveAssumption DEF Away, Space
<1>2. s.x.scnt * NWds \in Nat
  <2>1. s.x.scnt \in Nat BY DEF Away
  <2> QED BY <2>1, DriveAssumption
<1>3. Counted(s, k, n)
  <2>1. CASE s.d.direct
    <3> DEFINE m == s.x.scnt * NWds
    <3>1. m \in Nat /\ m <= s.c.wcnt BY <1>2, <2>1 DEF Away
    <3>2. k = DirectDone(s, m) /\ n = m BY <2>1
    <3> HIDE DEF m, k, n
    <3>3. Counted(s, DirectDone(s, m), m) BY <3>1, DirectDoneFact
    <3> QED BY <3>2, <3>3
  <2>2. CASE ~s.d.direct
    <3>1. k = s /\ n = 0 BY <2>2
    <3>2. /\ s.d.blkwds - 0 = s.d.blkwds /\ s.d.blklim - 0 = s.d.blklim
          /\ s.h.taken + 0 = s.h.taken
      BY DEF Away, Space, Parts
    <3> HIDE DEF k, n
    <3> QED BY <3>1, <3>2 DEF Counted, SameCtl, SameRegs
  <2> QED BY <2>1, <2>2
<1>4. r = IF k.h.panic THEN Fails(k)
          ELSE IF ~w.ok THEN w
          ELSE IF w.s.d.blkwds = 0 THEN Fails(RpIoend(w.s))
          ELSE WrNext(w.s)
  BY DEF Wrfilbuf
<1>5. n \in Nat /\ n <= s.d.blklim BY <1>2 DEF Away, Space
<1>6. ~s.d.direct => n = 0 OBVIOUS
<1>7. s.d.direct => n = s.x.scnt * NWds OBVIOUS
<1>12. base = s.h.taken + n BY <1>6, <1>7 DEF Base, Parts
<1> HIDE DEF n, k, r, base
<1>13. /\ s.h.taken \in Int /\ s.d.blkwds \in Nat /\ n <= s.d.blkwds /\ k.d.blkwds = s.d.blkwds - n
       /\ k.h.taken = s.h.taken + n
  BY <1>3, <1>5 DEF Parts, Away, Space, Counted
<1>8. k.h.panic = FALSE /\ Parts(k) /\ k.d.blkadr + k.x.scnt = adr /\ k.x = s.x
  BY <1>3 DEF Counted, DFields
<1>9. \/ \E t : w = Fails(t) /\ Ended(k, t) /\ Failed(t.c)
      \/ \E t : w = GoesOn(t) /\ Moved(k, t) /\ ~k.x.err
  <2>1. k.d.blkwds \in Nat BY <1>5, <1>13
  <2> QED BY <1>1, <1>8, <2>1, UpdxfrFact
<1> HIDE DEF w
<1>10. ASSUME NEW t, w = Fails(t), Ended(k, t), Failed(t.c) PROVE Right
  <2>1. r = Fails(t) BY <1>4, <1>8, <1>10 DEF Fails
  <2>2. Ended(s, t) BY <1>3, <1>10 DEF Counted, Ended, Kept, SameCtl, SameRegs, DFields
  <2> QED BY <1>10, <2>1, <2>2 DEF Outcome, Fails
<1>11. ASSUME NEW t, w = GoesOn(t), Moved(k, t), ~k.x.err PROVE Right
  <2>1. r = IF t.d.blkwds = 0 THEN Fails(RpIoend(t)) ELSE WrNext(t)
    BY <1>4, <1>8, <1>11 DEF GoesOn
  <2>2. /\ On(s, t) /\ t.d.blkwds = s.d.blkwds - n /\ t.d.blklim = s.d.blklim - n
        /\ t.d.blkadr = adr /\ t.d.begun = s.d.begun /\ t.h.taken = base
    <3>1. n \in Int /\ s.d.blkwds \in Int BY <1>5, <1>13
    <3> QED BY <1>1, <1>3, <1>11, <1>12, <1>13, <3>1, CountedMoved
  <2>3. Parts(t) /\ ~s.x.err /\ t.d.blkwds \in Nat BY <1>5, <1>8, <1>11, <1>13, <2>2 DEF Moved
  <2>4. CASE t.d.blkwds = 0
    <3>1. r = Fails(RpIoend(t)) BY <2>1, <2>4
    <3>2. Ended(t, RpIoend(t)) BY <2>3, RpIoendFact
    <3>3. Outcome(t, adr, base, r) BY <3>1, <3>2 DEF Outcome
    <3>4. ~Short(s) BY <1>6, <1>13, <2>2, <2>4 DEF Short
    <3>6. Failed(r.s.c) \/ r.s.h.taken = base
      <4>1. t.h.taken \in Int /\ t.h.taken + 0 = t.h.taken BY <2>3 DEF Parts
      <4>2. r.s = RpIoend(t) BY <3>1 DEF Fails
      <4> QED BY <2>2, <2>4, <3>2, <4>1, <4>2 DEF Ended
    <3> HIDE DEF adr
    <3>5. Outcome(s, adr, base, r) BY <2>2, <3>3, OnFact
    <3> QED BY <2>3, <3>4, <3>5, <3>6
  <2>5. CASE t.d.blkwds # 0
    <3>1. r = WrNext(t) BY <2>1, <2>5
    <3>2. t.d.st = "READY" /\ t.d.scmd = "WRT" /\ t.d.begun = TRUE BY <2>2 DEF On
    <3>3. Space(t.d) BY <2>2, <1>1, <1>5 DEF Space, Away
    <3>7. ~s.d.direct => t.c.wcnt = s.c.wcnt
      <4>1. ~s.d.direct => k = s BY DEF k
      <4> QED BY <4>1, <1>11 DEF Moved
    <3>8. Whole(s.d) => Whole(t.d)
      <4> SUFFICES ASSUME Whole(s.d) PROVE Whole(t.d) OBVIOUS
      <4>1. PICK j \in Nat : s.d.blklim = j * NWds BY DEF Whole
      <4>2. CASE s.d.direct
        <5>1. s.x.scnt \in Nat /\ s.x.scnt * NWds <= j * NWds BY <4>1, <4>2 DEF Away
        <5>2. s.x.scnt <= j BY <5>1, Cancel
        <5>3. (j - s.x.scnt) * NWds = j * NWds - s.x.scnt * NWds
          <6>1. j \in Int /\ s.x.scnt \in Int BY <5>1
          <6> QED BY <6>1, Distr
        <5>4. j - s.x.scnt \in Nat BY <5>1, <5>2
        <5> QED BY <1>7, <2>2, <4>1, <4>2, <5>3, <5>4 DEF Whole
      <4>3. CASE ~s.d.direct
        <5>1. t.d.blklim = s.d.blklim BY <4>3, <1>6, <2>2 DEF Away, Space
        <5> QED BY <4>1, <5>1 DEF Whole
      <4> QED BY <4>2, <4>3
    <3>4. (Fits(t.d) /\ Whole(t.d)) \/ t.c.wcnt = 0
      <4>1. CASE s.d.direct
        <5>1. t.d.blkadr * NWds = s.d.blkadr * NWds + s.x.scnt * NWds
          <6>1. s.d.blkadr \in Int /\ s.x.scnt \in Int BY DriveAssumption DEF Away, Space
          <6> QED BY <2>2, <6>1, Distr
        <5>2. Fits(s.d) BY <4>1 DEF Away
        <5>3. s.d.blkadr * NWds \in Int /\ TotSecs * NWds \in Int /\ s.d.blklim \in Int
          BY DriveAssumption DEF Away, Space
        <5>4. Fits(t.d) BY <4>1, <5>1, <5>2, <5>3, <2>2, <1>2, <1>7 DEF Fits
        <5>5. Whole(s.d) \/ s.c.wcnt = 0 BY DEF Away
        <5>6. CASE s.c.wcnt # 0 BY <3>8, <5>4, <5>5, <5>6
        <5>7. CASE s.c.wcnt = 0
          <6>1. s.x.scnt * NWds <= 0 BY <4>1, <5>7 DEF Away
          <6>2. n = 0 BY <1>2, <1>7, <4>1, <6>1
          <6>3. t.c = Iobuf(s.c, 0).c
            <7>1. k.c = Iobuf(s.c, s.x.scnt * NWds).c
              <8>1. s.x.scnt * NWds \in Nat /\ s.x.scnt * NWds <= s.c.wcnt BY <1>2, <6>1, <5>7
              <8>2. k = DirectDone(s, s.x.scnt * NWds) BY <4>1 DEF k
              <8> QED BY <8>1, <8>2, DirectDoneFact
            <7>2. s.x.scnt * NWds = 0 BY <6>2, <1>7, <4>1
            <7> QED BY <7>1, <7>2, <1>11 DEF Moved
          <6>4. t.c.wcnt = 0 BY <5>7, <6>3 DEF Iobuf
          <6> QED BY <6>4
        <5> QED BY <5>6, <5>7
      <4>2. CASE ~s.d.direct
        <5>2. t.c.wcnt = s.c.wcnt BY <3>7, <4>2
        <5>5. Whole(s.d) \/ s.c.wcnt = 0 BY DEF Away
        <5>3. (s.d.blkadr + s.x.scnt) * NWds + s.d.blklim <= TotSecs * NWds \/ s.c.wcnt = 0
          BY <4>2 DEF Away
        <5>4. t.d.blklim = s.d.blklim BY <4>2, <1>6, <2>2 DEF Away, Space
        <5> QED BY <2>2, <3>8, <5>2, <5>3, <5>4, <5>5 DEF Fits
      <4> QED BY <4>1, <4>2
    <3>5. /\ Attempt(t, t.d.blkadr, t.h.taken, WrNext(t))
          /\ t.c.wcnt = 0 => ~WrNext(t).ok
      BY <2>3, <2>5, <3>2, <3>3, <3>4, WrNextFact
    <3>6. Outcome(t, adr, base, r) /\ (r.ok \/ Failed(r.s.c)) /\ (t.c.wcnt = 0 => ~r.ok)
      BY <3>1, <3>5, <2>2 DEF Attempt
    <3> HIDE DEF adr
    <3>9. Outcome(s, adr, base, r) BY <2>2, <3>6, OnFact
    <3>10. Short(s) => t.c.wcnt = 0 BY <3>7 DEF Short
    <3> QED BY <2>3, <3>6, <3>9, <3>10
  <2> QED BY <2>4, <2>5
<1> HIDE DEF adr
<1> QED BY <1>9, <1>10, <1>11 DEF r, adr, base

\* The next piece of a read, if what is left lies on the pack.
LEMMA RdNextFact ==
    ASSUME NEW s, Parts(s), s.d.st = "READY", s.d.scmd = "RED", s.d.begun = TRUE, Space(s.d),
           Fits(s.d), s.d.blkwds # 0, s.d.dma \in BOOLEAN, NEW n \in Int, n <= s.c.wcnt
    PROVE  Attempt(s, s.d.blkadr, s.h.taken, RdNext(s, n))
<1> DEFINE direct == s.d.dma /\ n > NWds /\ ~s.c.skip
           m == Least(IF direct THEN n ELSE BufWds, s.d.blklim)
           k == m \div NWds
           cmd == IF direct THEN "RDDMA" ELSE "READ"
           s1 == [s EXCEPT !.d.direct = direct]
           r == RdNext(s, n)
<1>1. r = IF s.d.blklim = 0 THEN Fails(RpIoend(s)) ELSE Piece(s1, cmd, k, <<>>) BY DEF RdNext
<1> HIDE DEF r
<1>2. CASE s.d.blklim = 0
  <2>1. Ended(s, RpIoend(s)) /\ Failed(RpIoend(s).c) BY RpIoendFact DEF Space
  <2>2. r = Fails(RpIoend(s)) BY <1>1, <1>2
  <2>3. Attempt(s, s.d.blkadr, s.h.taken, r) BY <2>1, <2>2 DEF Outcome, Attempt, Fails
  <2> QED BY <2>3 DEF r
<1>3. CASE s.d.blklim # 0
  <2>1. r = Piece(s1, cmd, k, <<>>) BY <1>1, <1>3
  <2>2. m \in Nat /\ m <= s.d.blklim /\ (direct => m <= n)
    BY DriveAssumption DEF Least, Space, BufWds
  <2>3. k \in Nat /\ k * NWds <= m
    <3> HIDE DEF m
    <3>1. m \div NWds \in Nat /\ (m \div NWds) * NWds <= m BY <2>2, DivFact
    <3> QED BY <3>1 DEF m
  <2>4. direct \in BOOLEAN BY DEF Parts
  <2>5. direct => n > NWds OBVIOUS
  <2> HIDE DEF m, k, direct
  <2>6. /\ DOMAIN s1 = {"c", "d", "armed", "x", "h"} /\ DOMAIN s1.d = DFields
        /\ s1.c = s.c /\ s1.armed = s.armed /\ s1.x = s.x /\ s1.h = s.h /\ s1.d.direct = direct
        /\ \A f \in DFields \ {"direct"} : s1.d[f] = s.d[f]
    BY DEF Parts, DFields
  <2> HIDE DEF s1
  <2>7. Parts(s1) /\ s1.d.st = "READY" BY <2>6 DEF Parts, DFields
  <2>8. cmd \in {"READ", "RDDMA"} OBVIOUS
  <2> HIDE DEF cmd
  <2>9. PICK t : Piece(s1, cmd, k, <<>>) = GoesOn(t) /\ Handed(s1, t, cmd, k, <<>>)
    <3>1. <<>> \in Seq(Int) OBVIOUS
    <3> QED BY <2>7, <3>1, PieceFact
  <2>10. k * NWds \in Nat /\ m \in Nat /\ k * NWds < m + NWds BY <2>2, <2>3, DriveAssumption
  <2>11. s.d.blkadr + k <= TotSecs BY <2>2, <2>3, <2>10, OnPack DEF Fits, Space
  <2>12. Away(t)
    <3>1. /\ t.x.scnt = k /\ t.x.daddr = s.d.blkadr /\ t.d.direct = direct /\ t.c = s.c
          /\ t.d.blkadr = s.d.blkadr /\ t.d.scmd = "RED"
          /\ t.d.blkwds = s.d.blkwds /\ t.d.blklim = s.d.blklim
      BY <2>6, <2>9 DEF Handed, DFields
    <3>2. Space(t.d) /\ Fits(t.d) BY <3>1 DEF Space, Fits
    <3>3. direct => k * NWds <= s.c.wcnt
      <4>1. s.c.wcnt \in Nat BY DEF Parts, Ctl
      <4> QED BY <2>2, <2>3, <2>10, <4>1
    <3>4. k * NWds <= s.d.blklim BY <2>2, <2>3, <2>10 DEF Space
    <3>5. "RED" # "WRT" OBVIOUS
    <3> QED BY <2>3, <2>4, <2>11, <3>1, <3>2, <3>3, <3>4, <3>5 DEF Away
  <2>13. Kept(s, t) /\ SameCtl(s.c, t.c) BY <2>6, <2>9 DEF Handed, Kept, SameCtl, SameRegs, DFields
  <2>14. Gone(s, t) BY <2>6, <2>8, <2>9, <2>12, <2>13 DEF Gone, Handed, DFields
  <2>15. t.d.blkadr = s.d.blkadr /\ t.d.scmd = "RED" /\ t.h.taken = s.h.taken
    BY <2>6, <2>9 DEF Handed, DFields
  <2>16. Continues(t, s.h.taken) BY <2>15 DEF Continues
  <2>17. r = GoesOn(t) /\ r.ok BY <2>1, <2>9 DEF GoesOn
  <2>18. Attempt(s, s.d.blkadr, s.h.taken, r) BY <2>14, <2>15, <2>16, <2>17 DEF Outcome, Attempt
  <2> QED BY <2>18 DEF r
<1> QED BY <1>2, <1>3

\* The words of a read that are disposed of.
LEMMA ReceivedFact ==
    ASSUME NEW s, Parts(s), NEW n \in 0..Len(s.x.buf)
    PROVE  /\ Received(s, n) \in Seq(Int \X Int) /\ Len(Received(s, n)) = n
           /\ \A i \in 1..n : Received(s, n)[i] = <<s.x.buf[i], s.h.taken + i>>
<1> DEFINE a == SubSeq(s.x.buf, 1, n)
           w == Words(s.h.taken + 1, n)
<1>1. a \in Seq(Int) /\ Len(a) = n /\ \A i \in 1..n : a[i] = s.x.buf[i]
  <2>1. s.x.buf \in Seq(Int) BY DEF Parts
  <2> DEFINE buf == s.x.buf
  <2> HIDE DEF buf
  <2>2. buf \in Seq(Int) /\ n \in 0..Len(buf) BY <2>1 DEF buf
  <2>3. SubSeq(buf, 1, n) \in Seq(Int) /\ Len(SubSeq(buf, 1, n)) = n
        /\ \A i \in 1..n : SubSeq(buf, 1, n)[i] = buf[i]
    BY <2>2
  <2> QED BY <2>3 DEF buf
<1>2. w \in Seq(Int) /\ Len(w) = n /\ \A i \in 1..n : w[i] = s.h.taken + i
  <2>1. s.h.taken \in Int /\ s.h.taken + 1 \in Int /\ n \in Nat BY DEF Parts
  <2>2. w \in Seq(Int) /\ Len(w) = n /\ \A i \in 1..n : w[i] = s.h.taken + 1 + i - 1
    BY <2>1, WordsFact
  <2> HIDE DEF w
  <2> QED BY <2>1, <2>2
<1>3. Received(s, n) = Zip(a, w) BY DEF Received
<1> HIDE DEF a, w
<1>4. Zip(a, w) = [i \in 1..n |-> <<a[i], w[i]>>] BY <1>1, <1>2 DEF Zip
<1>5. \A i \in 1..n : a[i] \in Int /\ w[i] \in Int BY <1>1, <1>2
<1> DEFINE g == [i \in 1..n |-> <<a[i], w[i]>>]
<1>6. n \in Nat OBVIOUS
<1>7. g \in [1..n -> Int \X Int] BY <1>5
<1>8. \A i \in 1..n : g[i] = <<s.x.buf[i], s.h.taken + i>> BY <1>1, <1>2
<1> HIDE DEF g
<1>9. g \in Seq(Int \X Int) /\ Len(g) = n BY <1>6, <1>7
<1>10. Received(s, n) = g BY <1>3, <1>4 DEF g
<1> QED BY <1>8, <1>9, <1>10

\* n words of a piece that has been read have been taken by the channel.
Took(s, v, n) ==
    /\ Parts(v) /\ SameCtl(s.c, v.c) /\ v.armed = s.armed /\ v.x = s.x
    /\ v.h.panic = s.h.panic /\ v.h.from = s.h.from /\ v.h.moved = s.h.moved \o Received(s, n)
    /\ v.h.taken = s.h.taken + n
    /\ \A f \in DFields \ {"blkwds", "blklim"} : v.d[f] = s.d[f]
    /\ v.d.blkwds \in Nat

\* The whole piece has been, unless the transfer must end; the words are counted, unless it must
\* end with an error.
Disposed(s, f, v, n) ==
    /\ Took(s, v, n) /\ n \in 0..(s.x.scnt * NWds)
    /\ f.s = v /\ f.n \in Int /\ f.n <= v.c.wcnt /\ f.reverse \in BOOLEAN
    /\ ~f.reverse => v.d.blkwds = s.d.blkwds - n /\ v.d.blklim = s.d.blklim - n
    /\ ~f.reverse /\ f.n # 0 => n = s.x.scnt * NWds

\* A direct piece of a read is disposed of.
LEMMA FlushDirectFact ==
    ASSUME NEW s, Parts(s), NEW n \in Nat, n <= s.c.wcnt, n = s.x.scnt * NWds, n = Len(s.x.buf),
           s.d.blkwds \in Nat, n <= s.d.blkwds
    PROVE  \E v : Disposed(s, FlushDirect(s, n), v, n)
<1> DEFINE s1 == [s EXCEPT !.h.moved = @ \o Received(s, n)]
           v == DirectDone(s1, n)
           b == Iobuf(s.c, n)
           f == FlushDirect(s, n)
<1>1. f = [n |-> b.n, reverse |-> FALSE, s |-> v] BY DEF FlushDirect
<1>2. Received(s, n) \in Seq(Int \X Int)
  <2>1. n \in 0..Len(s.x.buf) OBVIOUS
  <2> QED BY <2>1, ReceivedFact
<1>3. /\ DOMAIN s1 = {"c", "d", "armed", "x", "h"} /\ DOMAIN s1.h = HFields
      /\ s1.c = s.c /\ s1.armed = s.armed /\ s1.x = s.x /\ s1.d = s.d
      /\ s1.h.panic = s.h.panic /\ s1.h.from = s.h.from /\ s1.h.taken = s.h.taken
      /\ s1.h.moved = s.h.moved \o Received(s, n)
  BY DEF Parts, HFields
<1> HIDE DEF s1
<1>4. Parts(s1)
  <2>1. s1.h.moved \in Seq(Int \X Int)
    <3>1. s.h.moved \in Seq(Int \X Int) BY DEF Parts
    <3> QED BY <1>2, <1>3, <3>1
  <2> QED BY <1>3, <2>1 DEF Parts
<1>5. Counted(s1, v, n) /\ v.c = Iobuf(s1.c, n).c
  <2>1. n <= s1.c.wcnt BY <1>3
  <2> QED BY <1>4, <2>1, DirectDoneFact
<1> HIDE DEF v
<1>6. Took(s, v, n)
  <2>1. v.d.blkwds \in Nat BY <1>3, <1>5 DEF Counted
  <2> QED BY <1>3, <1>5, <2>1 DEF Took, Counted
<1>7. Ctl(s.c) BY DEF Parts
<1>8. Offer(b)
  <2>1. n \in Int /\ (s.c.wcnt # 0 => n <= s.c.wcnt) OBVIOUS
  <2> QED BY <1>7, <2>1, IobufFact
<1>9. v.c = b.c BY <1>3, <1>5
<1> HIDE DEF b, f
<1>10. v.d.blkwds = s.d.blkwds - n /\ v.d.blklim = s.d.blklim - n BY <1>3, <1>5 DEF Counted
<1>11. n \in 0..(s.x.scnt * NWds) OBVIOUS
<1>12. b.n \in Int /\ b.n <= v.c.wcnt BY <1>8, <1>9 DEF Offer
<1>13. f.s = v /\ f.n = b.n /\ f.reverse = FALSE BY <1>1
<1>14. Disposed(s, f, v, n) BY <1>6, <1>10, <1>11, <1>12, <1>13 DEF Disposed
<1> QED BY <1>14 DEF f

\* An indirect piece of a read is disposed of, as far as the channel takes it.
LEMMA FlushFact ==
    ASSUME NEW s, Parts(s), NEW all \in Nat, all = s.x.scnt * NWds, all = Len(s.x.buf),
           s.d.blkwds \in Nat, all <= s.d.blkwds, s.d.blklim \in Int
    PROVE  \E v, n : Disposed(s, Flush(s), v, n)
<1> DEFINE b == Iobuf(s.c, 0)
           m == b.n
           l == CopyLoop(s.c, m, all)
           n == all - l.room
           back == l.n < 0 /\ l.room > 0
           v == [s EXCEPT !.c = l.c, !.h.taken = @ + n, !.h.moved = @ \o Received(s, n),
                          !.d.blkwds = IF back THEN @ ELSE @ - n,
                          !.d.blklim = IF back THEN @ ELSE @ - n]
           f == Flush(s)
<1>1. f = [n |-> l.n, reverse |-> back, s |-> v] BY DEF Flush
<1>2. Ctl(s.c) BY DEF Parts
<1>3. m \in Int /\ m <= s.c.wcnt /\ (m = 0 => s.c.wcnt = 0)
  <2>1. Offer(b) /\ b.c.wcnt = s.c.wcnt
    <3>1. 0 \in Int /\ (s.c.wcnt # 0 => 0 <= s.c.wcnt) BY <1>2 DEF Ctl
    <3> QED BY <1>2, <3>1, IobufFact
  <2> QED BY <2>1 DEF Offer
<1> HIDE DEF m
<1>4. /\ Ctl(l.c) /\ SameCtl(s.c, l.c) /\ Offer(l)
      /\ l.room \in 0..all /\ (l.n <= 0 \/ l.room = 0)
      /\ m <= 0 => l.room = all
  BY <1>2, <1>3, CopyLoopFact
<1> HIDE DEF l
<1>5. n \in 0..all BY <1>4
<1>6. Received(s, n) \in Seq(Int \X Int) BY <1>5, ReceivedFact
<1>7. back \in BOOLEAN /\ (~back /\ l.n # 0 => n = all) BY <1>4 DEF Offer
<1> HIDE DEF n, back
<1>8. /\ DOMAIN v = {"c", "d", "armed", "x", "h"} /\ DOMAIN v.h = HFields /\ DOMAIN v.d = DFields
      /\ v.c = l.c /\ v.armed = s.armed /\ v.x = s.x
      /\ v.h.panic = s.h.panic /\ v.h.from = s.h.from /\ v.h.taken = s.h.taken + n
      /\ v.h.moved = s.h.moved \o Received(s, n)
      /\ \A g \in DFields \ {"blkwds", "blklim"} : v.d[g] = s.d[g]
      /\ ~back => v.d.blkwds = s.d.blkwds - n /\ v.d.blklim = s.d.blklim - n
      /\ back => v.d.blkwds = s.d.blkwds
  BY DEF Parts, HFields, DFields
<1> HIDE DEF v
<1>9. Parts(v)
  <2>1. v.h.moved \in Seq(Int \X Int)
    <3>1. s.h.moved \in Seq(Int \X Int) BY DEF Parts
    <3> QED BY <1>6, <1>8, <3>1
  <2>2. v.h.taken \in Int
    <3>1. s.h.taken \in Int BY DEF Parts
    <3> QED BY <1>5, <1>8, <3>1
  <2>3. l.c.attn = s.c.attn BY <1>4 DEF SameCtl
  <2> QED BY <1>4, <1>8, <2>1, <2>2, <2>3 DEF Parts, DFields
<1>10. Took(s, v, n)
  <2>1. v.d.blkwds \in Nat BY <1>5, <1>8
  <2> QED BY <1>4, <1>8, <1>9, <2>1 DEF Took
<1> HIDE DEF f
<1>11. f.s = v /\ f.n = l.n /\ f.reverse = back BY <1>1
<1>12. f.n \in Int /\ f.n <= v.c.wcnt BY <1>4, <1>8, <1>11 DEF Offer
<1>13. Disposed(s, f, v, n) BY <1>5, <1>7, <1>8, <1>10, <1>11, <1>12 DEF Disposed
<1> QED BY <1>13 DEF f

\* rp_rdflsbuf when a transfer begins, and when a piece has been read.
LEMMA RdBeginFact ==
    ASSUME NEW s, Parts(s), s.d.st = "READY", s.d.scmd = "RED", s.d.begun = FALSE, Space(s.d),
           Fits(s.d), s.d.blkwds # 0, s.d.dma \in BOOLEAN
    PROVE  Attempt(s, s.d.blkadr, s.h.taken, Rdflsbuf(s))
<1> DEFINE k == [s EXCEPT !.d.begun = TRUE]
           b == Iobuf(s.c, 0)
           n == b.n
<1>1. Rdflsbuf(s) = RdNext(k, n) BY DEF Rdflsbuf
<1>2. /\ DOMAIN k = {"c", "d", "armed", "x", "h"} /\ DOMAIN k.d = DFields
      /\ k.c = s.c /\ k.armed = s.armed /\ k.x = s.x /\ k.h = s.h
      /\ \A f \in DFields \ {"begun"} : k.d[f] = s.d[f]
      /\ k.d.begun = TRUE
  BY DEF Parts, DFields
<1> HIDE DEF k
<1>3. Parts(k) BY <1>2 DEF Parts, DFields
<1>4. /\ k.d.st = "READY" /\ k.d.scmd = "RED" /\ k.d.blkadr = s.d.blkadr
      /\ k.d.dma \in BOOLEAN
  BY <1>2 DEF DFields
<1>5. Space(k.d) /\ Fits(k.d) /\ k.d.blkwds # 0 BY <1>2 DEF Space, Fits, DFields
<1>6. n \in Int /\ n <= k.c.wcnt
  <2>1. Ctl(s.c) BY DEF Parts
  <2>2. 0 \in Int /\ (s.c.wcnt # 0 => 0 <= s.c.wcnt) BY <2>1 DEF Ctl
  <2>3. Offer(b) /\ b.c.wcnt = s.c.wcnt BY <2>1, <2>2, IobufFact
  <2> QED BY <1>2, <2>3 DEF Offer
<1> HIDE DEF n
<1>7. Attempt(k, k.d.blkadr, k.h.taken, RdNext(k, n))
  BY <1>2, <1>3, <1>4, <1>5, <1>6, RdNextFact
<1>8. On(s, k) BY <1>2, <1>3 DEF On, Kept, SameCtl, SameRegs, DFields
<1> DEFINE r == RdNext(k, n)
           adr == s.d.blkadr
           base == s.h.taken
<1>9. Attempt(k, adr, base, r) BY <1>2, <1>4, <1>7
<1>10. Rdflsbuf(s) = r BY <1>1
<1> HIDE DEF r, adr, base
<1>11. Attempt(s, adr, base, r) BY <1>8, <1>9, OnFact DEF Attempt
<1> QED BY <1>10, <1>11 DEF adr, base

\* A piece of a read is done: its words are taken in order, all of them if the transfer goes on,
\* and the next piece starts where it ended; the transfer ends with an error, or they are counted
\* and the piece had none.
LEMMA RdFurtherFact ==
    ASSUME NEW s, Parts(s), s.d.st = "READY", s.d.scmd = "RED", s.d.begun = TRUE, Away(s),
           s.h.panic = FALSE, s.d.dma \in BOOLEAN, Len(s.x.buf) = s.x.scnt * NWds
    PROVE  \E v, n : /\ Took(s, v, n) /\ n \in 0..(s.x.scnt * NWds)
                     /\ Outcome(v, s.d.blkadr + s.x.scnt, v.h.taken, Rdflsbuf(s))
                     /\ Rdflsbuf(s).ok => n = s.x.scnt * NWds
                     /\ \/ ~Rdflsbuf(s).ok /\ Failed(Rdflsbuf(s).s.c)
                        \/ v.d.blkwds = s.d.blkwds - n /\ ~s.x.err
                     /\ \/ Rdflsbuf(s).ok \/ Failed(Rdflsbuf(s).s.c)
                        \/ Rdflsbuf(s).s.h.taken = v.h.taken
<1> DEFINE all == s.x.scnt * NWds
           f == IF s.d.direct THEN FlushDirect(s, all) ELSE Flush(s)
           adr == s.d.blkadr + s.x.scnt
           r == Rdflsbuf(s)
<1>1. adr \in 0..TotSecs BY DriveAssumption DEF Away, Space
<1>2. all \in Nat
  <2>1. s.x.scnt \in Nat BY DEF Away
  <2> QED BY <2>1, DriveAssumption
<1>3. \E v, n : Disposed(s, f, v, n)
  <2>1. CASE s.d.direct
    <3>1. f = FlushDirect(s, all) BY <2>1
    <3>2. all <= s.c.wcnt /\ s.d.blkwds \in Nat /\ all <= s.d.blkwds BY <1>2, <2>1 DEF Away, Space
    <3>3. all = s.x.scnt * NWds /\ all = Len(s.x.buf) OBVIOUS
    <3> HIDE DEF all, f
    <3>4. \E v : Disposed(s, FlushDirect(s, all), v, all) BY <1>2, <3>2, <3>3, FlushDirectFact
    <3> QED BY <3>1, <3>4
  <2>2. CASE ~s.d.direct
    <3>1. f = Flush(s) BY <2>2
    <3>2. s.d.blkwds \in Nat /\ s.d.blklim \in Int /\ all <= s.d.blkwds BY <1>2 DEF Away, Space
    <3>3. all = s.x.scnt * NWds /\ all = Len(s.x.buf) OBVIOUS
    <3> HIDE DEF all, f
    <3>4. \E v, n : Disposed(s, Flush(s), v, n) BY <1>2, <3>2, <3>3, FlushFact
    <3> QED BY <3>1, <3>4
  <2> QED BY <2>1, <2>2
<1> HIDE DEF f
<1>4. PICK v, n : Disposed(s, f, v, n) BY <1>3
<1> DEFINE w == Updxfr(v)
<1>5. /\ Took(s, v, n) /\ n \in 0..all /\ f.s = v /\ f.n \in Int /\ f.n <= v.c.wcnt
      /\ f.reverse \in BOOLEAN
      /\ ~f.reverse => v.d.blkwds = s.d.blkwds - n /\ v.d.blklim = s.d.blklim - n
      /\ ~f.reverse /\ f.n # 0 => n = all
  BY <1>4 DEF Disposed
<1>6. r = IF v.h.panic THEN Fails(v)
          ELSE IF ~w.ok THEN w
          ELSE IF f.reverse THEN Fails([w.s EXCEPT !.c = Ioend(@, 1)])
          ELSE IF f.n = 0 \/ w.s.d.blkwds = 0 THEN Fails(RpIoend(w.s))
          ELSE RdNext(w.s, f.n)
  <2> DEFINE Flushed(g) == IF g.s.h.panic THEN Fails(g.s)
                           ELSE LET u == Updxfr(g.s)
                                IN  IF ~u.ok THEN u
                                    ELSE IF g.reverse THEN Fails([u.s EXCEPT !.c = Ioend(@, 1)])
                                    ELSE IF g.n = 0 \/ u.s.d.blkwds = 0 THEN Fails(RpIoend(u.s))
                                    ELSE RdNext(u.s, g.n)
  <2>1. r = Flushed(f) BY DEF Rdflsbuf, f
  <2> HIDE DEF r
  <2> QED BY <2>1, <1>5
<1> HIDE DEF r
<1>7. /\ v.h.panic = FALSE /\ Parts(v) /\ v.d.blkadr + v.x.scnt = adr /\ v.d.blkwds \in Nat
      /\ v.x = s.x
  BY <1>5 DEF Took, DFields
<1>8. \/ \E t : w = Fails(t) /\ Ended(v, t) /\ Failed(t.c)
      \/ \E t : w = GoesOn(t) /\ Moved(v, t) /\ ~v.x.err
  BY <1>1, <1>7, UpdxfrFact
<1> HIDE DEF w
<1> DEFINE base == v.h.taken
           Right == /\ Outcome(v, adr, base, r) /\ (r.ok => n = all)
                    /\ \/ ~r.ok /\ Failed(r.s.c)
                       \/ v.d.blkwds = s.d.blkwds - n /\ ~s.x.err
                    /\ r.ok \/ Failed(r.s.c) \/ r.s.h.taken = base
<1> HIDE DEF base
<1>9. Right
  <2>1. ASSUME NEW t, w = Fails(t), Ended(v, t), Failed(t.c) PROVE Right
    <3>1. r = Fails(t) BY <1>6, <1>7, <2>1 DEF Fails
    <3> HIDE DEF adr
    <3> QED BY <2>1, <3>1 DEF Outcome, Fails
  <2>2. ASSUME NEW t, w = GoesOn(t), Moved(v, t), ~v.x.err PROVE Right
    <3>1. r = IF f.reverse THEN Fails([t EXCEPT !.c = Ioend(@, 1)])
              ELSE IF f.n = 0 \/ t.d.blkwds = 0 THEN Fails(RpIoend(t))
              ELSE RdNext(t, f.n)
      BY <1>6, <1>7, <2>2 DEF GoesOn
    <3>2. Parts(t) /\ t.c = v.c BY <2>2 DEF Moved
    <3>3. On(v, t)
      <4>1. /\ t.armed = v.armed /\ t.x = v.x /\ t.h = v.h
            /\ \A g \in DFields \ {"blkadr", "adr"} : t.d[g] = v.d[g]
            /\ t.d.adr = adr
        BY <1>7, <2>2 DEF Moved
      <4>2. Kept(v, t) BY <1>1, <3>2, <4>1 DEF Kept, SameRegs, DFields
      <4> QED BY <3>2, <4>1, <4>2 DEF On, SameCtl, SameRegs, DFields
    <3>7. /\ t.d.blkwds = v.d.blkwds /\ t.d.blkwds \in Nat /\ ~s.x.err /\ t.h.taken = base
      BY <1>7, <2>2 DEF Moved, DFields, base
    <3> HIDE DEF adr
    <3>4. CASE f.reverse
      <4> DEFINE e == Ioend(t.c, 1)
                 k == [t EXCEPT !.c = e]
      <4>1. Ctl(t.c) BY <3>2 DEF Parts
      <4>2. /\ Ctl(e) /\ SameRegs(t.c, e) /\ Asks(e) /\ "PCRF" \notin e.cond /\ "CMD" \in e.cond
            /\ \A g \in CFields \ {"req", "cond"} : e[g] = t.c[g]
            /\ Failed(e)
        <5>1. 1 # 0 OBVIOUS
        <5> QED BY <4>1, <5>1, IoendFact
      <4>3. r = Fails(k) BY <3>1, <3>4
      <4> HIDE DEF e
      <4>4. Ended(t, k) /\ k.c = e
        <5>1. Ended(t, k) BY <3>2, <4>2, TellFact
        <5>2. k.c = e BY <3>2 DEF Parts
        <5> QED BY <5>1, <5>2
      <4> HIDE DEF k
      <4>5. Outcome(t, adr, base, r) BY <4>3, <4>4 DEF Outcome
      <4>6. ~r.ok /\ Failed(r.s.c) BY <4>2, <4>3, <4>4 DEF Fails
      <4>7. Outcome(v, adr, base, r) BY <3>3, <4>5, OnFact
      <4> QED BY <4>6, <4>7
    <3>5. CASE ~f.reverse /\ (f.n = 0 \/ t.d.blkwds = 0)
      <4>1. r = Fails(RpIoend(t)) BY <3>1, <3>5
      <4>2. Ended(t, RpIoend(t)) BY <3>2, <3>7, RpIoendFact
      <4>3. Outcome(t, adr, base, r) BY <4>1, <4>2 DEF Outcome
      <4>4. ~r.ok BY <4>1 DEF Fails
      <4>5. Outcome(v, adr, base, r) BY <3>3, <4>3, OnFact
      <4>6. v.d.blkwds = s.d.blkwds - n BY <1>5, <3>5
      <4>7. Failed(r.s.c) \/ r.s.h.taken = base
        <5>1. t.h.taken \in Int /\ t.h.taken + 0 = t.h.taken BY <3>2 DEF Parts
        <5>2. Failed(RpIoend(t).c) \/ t.d.blkwds = 0 BY <3>2, <3>7, RpIoendFact
        <5> QED BY <3>7, <4>1, <4>2, <5>1, <5>2 DEF Fails, Ended
      <4> QED BY <3>7, <4>4, <4>5, <4>6, <4>7
    <3>6. CASE ~f.reverse /\ f.n # 0 /\ t.d.blkwds # 0
      <4>1. r = RdNext(t, f.n) BY <3>1, <3>6
      <4>2. n = all /\ v.d.blkwds = s.d.blkwds - n /\ v.d.blklim = s.d.blklim - n
        BY <1>5, <3>6
      <4>3. /\ t.d.blkwds = s.d.blkwds - all /\ t.d.blklim = s.d.blklim - all
            /\ t.d.blkadr = adr
            /\ t.d.begun = TRUE /\ t.d.st = "READY" /\ t.d.scmd = "RED" /\ t.d.dma \in BOOLEAN
        <5> HIDE DEF all
        <5> QED BY <1>5, <1>7, <2>2, <4>2 DEF Moved, Took, DFields
      <4>4. all <= s.d.blklim /\ Fits(s.d) BY DEF Away
      <4>5. Space(t.d)
        <5>1. s.d.blkwds \in Nat /\ s.d.blklim \in Nat /\ s.d.blklim <= s.d.blkwds
          BY DEF Away, Space
        <5> HIDE DEF all
        <5>2. t.d.blkwds \in Nat /\ t.d.blklim \in Nat /\ t.d.blklim <= t.d.blkwds
          BY <1>2, <4>3, <4>4, <5>1
        <5> QED BY <1>1, <4>3, <5>2 DEF Space
      <4>6. Fits(t.d)
        <5>1. adr * NWds = s.d.blkadr * NWds + s.x.scnt * NWds
          <6>1. s.d.blkadr \in Int /\ s.x.scnt \in Int BY DriveAssumption DEF Away, Space
          <6> QED BY <6>1, Distr DEF adr
        <5>2. s.d.blkadr * NWds \in Int /\ TotSecs * NWds \in Int /\ s.d.blklim \in Int
          BY DriveAssumption DEF Away, Space
        <5> QED BY <5>1, <5>2, <4>3, <4>4, <1>2 DEF Fits
      <4>7. f.n \in Int /\ f.n <= t.c.wcnt BY <1>5, <3>2
      <4>8. Attempt(t, t.d.blkadr, t.h.taken, RdNext(t, f.n))
        BY <3>2, <3>6, <4>3, <4>5, <4>6, <4>7, RdNextFact
      <4>9. Outcome(t, adr, base, r) BY <3>7, <4>1, <4>3, <4>8 DEF Attempt
      <4>10. Outcome(v, adr, base, r) BY <3>3, <4>9, OnFact
      <4>11. r.ok \/ Failed(r.s.c) BY <4>1, <4>8 DEF Attempt
      <4> QED BY <3>7, <4>2, <4>10, <4>11
    <3> QED BY <3>4, <3>5, <3>6
  <2> QED BY <1>8, <2>1, <2>2
<1>10. Took(s, v, n) /\ n \in 0..all BY <1>5
<1> HIDE DEF adr, all
<1> QED BY <1>9, <1>10 DEF r, base, adr, all

-----------------------------------------------------------------------------
(* Transfers as a whole                                                    *)

\* What the subprocess is told for a command of the drive's.
Kind(scmd) ==
    CASE scmd = "WRT" -> {"WRITE", "WRDMA"}
      [] scmd = "RED" -> {"READ", "RDDMA"}
      [] OTHER -> {"MOUNT"}

\* A transfer has begun: its first piece is with the subprocess, and nothing has been reported.
Begins(s, cmd, t) ==
    /\ Kept(s, t) /\ (Asks(s.c) => Asks(t.c)) /\ t.c.cond = s.c.cond
    /\ t.h.taken + t.d.blkwds = s.h.taken + s.c.bcnt * NWds /\ Continues(t, s.h.taken)
    /\ t.d.st = "BUSY" /\ t.d.scmd = cmd /\ t.d.begun = TRUE /\ t.d.blkadr = s.d.adr
    /\ t.x.cmd \in Kind(cmd) /\ Away(t)
    /\ cmd = "WRT" => Len(t.x.buf) = t.x.scnt * NWds

\* A transfer has ended, with an error, before anything was moved.
Stopped(s, t) ==
    /\ Kept(s, t) /\ Asks(t.c) /\ "PCRF" \notin t.c.cond /\ "CMD" \in t.c.cond
    /\ Failed(t.c)
    /\ t.x = s.x /\ t.d.st = s.d.st /\ t.d.scmd \in {s.d.scmd} \cup Xfers

\* What may come of an attempt to begin.
Start(s, cmd, r) ==
    \/ \E t : r = GoesOn(t) /\ Begins(s, cmd, t)
    \/ \E t : r = Fails(t) /\ Stopped(s, t)

\* rp_ioxfr sends a first piece, at the sector asked for, or ends the transfer at once.
LEMMA IoxfrFact ==
    ASSUME NEW s, Parts(s), s.d.st = "READY", s.c.bcnt \in Nat \ {0}, s.d.dma \in BOOLEAN,
           NEW write \in BOOLEAN
    PROVE  Start(s, IF write THEN "WRT" ELSE "RED", Ioxfr(s, write))
<1> DEFINE b == Iobeg(s.c, write)
           cmd == IF write THEN "WRT" ELSE "RED"
           u == [s EXCEPT !.c = b.c]
           set == [u EXCEPT !.d.blkadr = u.d.adr, !.d.blkwds = b.bc * NWds,
                            !.d.blklim = Least(b.bc, TotSecs - u.d.adr) * NWds,
                            !.d.begun = FALSE, !.d.direct = FALSE, !.d.scmd = cmd]
           r == Ioxfr(s, write)
<1>1. r = IF b.bc = 0 THEN Fails([u EXCEPT !.c = Ioend(@, 0)])
          ELSE IF u.d.adr >= TotSecs THEN Fails(RpAttn([Serr(u) EXCEPT !.c = Drerr(@)]))
          ELSE IF write THEN Wrfilbuf(set) ELSE Rdflsbuf(set)
  BY DEF Ioxfr, IoxfrAsked
<1>2. /\ Called(s.c, b.c) /\ b.c.attn = s.c.attn
      /\ "PCRF" \in b.c.cond <=> "PCRF" \in s.c.cond
      /\ b.bc = s.c.bcnt \/ (b.bc = 0 /\ Failed(b.c))
      /\ b.bc # 0 => b.c.cond = s.c.cond
  BY IobegFact DEF Parts
<1> HIDE DEF b, r
<1>3. /\ DOMAIN u = {"c", "d", "armed", "x", "h"} /\ u.c = b.c
      /\ u.armed = s.armed /\ u.x = s.x /\ u.h = s.h /\ u.d = s.d
  BY DEF Parts
<1> HIDE DEF u
<1>4. Parts(u) BY <1>2, <1>3 DEF Parts, Called
<1>5. SameRegs(s.c, u.c) BY <1>2, <1>3 DEF Called
<1>6. ASSUME NEW t, Ended(u, t), Failed(t.c) PROVE Stopped(s, t)
  BY <1>3, <1>5, <1>6 DEF Ended, Stopped, Kept, SameRegs
<1>7. CASE b.bc = 0
  <2> DEFINE e == Ioend(u.c, 0)
             k == [u EXCEPT !.c = e]
  <2>1. /\ Ctl(e) /\ SameRegs(u.c, e) /\ Asks(e) /\ "PCRF" \notin e.cond /\ "CMD" \in e.cond
        /\ \A f \in CFields \ {"req", "cond"} : e[f] = u.c[f]
        /\ Failed(e)
    <3>1. Failed(u.c) BY <1>2, <1>3, <1>7
    <3> QED BY <1>4, <3>1, IoendFact DEF Parts
  <2>2. r = Fails(k) BY <1>1, <1>7
  <2> HIDE DEF e
  <2>3. Ended(u, k) /\ Failed(k.c)
    <3>1. Ended(u, k) BY <1>4, <2>1, TellFact
    <3>2. k.c = e BY <1>4 DEF Parts
    <3> QED BY <2>1, <3>1, <3>2
  <2> HIDE DEF k
  <2> QED BY <1>6, <2>2, <2>3 DEF Start, r
<1>8. CASE b.bc # 0 /\ u.d.adr >= TotSecs
  <2> DEFINE v == Serr(u)
             e == Drerr(v.c)
             k == [v EXCEPT !.c = e]
             t == RpAttn(k)
  <2>1. r = Fails(t) BY <1>1, <1>8
  <2>2. /\ DOMAIN v = {"c", "d", "armed", "x", "h"} /\ DOMAIN v.d = DFields /\ v.c = u.c
        /\ v.armed = u.armed /\ v.x = u.x /\ v.h = u.h /\ v.d.serr = TRUE
        /\ \A f \in DFields \ {"serr"} : v.d[f] = u.d[f]
    BY <1>4 DEF Parts, Serr, DFields
  <2> HIDE DEF v
  <2>3. Parts(v) BY ZenonT(40), <1>4, <2>2 DEF Parts, DFields
  <2>4. /\ Ctl(e) /\ SameRegs(v.c, e) /\ Asks(e) /\ "PCRF" \notin e.cond /\ "CMD" \in e.cond
        /\ \A f \in CFields \ {"req", "cond"} : e[f] = v.c[f]
        /\ Failed(e)
    BY <2>3, DrerrFact DEF Parts
  <2> HIDE DEF e
  <2>5. Parts(k) /\ Ended(v, k) /\ Failed(k.c)
    <3>1. Parts(k) /\ Ended(v, k) BY <2>3, <2>4, TellFact
    <3>2. k.c = e BY <2>3 DEF Parts
    <3> QED BY <2>4, <3>1, <3>2
  <2> HIDE DEF k
  <2>6. /\ Parts(t) /\ Called(k.c, t.c) /\ t.c.cond \ {"MBA"} = k.c.cond \ {"MBA"}
        /\ t.armed = k.armed /\ t.x = k.x /\ t.h = k.h
        /\ \A f \in DFields \ {"atn"} : t.d[f] = k.d[f]
    BY <2>5, AttnState
  <2> HIDE DEF t
  <2>7. "PCRF" \notin t.c.cond /\ "CMD" \in t.c.cond BY <2>5, <2>6 DEF Ended
  <2>10. Failed(t.c) BY <2>5, <2>6 DEF Failed, Errors
  <2>8. Ended(v, t) BY <2>5, <2>6, <2>7, <2>10 DEF Ended, Kept, Called, SameRegs, DFields
  <2>9. Ended(u, t) BY <2>2, <2>8 DEF Ended, Kept, SameRegs, DFields
  <2> QED BY <1>6, <2>1, <2>9, <2>10 DEF Start, r
<1>9. CASE b.bc # 0 /\ ~(u.d.adr >= TotSecs)
  <2> DEFINE adr == s.d.adr
             n == b.bc
             lim == Least(n, TotSecs - adr)
  <2>1. /\ DOMAIN set = {"c", "d", "armed", "x", "h"} /\ DOMAIN set.d = DFields
        /\ set.c = u.c /\ set.armed = s.armed /\ set.x = s.x /\ set.h = s.h
        /\ \A f \in DFields \ {"blkadr", "blkwds", "blklim", "begun", "direct", "scmd"} :
              set.d[f] = s.d[f]
        /\ set.d.blkadr = adr /\ set.d.blkwds = n * NWds
        /\ set.d.blklim = lim * NWds
        /\ set.d.begun = FALSE /\ set.d.direct = FALSE /\ set.d.scmd = cmd
    <3> HIDE DEF lim, n, cmd
    <3> DEFINE lm == Least(b.bc, TotSecs - u.d.adr) * NWds
               wd == b.bc * NWds
               ua == u.d.adr
    <3>1. lm = lim * NWds /\ wd = n * NWds /\ ua = adr BY <1>3 DEF lim, n
    <3>2. set = [u EXCEPT !.d.blkadr = ua, !.d.blkwds = wd, !.d.blklim = lm,
                            !.d.begun = FALSE, !.d.direct = FALSE, !.d.scmd = cmd]
      BY DEF set
    <3> HIDE DEF lm, wd, ua, set
    <3> QED BY ZenonT(40), <1>3, <1>4, <3>1, <3>2 DEF Parts, DFields
  <2>2. adr \in Nat /\ adr < TotSecs /\ n \in Nat \ {0} BY <1>2, <1>3, <1>9, DriveAssumption DEF Parts
  <2>3. lim \in Nat /\ lim <= n /\ lim <= TotSecs - adr BY <2>2, DriveAssumption DEF Least
  <2> HIDE DEF set, lim, n
  <2>4. Parts(set) BY <1>4, <1>3, <2>1 DEF Parts, DFields
  <2>5. Space(set.d) /\ Whole(set.d) /\ set.d.blkwds # 0
    <3>1. n * NWds \in Nat /\ lim * NWds \in Nat /\ lim * NWds <= n * NWds BY <2>2, <2>3, Prod, DriveAssumption
    <3>2. n * NWds > 0 BY <2>2, Prod, DriveAssumption
    <3>3. Whole(set.d) BY <2>1, <2>3 DEF Whole
    <3>4. set.d.blkwds # 0 BY <2>1, <3>1, <3>2
    <3> QED BY <2>1, <2>2, <3>1, <3>3, <3>4, DriveAssumption DEF Space
  <2>6. Fits(set.d)
    <3>1. (adr + lim) * NWds = adr * NWds + lim * NWds
      <4>1. adr \in Int /\ lim \in Int BY <2>2, <2>3
      <4> HIDE DEF adr
      <4> QED BY <4>1, Distr
    <3>2. adr + lim \in Nat /\ adr + lim <= TotSecs /\ TotSecs \in Nat BY <2>2, <2>3, DriveAssumption
    <3>3. (adr + lim) * NWds <= TotSecs * NWds BY <3>2, Prod
    <3> QED BY <2>1, <3>1, <3>3 DEF Fits
  <2>7. set.d.st = "READY" /\ set.d.dma \in BOOLEAN BY <2>1 DEF DFields
  <2>8. Attempt(set, set.d.blkadr, set.h.taken, r)
    <3>1. CASE write
      <4>1. r = Wrfilbuf(set) /\ set.d.scmd = "WRT" BY <1>1, <1>9, <2>1, <3>1
      <4> QED BY <2>1, <2>4, <2>5, <2>6, <2>7, <4>1, WrBeginFact
    <3>2. CASE ~write
      <4>1. r = Rdflsbuf(set) /\ set.d.scmd = "RED" BY <1>1, <1>9, <2>1, <3>2
      <4> QED BY <2>1, <2>4, <2>5, <2>6, <2>7, <4>1, RdBeginFact
    <3> QED BY <3>1, <3>2
  <2>9. cmd \in Xfers BY DEF Xfers
  <2>10. ASSUME NEW t, Gone(set, t), t.d.blkadr = adr, Continues(t, set.h.taken)
         PROVE  Begins(s, cmd, t)
    <3>1. Kept(s, t) BY <1>3, <1>5, <2>1, <2>10 DEF Gone, Kept, SameRegs, DFields
    <3>2. Asks(s.c) => Asks(t.c)
      <4>1. Asks(s.c) => Asks(set.c) BY <1>2, <1>3, <2>1 DEF Called
      <4>2. Asks(set.c) => Asks(t.c) BY <2>10 DEF Gone, SameCtl, SameRegs, Asks, Interrupting
      <4> QED BY <4>1, <4>2
    <3>3. t.c.cond = s.c.cond BY <1>2, <1>3, <1>9, <2>1, <2>10 DEF Gone, SameCtl
    <3>4. t.x.cmd \in Kind(cmd)
      <4>1. t.x.cmd \in IF cmd = "WRT" THEN {"WRITE", "WRDMA"} ELSE {"READ", "RDDMA"}
        BY <2>1, <2>10 DEF Gone
      <4> QED BY <4>1, <2>9 DEF Kind, Xfers
    <3>5. t.h.taken + t.d.blkwds = s.h.taken + s.c.bcnt * NWds
      <4>1. n = s.c.bcnt BY <1>2, <1>9 DEF n
      <4> QED BY <2>1, <2>10, <4>1 DEF Gone
    <3>6. Continues(t, s.h.taken) BY <2>1, <2>10
    <3> QED BY <2>1, <2>10, <3>1, <3>2, <3>3, <3>4, <3>5, <3>6 DEF Gone, Begins
  <2>11. ASSUME NEW t, Ended(set, t), Failed(t.c) PROVE Stopped(s, t)
    <3>1. Kept(s, t) BY <1>3, <1>5, <2>1, <2>11 DEF Ended, Kept, SameRegs, DFields
    <3>2. t.d.scmd \in {s.d.scmd} \cup Xfers BY <2>1, <2>9, <2>11 DEF Ended
    <3>3. t.d.st = s.d.st BY <2>1, <2>11 DEF Ended, DFields
    <3> QED BY <2>1, <2>11, <3>1, <3>2, <3>3 DEF Ended, Stopped
  <2> HIDE DEF cmd
  <2> QED BY <2>1, <2>8, <2>10, <2>11 DEF Attempt, Outcome, Fails, GoesOn, Start, r, cmd
<1> QED BY <1>7, <1>8, <1>9
=============================================================================
