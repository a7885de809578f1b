--------------------------- MODULE RhDisk_proofs ----------------------------
(***************************************************************************)
(* The safety invariants of RhDisk, and that it implements Transfers, for  *)
(* every size, every channel list, set of requests, addresses, commands    *)
(* and CONO bits, under a monitor and an operator who are as Patient and   *)
(* Waits say.                                                              *)
(*                                                                         *)
(* The inductive invariant Inv has six parts.  Good is what every handler  *)
(* preserves: types, no panic, who carries the transfer (Carried), where   *)
(* its words go (InPlace).  Slave says that the subprocess, the command,   *)
(* its event and rp_state agree; Asks that the interrupt request is right; *)
(* Tidied and Dropped that nothing is left of a transfer that is over.     *)
(* Books says that the controller's reports agree with its registers, and  *)
(* that the words moved and the words left make the transfer (Accounts).   *)
(*                                                                         *)
(* A handler is a function of the state, so the lemmas are about states s  *)
(* and t; the actions come last, one lemma each.  Sent is all that a       *)
(* handler may do to the subprocess, so that Slave is kept by every one,   *)
(* and Offers all that it may show the program, so that every one is a     *)
(* step of Transfers or none (ServesFact).                                 *)
(***************************************************************************)
EXTENDS RhDisk, RpDrive_proofs

\* The transfer under way is the drive's.
Ours(s) == "PCRF" \in s.c.cond /\ s.c.ptcr.drv = "rp"

\* The transfer registers hold transfers, or nothing.
Regs(k) ==
    /\ k.ptcr \in Request \cup {NoReq} /\ k.stcr \in Request \cup {NoReq} /\ k.bcnt \in Nat
    /\ k.sbar \in Nat /\ k.sbar \in Addresses \cup {0} /\ k.sbarf \in BOOLEAN

\* Every part has its type.
Types(s) ==
    /\ Parts(s) /\ Regs(s.c)
    /\ s.d.st \in {"OFF", "READY", "BUSY"} /\ s.d.scmd \in Xfers \cup {"MOUNT", "none"}
    /\ s.d.adr \in 0..TotSecs \cup Addresses
    /\ s.x.scnt \in 0..TotSecs /\ s.x.daddr \in 0..TotSecs
    /\ s.x.cmd \in {"none", "MOUNT", "READ", "WRITE", "RDDMA", "WRDMA"}
    /\ s.armed \in BOOLEAN /\ s.d.dma \in BOOLEAN /\ s.d.dly \in BOOLEAN

\* Who has the transfer: the drive is going exactly when the controller has a transfer of its, and
\* then the timer or the subprocess has it; a busy subprocess has a transfer or a pack to change.
Carried(s) ==
    /\ s.d.go <=> Ours(s)
    /\ s.d.go => s.d.scmd = s.c.ptcr.cmd
    /\ s.d.go /\ ~s.armed => s.d.st = "BUSY" /\ s.d.begun = TRUE /\ Away(s)
    /\ s.armed => s.d.go /\ s.d.st = "READY"
    /\ s.d.scmd = "MOUNT" => ~s.d.go /\ s.d.st = "BUSY"
    /\ s.d.st = "BUSY" => s.d.go \/ s.d.scmd = "MOUNT"
    /\ s.x.cmd # "none" => s.x.cmd \in Kind(s.d.scmd)

\* The words moved so far are in place.
Placed(hh) ==
    \A i \in 1..Len(hh.moved) :
        hh.moved[i][1] = hh.from * NWds + i - 1 /\ hh.moved[i][1] < TotSecs * NWds

\* And the piece under way continues them: before the subprocess moves it (e is "told") it starts
\* where they end; after (e is "moved") a write has added it to them, and a read has it in the buffer.
InPlace(s, e) ==
    /\ Placed(s.h)
    /\ s.armed => s.h.moved = <<>> /\ s.h.from = s.d.adr
    /\ s.d.go /\ ~s.armed =>
          LET at == s.h.from * NWds + Len(s.h.moved)
          IN  IF s.d.scmd = "WRT"
              THEN IF e = "moved" THEN at = (s.d.blkadr + s.x.scnt) * NWds
                   ELSE at = s.d.blkadr * NWds /\ Len(s.x.buf) = s.x.scnt * NWds
              ELSE /\ at = s.d.blkadr * NWds
                   /\ e = "moved" => s.x.buf = Words(s.x.daddr * NWds, s.x.scnt * NWds)

\* The words moved are the channel's in order, or those and then padding.
Straight(m) == \A i \in 1..Len(m) : m[i][2] = i
Padded(m)   == \A i \in 1..Len(m) : /\ m[i][2] \in {i, 0}
                                    /\ i > 1 /\ m[i-1][2] = 0 => m[i][2] = 0

\* What has been moved of the transfer under way is what has been counted, and with what is left
\* it is all that was asked for.  A piece that the subprocess has written may hold padding only
\* if the transfer is to end with an error.
Accounts(s, e) ==
    /\ s.armed => s.h.taken = 0
    /\ ~s.armed =>
          /\ s.h.taken + s.d.blkwds = SizeOf(s.c.ptcr)
          /\ IF s.d.scmd = "WRT" /\ e = "moved"
             THEN /\ Padded(s.h.moved)
                  /\ \/ s.x.err \/ Short(s)
                     \/ Straight(s.h.moved) /\ Len(s.h.moved) = Base(s)
             ELSE Straight(s.h.moved) /\ Continues(s, Len(s.h.moved))

\* The reports agree with the registers: no report while the drive has the transfer; a transfer
\* that was refused (PCRF stays on) has been reported with an error; what waits, waits for something.
Books(s, e) ==
    /\ Ours(s) => "CMD" \notin s.c.cond /\ s.c.bcnt = s.c.ptcr.blocks /\ Accounts(s, e)
    /\ "PCRF" \in s.c.cond /\ ~Ours(s) => "CMD" \in s.c.cond /\ Failed(s.c)
    /\ "SCRF" \in s.c.cond => s.c.stcr \in Request /\ (Ours(s) \/ "CMD" \in s.c.cond)

\* What the subprocess does (p), whether its event waits (dn), and the command and state agree.
Slave(s, p, dn) ==
    /\ p \in {"idle", "did", "acked"} /\ dn \in BOOLEAN
    /\ s.x.cmd # "none" => s.d.st = "BUSY" /\ p \in {"idle", "did"} /\ ~dn
    /\ p = "did" => s.x.cmd # "none"
    /\ p = "acked" => s.d.st = "BUSY" /\ ~dn /\ s.x.cmd = "none"
    /\ dn => p = "idle" /\ s.x.cmd = "none" /\ s.d.st = "BUSY"
    /\ s.d.st = "BUSY" => s.x.cmd # "none" \/ p = "acked" \/ dn

\* The numbers of a transfer that is over are gone.
Tidied(s) ==
    ~(s.d.go /\ ~s.armed) => s.d.blkadr = 0 /\ s.d.blkwds = 0 /\ s.d.blklim = 0

\* The subprocess has been told nothing, or something new.
Sent(s, t) ==
    \/ t.d.st = s.d.st /\ t.x.cmd = s.x.cmd
    \/ s.d.st # "BUSY" /\ t.d.st = "BUSY" /\ t.x.cmd # "none"

\* What every handler preserves of the state; e is "moved" once the subprocess has carried
\* out its command, before "told".
Good(s, e) ==
    /\ Types(s) /\ s.h.panic = FALSE /\ Carried(s) /\ InPlace(s, e)
    /\ s.d.st # "BUSY" => e = "told" /\ s.x.cmd = "none"

\* What the program sees: the transfer under way, the one that waits, the report.
Act(s)  == IF Ours(s) THEN s.c.ptcr ELSE NoReq
Wait(s) == IF "SCRF" \in s.c.cond THEN s.c.stcr ELSE NoReq
Rep(s)  == IF "CMD" \notin s.c.cond THEN "none" ELSE IF Failed(s.c) THEN "error" ELSE "ok"

\* Nothing is kept of a transfer whose report has been acknowledged.
Dropped(s) == ~Ours(s) /\ "CMD" \notin s.c.cond => s.h.moved = <<>>

\* Where the subprocess has got with its command: a state is "moved" once it has executed.
Phase(p, dn) == IF p # "idle" \/ dn THEN "moved" ELSE "told"

\* The inductive invariant.
Inv ==
    /\ Good(S, Phase(dp, done)) /\ Slave(S, dp, done) /\ Asks(c) /\ Tidied(S)
    /\ Books(S, Phase(dp, done)) /\ Dropped(S)

\* Words are only added to those moved, and all are in order.
Grown(m, n) == Len(n) >= Len(m) /\ SubSeq(n, 1, Len(m)) = m /\ Service!InOrder(n)

\* What a piece of a transfer looks like to the program: nothing, some words, or the end with its
\* report, good only of a complete transfer.
Worked(s, t) ==
    /\ Wait(t) = Wait(s)
    /\ \/ Act(t) = Act(s) /\ Rep(t) = Rep(s) /\ t.h.moved = s.h.moved
       \/ /\ Act(s) # NoReq /\ Grown(s.h.moved, t.h.moved)
          /\ \/ Act(t) = Act(s) /\ Rep(t) = Rep(s)
             \/ /\ Act(t) = NoReq /\ Rep(s) = "none" /\ Rep(t) # "none"
                /\ Rep(t) = "ok" => Service!Complete(Act(s), t.h.moved)

\* What the accounts of the transfer under way are made of is the same.
Steady(s, t) ==
    /\ t.h = s.h /\ t.armed = s.armed /\ t.c.wcnt = s.c.wcnt
    /\ t.d.scmd = s.d.scmd /\ t.d.blkwds = s.d.blkwds /\ t.d.direct = s.d.direct
    /\ t.x.err = s.x.err /\ t.x.scnt = s.x.scnt /\ t.x.buf = s.x.buf

\* And so are the accounts.
LEMMA SteadyFact ==
    ASSUME NEW s, NEW t, Steady(s, t), t.c.ptcr = s.c.ptcr
    PROVE  \A e : Accounts(s, e) => Accounts(t, e)
<1>1. /\ t.h = s.h /\ t.armed = s.armed /\ t.c.wcnt = s.c.wcnt
      /\ t.d.scmd = s.d.scmd /\ t.d.blkwds = s.d.blkwds /\ t.d.direct = s.d.direct
      /\ t.x.err = s.x.err /\ t.x.scnt = s.x.scnt /\ t.x.buf = s.x.buf
  BY DEF Steady
<1>2. /\ Short(t) <=> Short(s)
      /\ Base(t) = Base(s)
      /\ Continues(t, Len(t.h.moved)) <=> Continues(s, Len(s.h.moved))
  BY <1>1 DEF Short, Base, Continues, Filled
<1> QED BY <1>1, <1>2 DEF Accounts

\* The program sees a transfer exactly when the drive has one.
LEMMA ActFact ==
    ASSUME NEW s
    PROVE  Act(s) = NoReq <=> ~Ours(s)
BY DEF Act, Ours, NoReq

\* The conditions that say it, and a change that the program does not see.
Told == {"CMD", "PCRF", "SCRF"} \cup Errors
Unseen(s, t) ==
    /\ \A b \in Told : b \in t.c.cond <=> b \in s.c.cond
    /\ "PCRF" \in s.c.cond => t.c.ptcr = s.c.ptcr /\ t.c.bcnt = s.c.bcnt
    /\ "SCRF" \in s.c.cond => t.c.stcr = s.c.stcr
    /\ Ours(s) => Steady(s, t)

\* It keeps the books, and what the program sees.
LEMMA UnseenFact ==
    ASSUME NEW s, NEW t, Unseen(s, t)
    PROVE  /\ \A e : Books(s, e) => Books(t, e)
           /\ Act(t) = Act(s) /\ Wait(t) = Wait(s) /\ Rep(t) = Rep(s)
<1>1. /\ "CMD" \in t.c.cond <=> "CMD" \in s.c.cond
      /\ "PCRF" \in t.c.cond <=> "PCRF" \in s.c.cond
      /\ "SCRF" \in t.c.cond <=> "SCRF" \in s.c.cond
      /\ Failed(t.c) <=> Failed(s.c)
  <2>1. \A b \in Errors : b \in t.c.cond <=> b \in s.c.cond BY DEF Unseen, Told
  <2>2. Failed(t.c) <=> Failed(s.c) BY <2>1 DEF Failed
  <2> QED BY <2>2 DEF Unseen, Told
<1>2. Ours(t) <=> Ours(s) BY <1>1 DEF Unseen, Ours
<1>3. Act(t) = Act(s) /\ Wait(t) = Wait(s) /\ Rep(t) = Rep(s)
  BY <1>1, <1>2 DEF Unseen, Act, Wait, Rep, Ours
<1>4. ASSUME NEW e, Books(s, e) PROVE Books(t, e)
  <2>1. ASSUME Ours(s)
        PROVE  "CMD" \notin t.c.cond /\ t.c.bcnt = t.c.ptcr.blocks /\ Accounts(t, e)
    <3>1. /\ "CMD" \notin s.c.cond /\ s.c.bcnt = s.c.ptcr.blocks /\ Accounts(s, e)
          /\ "PCRF" \in s.c.cond
      BY <1>4, <2>1 DEF Books, Ours
    <3>2. t.c.ptcr = s.c.ptcr /\ t.c.bcnt = s.c.bcnt /\ Steady(s, t)
      BY <2>1, <3>1 DEF Unseen
    <3>3. Accounts(t, e) BY <3>1, <3>2, SteadyFact
    <3> QED BY <1>1, <3>1, <3>2, <3>3
  <2>2. "SCRF" \in t.c.cond => t.c.stcr \in Request /\ (Ours(t) \/ "CMD" \in t.c.cond)
    BY <1>1, <1>2, <1>4 DEF Books, Unseen
  <2>3. "PCRF" \in t.c.cond /\ ~Ours(t) => "CMD" \in t.c.cond /\ Failed(t.c)
    BY <1>1, <1>2, <1>4 DEF Books
  <2> QED BY <1>2, <2>1, <2>2, <2>3 DEF Books
<1> QED BY <1>3, <1>4

\* One after another.
LEMMA UnseenOn ==
    ASSUME NEW s, NEW t, NEW u, Unseen(s, t), Unseen(t, u)
    PROVE  Unseen(s, u)
<1>1. "PCRF" \in t.c.cond <=> "PCRF" \in s.c.cond BY DEF Unseen, Told
<1>2. "SCRF" \in t.c.cond <=> "SCRF" \in s.c.cond BY DEF Unseen, Told
<1>3. Ours(s) => Ours(t) BY <1>1 DEF Unseen, Ours
<1>4. \A b \in Told : b \in u.c.cond <=> b \in s.c.cond BY DEF Unseen
<1> QED BY <1>1, <1>2, <1>3, <1>4 DEF Unseen, Steady

\* Nothing is under way.
Resting(s) ==
    /\ ~Ours(s) /\ s.d.go = FALSE /\ s.armed = FALSE
    /\ s.d.st # "BUSY" /\ s.d.scmd # "MOUNT" /\ s.x.cmd = "none"

\* A controller and a drive at rest are in a good state, whatever their registers say.
LEMMA RestGood ==
    ASSUME NEW s, Types(s), s.h.panic = FALSE, Placed(s.h), Resting(s)
    PROVE  Good(s, "told")
BY DEF Good, Resting, Carried, InPlace

\* Without GO, and with no pack being changed, all is at rest.
LEMMA GoodRests ==
    ASSUME NEW s, NEW e, Good(s, e), s.d.go = FALSE, s.d.scmd # "MOUNT"
    PROVE  Resting(s) /\ Placed(s.h) /\ e = "told"
BY DEF Good, Resting, Carried, InPlace, Types

\* A transfer that keeps what it should keeps the types.
LEMMA KeptTypes ==
    ASSUME NEW s, Types(s), NEW t, Kept(s, t),
           t.d.st \in {"READY", "BUSY", s.d.st}, t.d.scmd \in Xfers \cup {"none", s.d.scmd},
           t.x.scnt \in 0..TotSecs, t.x.daddr \in 0..TotSecs,
           t.x.cmd \in {"none", "READ", "WRITE", "RDDMA", "WRDMA", s.x.cmd}
    PROVE  Types(t)
<1>1. Parts(t) BY DEF Kept
<1>2. /\ t.c.ptcr = s.c.ptcr /\ t.c.stcr = s.c.stcr /\ t.c.bcnt = s.c.bcnt
      /\ t.c.sbar = s.c.sbar /\ t.c.sbarf = s.c.sbarf
  BY DEF Kept, SameRegs
<1>3. t.d.adr = s.d.adr \/ t.d.adr \in 0..TotSecs BY DEF Kept
<1>4. t.armed = s.armed /\ t.d.dma = s.d.dma /\ t.d.dly = s.d.dly BY DEF Kept
<1>5. Regs(t.c) BY <1>2 DEF Types, Regs
<1> QED BY <1>1, <1>3, <1>4, <1>5 DEF Types

\* A change of the controller alone.
CtlOnly(s, t) ==
    /\ DOMAIN t = {"c", "d", "armed", "x", "h"}
    /\ t.d = s.d /\ t.armed = s.armed /\ t.x = s.x /\ t.h = s.h

\* The controller may change its registers while the drive is busy, but for those of the transfer
\* under way.
LEMMA CtlChange ==
    ASSUME NEW s, NEW e, Good(s, e), NEW t, CtlOnly(s, t), Ctl(t.c), t.c.attn = s.c.attn,
           Regs(t.c), Ours(t) <=> Ours(s),
           Ours(s) => t.c.ptcr = s.c.ptcr /\ t.c.wcnt = s.c.wcnt
    PROVE  Good(t, e) /\ Sent(s, t)
<1>1. Parts(t) BY DEF Good, Types, Parts, CtlOnly
<1>2. Types(t) BY <1>1 DEF Good, Types, CtlOnly
<1>3. Carried(t)
  <2>1. ASSUME s.d.go, ~s.armed PROVE Away(t)
    <3>1. Away(s) /\ Ours(s) BY <2>1 DEF Good, Carried
    <3> QED BY <3>1 DEF Away, CtlOnly
  <2> QED BY <2>1 DEF Good, Carried, CtlOnly
<1>4. InPlace(t, e) BY DEF Good, InPlace, CtlOnly
<1> QED BY <1>2, <1>3, <1>4 DEF Good, Sent, CtlOnly

-----------------------------------------------------------------------------
(* The drive at rest                                                       *)

\* What a clear leaves of the drive.
Cleared(s, t) ==
    /\ DOMAIN t = {"c", "d", "armed", "x", "h"} /\ DOMAIN t.d = DFields /\ DOMAIN t.x = XFields
    /\ t.armed = FALSE /\ t.h = s.h
    /\ \A f \in XFields \ {"err"} : t.x[f] = s.x[f]
    /\ \A f \in {"adr", "st", "dma", "dly"} : t.d[f] = s.d[f]
    /\ t.d.scmd = "none" /\ t.d.go = FALSE /\ t.d.serr = FALSE /\ t.d.atn = FALSE
    /\ t.x.err = FALSE
    /\ t.d.mol \in BOOLEAN /\ (t.d.mol => t.d.st # "OFF")

\* rp_clear of any state of the parts leaves a cleared drive.
LEMMA RpClearFact ==
    ASSUME NEW s, DOMAIN s = {"c", "d", "armed", "x", "h"}, DOMAIN s.d = DFields,
           DOMAIN s.x = XFields, s.x.mol \in BOOLEAN
    PROVE  Cleared(s, RpClear(s)) /\ RpClear(s).c = Rh20Attn(s.c, FALSE)
<1> DEFINE e == Rh20Attn(s.c, FALSE)
           k == [s EXCEPT !.c = e, !.d.scmd = "none", !.armed = FALSE,
                     !.d.go = FALSE, !.d.serr = FALSE, !.d.atn = FALSE, !.x.err = FALSE]
           t == RpSsta(k)
<1>1. RpClear(s) = t BY DEF RpClear
<1> HIDE DEF e
<1>2. /\ DOMAIN k = {"c", "d", "armed", "x", "h"} /\ DOMAIN k.d = DFields /\ DOMAIN k.x = XFields
      /\ k.c = e /\ k.armed = FALSE /\ k.h = s.h
      /\ \A f \in XFields \ {"err"} : k.x[f] = s.x[f]
      /\ \A f \in {"adr", "st", "dma", "dly"} : k.d[f] = s.d[f]
      /\ k.d.scmd = "none" /\ k.d.go = FALSE /\ k.d.serr = FALSE /\ k.d.atn = FALSE
      /\ k.x.err = FALSE
  BY DEF DFields, XFields
<1> HIDE DEF k
<1>3. k.x.mol \in BOOLEAN BY <1>2 DEF XFields
<1>4. /\ DOMAIN t = {"c", "d", "armed", "x", "h"} /\ DOMAIN t.d = DFields
      /\ t.c = k.c /\ t.armed = k.armed /\ t.x = k.x /\ t.h = k.h
      /\ \A f \in DFields \ {"dry", "mol"} : t.d[f] = k.d[f]
      /\ t.d.mol \in BOOLEAN /\ (t.d.mol => k.d.st # "OFF")
  BY <1>2, <1>3 DEF RpSsta, DFields
<1> HIDE DEF t
<1>5. Cleared(s, t) BY <1>2, <1>4 DEF Cleared, DFields
<1> QED BY <1>1, <1>2, <1>4, <1>5 DEF e

\* The clear of a drive at rest, by a command or by the controller's.
LEMMA ClearedGood ==
    ASSUME NEW s, Types(s), s.h.panic = FALSE, Placed(s.h), Resting(s),
           NEW t, Cleared(s, t), Ctl(t.c), t.c.attn = FALSE, Regs(t.c), ~Ours(t)
    PROVE  Good(t, "told") /\ Sent(s, t)
<1>1. Parts(t)
  <2>1. DOMAIN t.h = HFields BY DEF Cleared, Types, Parts
  <2>2. /\ t.d.adr \in Nat /\ t.x.buf \in Seq(Int) /\ t.x.mol \in BOOLEAN
        /\ t.h.panic \in BOOLEAN
        /\ t.h.from \in Nat /\ t.h.taken \in Int /\ t.h.moved \in Seq(Int \X Int)
    BY DEF Cleared, Types, Parts, XFields
  <2> QED BY <2>1, <2>2 DEF Cleared, Parts
<1>2. Types(t) BY <1>1 DEF Types, Cleared, XFields
<1>3. Resting(t) /\ Sent(s, t) BY DEF Resting, Cleared, Sent, XFields
<1>4. t.h.panic = FALSE /\ Placed(t.h) BY DEF Cleared
<1> QED BY <1>2, <1>3, <1>4, RestGood

\* rh_clear when nothing is under way leaves all at rest and no condition.
LEMMA RhClearFact ==
    ASSUME NEW s, NEW e, Good(s, e), s.d.go = FALSE, s.d.scmd # "MOUNT"
    PROVE  Good(RhClear(s), e) /\ Sent(s, RhClear(s)) /\ Asks(RhClear(s).c)
           /\ ~Ours(RhClear(s)) /\ RhClear(s).c.cond = {} /\ RhClear(s).h = s.h
<1> DEFINE k == [s EXCEPT !.c = [@ EXCEPT !.req = FALSE, !.cond = {}, !.draes = FALSE,
                             !.ptcr = NoReq, !.stcr = NoReq, !.sbar = 0, !.sbarf = FALSE]]
           t == RhClear(s)
<1>1. t = RpClear(k) BY DEF RhClear
<1>2. /\ DOMAIN k = {"c", "d", "armed", "x", "h"} /\ k.armed = s.armed /\ k.d = s.d
      /\ k.x = s.x /\ k.h = s.h
      /\ DOMAIN k.c = CFields /\ k.c.req = FALSE /\ k.c.cond = {} /\ k.c.draes = FALSE
      /\ k.c.ptcr = NoReq /\ k.c.stcr = NoReq /\ k.c.sbar = 0 /\ k.c.sbarf \in BOOLEAN
      /\ k.c.attn = s.c.attn /\ k.c.pilev = s.c.pilev /\ k.c.bcnt = s.c.bcnt
      /\ k.c.wcnt = s.c.wcnt /\ k.c.list = s.c.list
  BY DEF Good, Types, Parts, Ctl, CFields
<1> HIDE DEF k, t
<1>3. Resting(s) /\ Placed(s.h) /\ e = "told" BY GoodRests
<1>4. Cleared(k, RpClear(k)) /\ RpClear(k).c = Rh20Attn(k.c, FALSE)
  <2>1. DOMAIN k.d = DFields /\ DOMAIN k.x = XFields /\ k.x.mol \in BOOLEAN
    BY <1>2 DEF Good, Types, Parts
  <2> QED BY <1>2, <2>1, RpClearFact
<1>5. Cleared(s, t) BY <1>1, <1>2, <1>4 DEF Cleared
<1> DEFINE u == Rh20Attn(k.c, FALSE)
<1>6. /\ DOMAIN u = CFields /\ u.attn = FALSE
      /\ \A f \in CFields \ {"attn", "cond"} : u[f] = k.c[f]
      /\ u.cond = {}
  <2>1. k.c.attn \in BOOLEAN BY <1>2 DEF Good, Types, Parts, Ctl
  <2> QED BY <1>2, <2>1 DEF Rh20Attn, CFields
<1>7. t.c = u BY <1>1, <1>4
<1> HIDE DEF u
<1>8. Ctl(u) BY <1>2, <1>6 DEF Ctl, CFields, Good, Types, Parts
<1>9. Asks(u) BY <1>2, <1>6 DEF Asks, CFields
<1>10. /\ u.ptcr = NoReq /\ u.stcr = NoReq /\ u.sbar = 0 /\ u.sbarf \in BOOLEAN
       /\ u.bcnt = s.c.bcnt /\ u.attn = FALSE
  BY <1>2, <1>6 DEF CFields
<1>11. ~Ours(t) BY <1>6, <1>7 DEF Ours
<1>12. Types(s) /\ s.h.panic = FALSE /\ Regs(s.c) BY DEF Good, Types
<1>13. Ctl(t.c) /\ t.c.attn = FALSE /\ Regs(t.c)
  <2>1. s.c.bcnt \in Nat BY <1>12 DEF Regs
  <2>2. Regs(u) BY <1>10, <2>1 DEF Regs
  <2> QED BY <1>7, <1>8, <1>10, <2>2
<1>14. Good(t, "told") /\ Sent(s, t) BY <1>3, <1>5, <1>11, <1>12, <1>13, ClearedGood
<1>15. t.h = s.h BY <1>5 DEF Cleared
<1> QED BY <1>3, <1>6, <1>7, <1>9, <1>11, <1>14, <1>15 DEF t

\* A command that is no transfer does nothing but signal.
Quiet(s, t) ==
    /\ DOMAIN t = {"c", "d", "armed", "x", "h"} /\ DOMAIN t.d = DFields
    /\ t.armed = s.armed /\ t.x = s.x /\ t.h = s.h
    /\ t.d.go = FALSE /\ t.d.go \in BOOLEAN /\ t.d.serr \in BOOLEAN /\ t.d.adr \in {s.d.adr, 0}
    /\ \A f \in {"mol", "st", "scmd", "dma", "dly"} : t.d[f] = s.d[f]
    /\ \/ t.c = s.c /\ t.d.atn = s.d.atn
       \/ t.c = Rh20Attn(s.c, TRUE) /\ t.d.atn = TRUE

\* A drive command that is neither a transfer nor a clear is over at once.
LEMMA QuietCmd ==
    ASSUME NEW s, Parts(s), s.d.go = FALSE, NEW cmd, cmd \notin Xfers, cmd # "CLR"
    PROVE  \E t : Wrreg(s, "CSR", cmd) = GoesOn(t) /\ Quiet(s, t)
<1> DEFINE k == [s EXCEPT !.d.go = TRUE]
           off == GoOff(k)
           err == Serr(off)
           rdp == GoOff([k EXCEPT !.d.adr = 0])
           att == GoOff(RpAttn(k))
           bad == GoOff(RpAttn(Serr(k)))
           T == {off, RpAttn(off), RpAttn(err), rdp, att, bad}
           t == Cmdxct(k, cmd)
<1>1. Wrreg(s, "CSR", cmd) = GoesOn(t) BY DEF Wrreg
<1>2. t \in T
  <2>1. CASE s.d.serr BY <2>1 DEF Cmdxct, Parts, DFields
  <2>2. CASE ~s.d.serr /\ ~s.d.mol BY <2>2 DEF Cmdxct, Parts, DFields
  <2>3. CASE ~s.d.serr /\ s.d.mol
    <3>1. k.d.serr = s.d.serr /\ k.d.mol = s.d.mol BY DEF Parts, DFields
    <3> HIDE DEF k, off, err, rdp, att, bad
    <3> QED BY <2>3, <3>1 DEF Cmdxct, off, err, rdp, att, bad
  <2> QED BY <2>1, <2>2, <2>3
<1>3. \A u \in T : Quiet(s, u)
  <2>1. /\ DOMAIN off = {"c", "d", "armed", "x", "h"} /\ DOMAIN off.d = DFields
        /\ off.c = s.c /\ off.armed = s.armed /\ off.x = s.x /\ off.h = s.h
        /\ off.d.go = FALSE /\ off.d.go \in BOOLEAN
        /\ \A f \in DFields \ {"go"} : off.d[f] = s.d[f]
    BY DEF Parts, GoOff, DFields
  <2>2. /\ DOMAIN k = {"c", "d", "armed", "x", "h"} /\ DOMAIN k.d = DFields
        /\ k.c = s.c /\ k.armed = s.armed /\ k.x = s.x /\ k.h = s.h
        /\ \A f \in DFields \ {"go"} : k.d[f] = s.d[f]
    BY DEF Parts, DFields
  <2> HIDE DEF k, off
  <2>3. Quiet(s, off) BY <2>1 DEF Quiet, Parts, DFields
  <2>4. Quiet(s, RpAttn(off)) BY <2>1 DEF Quiet, Parts, DFields, RpAttn
  <2>5. Quiet(s, RpAttn(err)) BY <2>1 DEF Quiet, Parts, DFields, RpAttn, Serr
  <2>6. Quiet(s, rdp) BY <2>2 DEF Quiet, Parts, DFields, GoOff
  <2>7. Quiet(s, att) BY <2>2 DEF Quiet, Parts, DFields, RpAttn, GoOff
  <2>8. Quiet(s, bad) BY <2>2 DEF Quiet, Parts, DFields, RpAttn, Serr, GoOff
  <2> HIDE DEF err, rdp, att, bad
  <2> QED BY <2>3, <2>4, <2>5, <2>6, <2>7, <2>8
<1> HIDE DEF t, T
<1> QED BY <1>1, <1>2, <1>3

\* It leaves a good state good.
LEMMA QuietGood ==
    ASSUME NEW s, Types(s), s.h.panic = FALSE, Placed(s.h), Resting(s), NEW t, Quiet(s, t)
    PROVE  Good(t, "told") /\ Sent(s, t) /\ (Asks(s.c) => Asks(t.c)) /\ Unseen(s, t)
<1> DEFINE a == Rh20Attn(s.c, TRUE)
<1>1. Called(s.c, a) /\ a.attn = TRUE /\ a.cond \ {"MBA"} = s.c.cond \ {"MBA"}
  BY AttnFact DEF Types, Parts
<1> HIDE DEF a
<1>2. /\ Ctl(t.c) /\ SameRegs(s.c, t.c) /\ (Asks(s.c) => Asks(t.c)) /\ t.d.atn = t.c.attn
      /\ "PCRF" \in t.c.cond <=> "PCRF" \in s.c.cond
      /\ t.c.cond \ {"MBA"} = s.c.cond \ {"MBA"}
  <2>1. CASE t.c = s.c /\ t.d.atn = s.d.atn BY <2>1 DEF Types, Parts, SameRegs
  <2>2. CASE t.c = a /\ t.d.atn = TRUE BY <2>2, <1>1 DEF Called
  <2> QED BY <2>1, <2>2 DEF Quiet, a
<1>3. t.d.adr \in Nat /\ t.d.adr \in 0..TotSecs \cup Addresses
  BY DriveAssumption DEF Quiet, Types, Parts
<1>4. Parts(t) BY <1>2, <1>3 DEF Quiet, Types, Parts
<1>5. Regs(t.c) BY <1>2 DEF Types, Regs, SameRegs
<1>6. Types(t) BY <1>3, <1>4, <1>5 DEF Quiet, Types
<1>7. ~Ours(t) BY <1>2 DEF Resting, Ours, SameRegs
<1>8. Resting(t) /\ Sent(s, t) BY <1>7 DEF Quiet, Resting, Sent
<1>9. t.h.panic = FALSE /\ Placed(t.h) BY DEF Quiet
<1>10. Unseen(s, t)
  <2>1. \A b \in Told : b \in t.c.cond <=> b \in s.c.cond BY <1>2 DEF Told, Errors
  <2>2. ~Ours(s) BY DEF Resting
  <2> QED BY <1>2, <2>1, <2>2 DEF Unseen, SameRegs
<1> QED BY <1>2, <1>6, <1>8, <1>9, <1>10, RestGood

\* So does the drive clear command.
LEMMA ClrCmd ==
    ASSUME NEW s, Types(s), s.h.panic = FALSE, Placed(s.h), Resting(s)
    PROVE  \E t : /\ Wrreg(s, "CSR", "CLR") = GoesOn(t)
                  /\ Good(t, "told") /\ Sent(s, t) /\ (Asks(s.c) => Asks(t.c))
                  /\ Unseen(s, t) /\ t.h = s.h
<1> DEFINE k == [s EXCEPT !.d.go = TRUE]
           t == RpClear(k)
           u == Rh20Attn(s.c, FALSE)
<1>1. Wrreg(s, "CSR", "CLR") = GoesOn(t)
  <2>1. s.d.go = FALSE BY DEF Resting
  <2>2. Wrreg(s, "CSR", "CLR") = GoesOn(Cmdxct(k, "CLR")) BY <2>1 DEF Wrreg
  <2> HIDE DEF k
  <2>3. Cmdxct(k, "CLR") = RpClear(k) BY DEF Cmdxct
  <2> QED BY <2>2, <2>3
<1>2. /\ DOMAIN k = {"c", "d", "armed", "x", "h"} /\ DOMAIN k.d = DFields
      /\ k.c = s.c /\ k.x = s.x /\ k.h = s.h
      /\ \A f \in DFields \ {"go"} : k.d[f] = s.d[f]
  BY DEF Types, Parts, DFields
<1> HIDE DEF k
<1>3. Cleared(k, t) /\ t.c = Rh20Attn(k.c, FALSE)
  <2>1. DOMAIN k.x = XFields /\ k.x.mol \in BOOLEAN BY <1>2 DEF Types, Parts
  <2> QED BY <1>2, <2>1, RpClearFact
<1> HIDE DEF t
<1>4. Cleared(s, t) BY <1>2, <1>3 DEF Cleared, DFields
<1>5. Called(s.c, u) /\ u.attn = FALSE /\ u.cond \ {"MBA"} = s.c.cond \ {"MBA"}
  BY AttnFact DEF Types, Parts
<1>6. t.c = u BY <1>2, <1>3
<1> HIDE DEF u
<1>7. Ctl(t.c) /\ t.c.attn = FALSE BY <1>5, <1>6 DEF Called
<1>8. Regs(t.c) BY <1>5, <1>6 DEF Called, SameRegs, Regs, Types
<1>9. ~Ours(t) BY <1>5, <1>6 DEF Called, SameRegs, Resting, Ours
<1>10. Good(t, "told") /\ Sent(s, t) BY <1>4, <1>7, <1>8, <1>9, ClearedGood
<1>11. Asks(s.c) => Asks(t.c) BY <1>5, <1>6 DEF Called
<1>12. Unseen(s, t)
  <2>1. \A b \in Told : b \in t.c.cond <=> b \in s.c.cond BY <1>5, <1>6 DEF Told, Errors
  <2>2. ~Ours(s) BY DEF Resting
  <2> QED BY <1>5, <1>6, <2>1, <2>2 DEF Unseen, Called, SameRegs
<1>13. t.h = s.h BY <1>4 DEF Cleared
<1> QED BY <1>1, <1>10, <1>11, <1>12, <1>13

\* Attention acknowledged, at any time.
LEMMA AttnCmd ==
    ASSUME NEW s, NEW e, Good(s, e)
    PROVE  \E t : /\ Wrreg(s, "ATTN", 1) = GoesOn(t)
                  /\ Good(t, e) /\ Sent(s, t) /\ (Asks(s.c) => Asks(t.c))
                  /\ Unseen(s, t) /\ t.h = s.h
<1> DEFINE u == Rh20Attn(s.c, FALSE)
           t == [s EXCEPT !.d.atn = FALSE, !.c = Rh20Attn(@, FALSE)]
<1>1. Wrreg(s, "ATTN", 1) = GoesOn(t)
  <2> HIDE DEF t
  <2> QED BY DEF Wrreg, t
<1>2. /\ Called(s.c, u) /\ u.attn = FALSE /\ u.cond \ {"MBA"} = s.c.cond \ {"MBA"}
      /\ u.wcnt = s.c.wcnt
  BY AttnFact DEF Good, Types, Parts
<1> HIDE DEF u
<1>3. /\ DOMAIN t = {"c", "d", "armed", "x", "h"} /\ DOMAIN t.d = DFields
      /\ t.c = u /\ t.armed = s.armed /\ t.x = s.x /\ t.h = s.h
      /\ \A f \in DFields \ {"atn"} : t.d[f] = s.d[f]
      /\ t.d.atn = u.attn
  BY <1>2 DEF Good, Types, Parts, DFields, u
<1> HIDE DEF t
<1>4. Parts(t) BY <1>2, <1>3 DEF Called, Good, Types, Parts, DFields
<1>5. Regs(t.c) BY <1>2, <1>3 DEF Called, SameRegs, Good, Types, Regs
<1>6. Types(t) BY <1>3, <1>4, <1>5 DEF Good, Types, DFields
<1>7. Ours(t) <=> Ours(s) BY <1>2, <1>3 DEF Called, SameRegs, Ours
<1>8. ASSUME s.d.go, ~s.armed PROVE Away(t)
  <2>1. Away(s) BY <1>8 DEF Good, Carried
  <2> QED BY <1>2, <1>3, <2>1 DEF Away, Space, Fits, Whole, DFields
<1>9. Carried(t)
  <2>1. t.c.ptcr = s.c.ptcr BY <1>2, <1>3 DEF Called, SameRegs
  <2> QED BY <1>3, <1>7, <1>8, <2>1 DEF Good, Carried, DFields
<1>10. InPlace(t, e) BY <1>3 DEF Good, InPlace, DFields
<1>11. Sent(s, t) BY <1>3 DEF Sent, DFields
<1>12. Good(t, e) BY <1>3, <1>6, <1>9, <1>10 DEF Good, DFields
<1>13. Unseen(s, t)
  <2>1. \A b \in Told : b \in t.c.cond <=> b \in s.c.cond BY <1>2, <1>3 DEF Told, Errors
  <2>2. t.c.ptcr = s.c.ptcr /\ t.c.bcnt = s.c.bcnt /\ t.c.stcr = s.c.stcr /\ t.c.wcnt = s.c.wcnt
    BY <1>2, <1>3 DEF Called, SameRegs
  <2>3. t.d.scmd = s.d.scmd /\ t.d.blkwds = s.d.blkwds /\ t.d.direct = s.d.direct
    BY <1>3 DEF DFields
  <2> QED BY <1>3, <2>1, <2>2, <2>3 DEF Unseen, Steady
<1> QED BY <1>1, <1>2, <1>3, <1>11, <1>12, <1>13 DEF Called

\* A refused register access changes the conditions and the request.
LEMMA RaeFact ==
    ASSUME NEW s, NEW e, Good(s, e)
    PROVE  Good(Rae(s), e) /\ Sent(s, Rae(s)) /\ (Asks(s.c) => Asks(Rae(s).c))
           /\ Unseen(s, Rae(s)) /\ Rae(s).h = s.h
<1> DEFINE m == [s.c EXCEPT !.cond = @ \cup {"RAE"}]
           k == IF m.draes THEN m ELSE RhPi(m)
           t == [s EXCEPT !.c = k]
<1>1. Rae(s) = t BY DEF Rae
<1>2. Ctl(s.c) /\ Regs(s.c) BY DEF Good, Types, Parts
<1>3. /\ DOMAIN m = CFields /\ m.cond = s.c.cond \cup {"RAE"}
      /\ \A f \in CFields \ {"cond"} : m[f] = s.c[f]
  BY <1>2 DEF Ctl, CFields
<1> HIDE DEF m
<1>4. /\ DOMAIN k = CFields /\ k.cond = m.cond /\ k.req = (m.req \/ (~m.draes /\ m.pilev))
      /\ \A f \in CFields \ {"cond", "req"} : k[f] = m[f]
  BY <1>2, <1>3 DEF Ctl, CFields, RhPi
<1> HIDE DEF k
<1>5. Ctl(k) BY <1>2, <1>3, <1>4 DEF Ctl, CFields, CondBits
<1>6. Regs(k) /\ k.attn = s.c.attn /\ k.ptcr = s.c.ptcr /\ k.wcnt = s.c.wcnt
  BY <1>2, <1>3, <1>4 DEF Regs, CFields
<1>7. t.c = k /\ CtlOnly(s, t) BY DEF Good, Types, Parts, CtlOnly
<1>8. Asks(s.c) => Asks(k) BY <1>2, <1>3, <1>4 DEF Asks, Interrupting, Ctl, CFields
<1> HIDE DEF t
<1>9. Ours(t) <=> Ours(s) BY <1>3, <1>4, <1>6, <1>7 DEF Ours
<1>10. Ours(s) => t.c.ptcr = s.c.ptcr /\ t.c.wcnt = s.c.wcnt BY <1>6, <1>7
<1>11. Ctl(t.c) /\ t.c.attn = s.c.attn /\ Regs(t.c) BY <1>5, <1>6, <1>7
<1>12. Good(t, e) /\ Sent(s, t) BY <1>7, <1>9, <1>10, <1>11, CtlChange
<1>13. Unseen(s, t)
  <2>1. \A b \in Told : b \in t.c.cond <=> b \in s.c.cond
    BY <1>3, <1>4, <1>7 DEF Told, Errors
  <2>2. t.c.ptcr = s.c.ptcr /\ t.c.bcnt = s.c.bcnt /\ t.c.stcr = s.c.stcr /\ t.c.wcnt = s.c.wcnt
    BY <1>3, <1>4, <1>7 DEF CFields
  <2> QED BY <1>7, <2>1, <2>2 DEF Unseen, Steady, CtlOnly
<1>14. t.h = s.h BY <1>7 DEF CtlOnly
<1> QED BY <1>1, <1>7, <1>8, <1>12, <1>13, <1>14

-----------------------------------------------------------------------------
(* A transfer begins                                                       *)

\* The controller has handed its transfer over, the drive has GO on and has done nothing.
Primed(q, cmd) ==
    /\ Types(q) /\ q.h.panic = FALSE /\ q.h.moved = <<>> /\ q.h.from = q.d.adr
    /\ Ours(q) /\ q.d.go = TRUE /\ q.c.ptcr.cmd = cmd /\ cmd \in Xfers
    /\ q.d.st # "BUSY" /\ q.d.scmd # "MOUNT" /\ q.armed = FALSE /\ q.x.cmd = "none"
    /\ q.h.taken = 0 /\ q.c.bcnt = q.c.ptcr.blocks /\ q.c.bcnt \in Nat \ {0}
    /\ "CMD" \notin q.c.cond

\* It has begun, with all of its words to be moved, or ended with an error.  What waits is as before.
Launched(q, t) ==
    /\ t.c.stcr = q.c.stcr /\ ("SCRF" \in t.c.cond <=> "SCRF" \in q.c.cond)
    /\ t.h.moved = <<>>
    /\ \/ /\ Ours(t) /\ t.c.ptcr = q.c.ptcr /\ t.c.bcnt = q.c.bcnt /\ "CMD" \notin t.c.cond
          /\ Accounts(t, "told")
       \/ "PCRF" \notin t.c.cond /\ "CMD" \in t.c.cond /\ Failed(t.c)

\* The drive's DRY bit apart, nothing differs.
Alike(u, t) ==
    /\ DOMAIN t = {"c", "d", "armed", "x", "h"} /\ DOMAIN t.d = DFields
    /\ t.c = u.c /\ t.armed = u.armed /\ t.x = u.x /\ t.h = u.h
    /\ \A f \in DFields \ {"dry"} : t.d[f] = u.d[f]

\* A transfer whose first piece is with the subprocess is carried, and in its place.
LEMMA BeginsGood ==
    ASSUME NEW q, NEW cmd, Primed(q, cmd), NEW u, Begins(q, cmd, u), NEW t, Alike(u, t)
    PROVE  Good(t, "told") /\ Sent(q, t) /\ (Asks(q.c) => Asks(t.c)) /\ Launched(q, t)
<1>1. Kept(q, u) /\ Away(u) BY DEF Begins
<1>2. u.x.scnt \in 0..TotSecs /\ u.x.daddr \in 0..TotSecs
  <2>1. /\ u.x.scnt \in Nat /\ u.x.daddr = u.d.blkadr /\ u.d.blkadr \in 0..TotSecs
        /\ u.d.blkadr + u.x.scnt <= TotSecs
    BY <1>1 DEF Away, Space
  <2> QED BY <2>1, DriveAssumption
<1>3. u.x.cmd \in {"READ", "WRITE", "RDDMA", "WRDMA"} BY DEF Begins, Kind, Primed, Xfers
<1>4. Types(u)
  <2>1. Types(q) /\ u.d.st = "BUSY" /\ u.d.scmd \in Xfers BY DEF Begins, Primed
  <2>2. u.d.st \in {"READY", "BUSY", q.d.st} /\ u.d.scmd \in Xfers \cup {"none", q.d.scmd}
        /\ u.x.cmd \in {"none", "READ", "WRITE", "RDDMA", "WRDMA", q.x.cmd}
    BY <1>3, <2>1
  <2> QED BY <1>1, <1>2, <2>1, <2>2, KeptTypes
<1>5. /\ t.c = u.c /\ t.x = u.x /\ t.h = u.h /\ t.armed = FALSE
      /\ t.d.go = TRUE /\ t.d.scmd = cmd /\ t.d.st = "BUSY" /\ t.d.begun = TRUE
      /\ t.d.blkadr = q.d.adr /\ t.d.mol = u.d.mol
  BY <1>1 DEF Alike, Begins, Kept, Primed, DFields
<1>6. Types(t)
  <2>1. Parts(t) BY <1>4 DEF Alike, Types, Parts, DFields
  <2> QED BY <1>4, <1>5, <2>1 DEF Alike, Types, DFields
<1>7. Away(t) BY <1>1, <1>5 DEF Alike, Away, Space, Fits, Whole, DFields
<1>8. Ours(t) /\ t.c.ptcr = q.c.ptcr BY <1>1, <1>5 DEF Begins, Kept, SameRegs, Primed, Ours
<1>9. Carried(t)
  <2>1. t.x.cmd \in Kind(cmd) BY <1>5 DEF Begins
  <2>2. cmd # "MOUNT" /\ t.c.ptcr.cmd = cmd BY <1>8 DEF Primed, Xfers
  <2> QED BY <1>5, <1>7, <1>8, <2>1, <2>2 DEF Carried
<1>10. InPlace(t, "told")
  <2>1. /\ t.h.moved = <<>> /\ t.h.from = q.d.adr /\ q.d.adr \in Nat
    BY <1>1, <1>5 DEF Kept, Primed, Types, Parts
  <2>2. Placed(t.h) BY <2>1 DEF Placed
  <2>3. t.h.from * NWds + Len(t.h.moved) = t.d.blkadr * NWds
    <3>1. t.h.from * NWds \in Int BY <2>1, DriveAssumption
    <3> QED BY <2>1, <3>1, <1>5
  <2>4. cmd = "WRT" => Len(t.x.buf) = t.x.scnt * NWds BY <1>5 DEF Begins
  <2> QED BY <1>5, <2>2, <2>3, <2>4 DEF InPlace
<1>11. t.h.panic = FALSE BY <1>1, <1>5 DEF Kept, Primed
<1>12. Sent(q, t)
  <2>1. t.x.cmd # "none" BY <1>3, <1>5
  <2> QED BY <1>5, <2>1 DEF Sent, Primed
<1>13. Accounts(t, "told")
  <2>1. /\ t.d.blkwds = u.d.blkwds /\ t.d.direct = u.d.direct /\ t.c.wcnt = u.c.wcnt
        /\ t.x.buf = u.x.buf /\ t.h.taken = u.h.taken
    BY <1>5 DEF Alike, DFields
  <2>2. u.h.taken + u.d.blkwds = 0 + q.c.bcnt * NWds /\ Continues(u, 0) /\ q.c.bcnt = t.c.ptcr.blocks
    BY <1>8 DEF Begins, Primed
  <2>3. q.c.bcnt * NWds \in Int /\ 0 + q.c.bcnt * NWds = q.c.bcnt * NWds
    <3>1. q.c.bcnt \in Int BY DEF Primed
    <3> QED BY <3>1, DriveAssumption
  <2>4. t.h.taken + t.d.blkwds = SizeOf(t.c.ptcr) BY <2>1, <2>2, <2>3 DEF SizeOf
  <2>5. t.h.moved = <<>> /\ Len(t.h.moved) = 0 BY <1>1, <1>5 DEF Kept, Primed
  <2>6. u.d.scmd = t.d.scmd BY <1>5 DEF Begins
  <2>7. Continues(t, 0)
    <3>1. CASE cmd = "WRT"
      <4>1. Filled(u, 0) BY <2>2, <2>6, <1>5, <3>1 DEF Continues
      <4>2. Filled(t, 0) BY <4>1, <2>1 DEF Filled, Short
      <4> QED BY <4>2, <3>1, <1>5 DEF Continues
    <3>2. CASE cmd # "WRT" BY <2>1, <2>2, <2>6, <1>5, <3>2 DEF Continues
    <3> QED BY <3>1, <3>2
  <2>8. Straight(t.h.moved) BY <2>5 DEF Straight
  <2> QED BY <1>5, <2>4, <2>5, <2>7, <2>8 DEF Accounts
<1>14. Launched(q, t)
  <2>1. /\ t.c.stcr = q.c.stcr /\ ("SCRF" \in t.c.cond <=> "SCRF" \in q.c.cond)
        /\ t.c.bcnt = q.c.bcnt
    BY <1>1, <1>5 DEF Kept, SameRegs
  <2>2. t.h.moved = <<>> /\ "CMD" \notin t.c.cond BY <1>1, <1>5 DEF Kept, Primed, Begins
  <2> QED BY <1>8, <1>13, <2>1, <2>2 DEF Launched
<1> QED BY <1>5, <1>6, <1>9, <1>10, <1>11, <1>12, <1>14 DEF Good, Begins

\* A transfer that ended before its first piece leaves all at rest.
LEMMA StoppedGood ==
    ASSUME NEW q, NEW cmd, Primed(q, cmd), NEW u, Stopped(q, u)
    PROVE  Good(GoOff(u), "told") /\ Sent(q, GoOff(u)) /\ Asks(GoOff(u).c) /\ Launched(q, GoOff(u))
<1> DEFINE t == GoOff(u)
<1>1. Kept(q, u) /\ u.x = q.x /\ u.d.st = q.d.st /\ u.d.scmd \in {q.d.scmd} \cup Xfers
  BY DEF Stopped
<1>2. Types(u)
  <2>1. Types(q) /\ q.x.scnt \in 0..TotSecs /\ q.x.daddr \in 0..TotSecs BY DEF Primed, Types
  <2>2. /\ u.d.st \in {"READY", "BUSY", q.d.st} /\ u.d.scmd \in Xfers \cup {"none", q.d.scmd}
        /\ u.x.cmd \in {"none", "READ", "WRITE", "RDDMA", "WRDMA", q.x.cmd}
        /\ u.x.scnt \in 0..TotSecs /\ u.x.daddr \in 0..TotSecs
    BY <1>1, <2>1
  <2> QED BY <1>1, <2>1, <2>2, KeptTypes
<1>3. /\ DOMAIN t = {"c", "d", "armed", "x", "h"} /\ DOMAIN t.d = DFields
      /\ t.c = u.c /\ t.armed = u.armed /\ t.x = u.x /\ t.h = u.h
      /\ t.d.go = FALSE /\ t.d.go \in BOOLEAN
      /\ \A f \in DFields \ {"go"} : t.d[f] = u.d[f]
  BY <1>2 DEF Types, Parts, GoOff, DFields
<1> HIDE DEF t
<1>4. Types(t)
  <2>1. Parts(t) BY <1>2, <1>3 DEF Types, Parts, DFields
  <2> QED BY <1>2, <1>3, <2>1 DEF Types, DFields
<1>5. ~Ours(t) BY <1>3 DEF Stopped, Ours
<1>6. Resting(t)
  <2>1. t.armed = FALSE /\ t.x.cmd = "none" BY <1>1, <1>3 DEF Kept, Primed
  <2>2. t.d.st # "BUSY" /\ t.d.scmd # "MOUNT" BY <1>1, <1>3 DEF Primed, DFields, Xfers
  <2> QED BY <1>3, <1>5, <2>1, <2>2 DEF Resting
<1>7. t.h.panic = FALSE /\ Placed(t.h)
  <2>1. t.h.panic = FALSE /\ t.h.moved = <<>> BY <1>1, <1>3 DEF Kept, Primed
  <2> QED BY <2>1 DEF Placed
<1>8. Sent(q, t) BY <1>1, <1>3 DEF Sent, DFields
<1>9. Asks(t.c) BY <1>3 DEF Stopped
<1>10. Launched(q, t)
  <2>1. /\ t.c.stcr = q.c.stcr /\ ("SCRF" \in t.c.cond <=> "SCRF" \in q.c.cond)
        /\ t.h.moved = <<>>
    BY <1>1, <1>3 DEF Kept, SameRegs, Primed
  <2> QED BY <1>3, <2>1 DEF Launched, Stopped
<1> QED BY <1>4, <1>6, <1>7, <1>8, <1>9, <1>10, RestGood DEF t

\* What rp_cmdxct and rpxx_timeout do with a transfer that may begin.
LEMMA StartGood ==
    ASSUME NEW q, NEW cmd, Primed(q, cmd), NEW r, Start(q, cmd, r),
           NEW t, t = IF r.ok THEN [r.s EXCEPT !.d.dry = FALSE] ELSE GoOff(r.s)
    PROVE  Good(t, "told") /\ Sent(q, t) /\ (Asks(q.c) => Asks(t.c)) /\ Launched(q, t)
<1>1. ASSUME NEW u, r = GoesOn(u), Begins(q, cmd, u)
      PROVE  Good(t, "told") /\ Sent(q, t) /\ (Asks(q.c) => Asks(t.c)) /\ Launched(q, t)
  <2> DEFINE v == [u EXCEPT !.d.dry = FALSE]
  <2>1. t = v BY <1>1 DEF GoesOn
  <2>2. Alike(u, v) BY <1>1 DEF Begins, Kept, Parts, Alike, DFields
  <2> HIDE DEF v
  <2>3. Good(v, "told") /\ Sent(q, v) /\ (Asks(q.c) => Asks(v.c)) /\ Launched(q, v)
    BY <1>1, <2>2, BeginsGood
  <2> QED BY <2>1, <2>3
<1>2. ASSUME NEW u, r = Fails(u), Stopped(q, u)
      PROVE  Good(t, "told") /\ Sent(q, t) /\ (Asks(q.c) => Asks(t.c)) /\ Launched(q, t)
  <2>1. t = GoOff(u) BY <1>2 DEF Fails
  <2>2. Good(GoOff(u), "told") /\ Sent(q, GoOff(u)) /\ Asks(GoOff(u).c) /\ Launched(q, GoOff(u))
    BY <1>2, StoppedGood
  <2> QED BY <2>1, <2>2
<1> QED BY <1>1, <1>2 DEF Start

\* A transfer command given to a drive that was primed for it: begun, ended at once, or armed.
LEMMA CmdXfer ==
    ASSUME NEW q, NEW cmd, Primed(q, cmd), q.d.serr = FALSE,
           NEW t, t = Cmdxct(q, cmd)
    PROVE  Good(t, "told") /\ Sent(q, t) /\ (Asks(q.c) => Asks(t.c)) /\ Launched(q, t)
<1>1. /\ Types(q) /\ Parts(q) /\ cmd \in Xfers /\ q.c.bcnt \in Nat
      /\ q.d.dma \in BOOLEAN /\ q.d.dly \in BOOLEAN /\ q.d.mol \in BOOLEAN
  BY DEF Primed, Types, Parts, Regs
<1>7. q.c.bcnt \in Nat \ {0} /\ q.h.taken = 0 BY DEF Primed
<1>2. cmd # "CLR" /\ cmd # "NOP" /\ cmd # "RDP" /\ cmd # "REC" /\ cmd # "SEK"
  BY <1>1 DEF Xfers
<1>3. CASE ~q.d.mol
  <2> DEFINE b == Iobeg(q.c, cmd = "WRT").c
             e == Drerr(b)
             dead == [q EXCEPT !.c = e]
             v == Serr(GoOff(dead))
             u == RpAttn(v)
  <2>1. t = u BY <1>1, <1>2, <1>3 DEF Cmdxct
  <2>2. Called(q.c, b) /\ b.attn = q.c.attn BY <1>1, IobegFact DEF Parts
  <2> HIDE DEF b
  <2>3. /\ Ctl(e) /\ SameRegs(b, e) /\ Asks(e) /\ "PCRF" \notin e.cond /\ "CMD" \in e.cond
        /\ Failed(e)
        /\ \A f \in CFields \ {"req", "cond"} : e[f] = b[f]
    BY <2>2, DrerrFact DEF Called
  <2> HIDE DEF e
  <2>4. /\ DOMAIN v = {"c", "d", "armed", "x", "h"} /\ DOMAIN v.d = DFields
        /\ v.c = e /\ v.armed = q.armed /\ v.x = q.x /\ v.h = q.h
        /\ v.d.go = FALSE /\ v.d.go \in BOOLEAN /\ v.d.serr \in BOOLEAN
        /\ \A f \in DFields \ {"go", "serr"} : v.d[f] = q.d[f]
    BY <1>1 DEF Parts, Serr, GoOff, DFields
  <2> HIDE DEF v
  <2>5. Parts(v)
    <3>1. e.attn = q.c.attn BY <2>2, <2>3 DEF CFields
    <3> QED BY <1>1, <2>3, <2>4, <3>1 DEF Parts, DFields
  <2>6. /\ Parts(u) /\ Called(v.c, u.c) /\ u.c.cond \ {"MBA"} = v.c.cond \ {"MBA"}
        /\ u.armed = v.armed /\ u.x = v.x /\ u.h = v.h
        /\ \A f \in DFields \ {"atn"} : u.d[f] = v.d[f]
    BY <2>5, AttnState
  <2> HIDE DEF u
  <2>7. /\ SameRegs(q.c, u.c) /\ Asks(u.c) /\ "PCRF" \notin u.c.cond /\ "CMD" \in u.c.cond
        /\ Failed(u.c)
    BY <2>2, <2>3, <2>4, <2>6 DEF Called, SameRegs, Failed, Errors
  <2>8. Regs(u.c) BY <1>1, <2>7 DEF SameRegs, Regs, Types
  <2>9. /\ u.d.go = FALSE /\ u.armed = FALSE /\ u.x = q.x /\ u.h = q.h
        /\ \A f \in {"st", "scmd", "adr", "dma", "dly"} : u.d[f] = q.d[f]
    BY <2>4, <2>6 DEF DFields, Primed
  <2>10. Types(u) BY <1>1, <2>6, <2>8, <2>9 DEF Types
  <2>11. ~Ours(u) BY <2>7 DEF Ours
  <2>12. Resting(u) /\ Sent(q, u) BY <2>9, <2>11 DEF Resting, Primed, Sent
  <2>13. u.h.panic = FALSE /\ Placed(u.h)
    <3>1. u.h.panic = FALSE /\ u.h.moved = <<>> BY <2>9 DEF Primed
    <3> QED BY <3>1 DEF Placed
  <2>14. Launched(q, u)
    <3>1. u.h.moved = <<>> BY <2>9 DEF Primed
    <3> QED BY <2>7, <3>1 DEF Launched, SameRegs
  <2> QED BY <2>1, <2>7, <2>10, <2>12, <2>13, <2>14, RestGood
<1>4. q.d.mol => q.d.st = "READY" BY <1>1 DEF Primed, Types, Parts
<1>5. CASE q.d.mol /\ q.d.dly
  <2> DEFINE u == [q EXCEPT !.d.scmd = cmd, !.armed = TRUE, !.d.dry = FALSE]
  <2>1. t = u BY <1>1, <1>2, <1>5 DEF Cmdxct
  <2>2. /\ DOMAIN u = {"c", "d", "armed", "x", "h"} /\ DOMAIN u.d = DFields
        /\ u.c = q.c /\ u.armed = TRUE /\ u.armed \in BOOLEAN /\ u.x = q.x /\ u.h = q.h
        /\ \A f \in DFields \ {"scmd", "dry"} : u.d[f] = q.d[f]
        /\ u.d.scmd = cmd
    BY <1>1 DEF Parts, DFields
  <2> HIDE DEF u
  <2>3. Parts(u) BY <1>1, <2>2 DEF Parts, DFields
  <2>4. Types(u) BY <1>1, <2>2, <2>3 DEF Types, DFields
  <2>5. /\ u.d.go = TRUE /\ u.d.st = "READY" /\ u.x.cmd = "none" /\ u.h.panic = FALSE
        /\ u.h.moved = <<>> /\ u.h.from = u.d.adr
    BY <1>4, <1>5, <2>2 DEF Primed, DFields
  <2>6. Carried(u)
    <3>1. Ours(u) /\ u.c.ptcr.cmd = cmd BY <2>2 DEF Primed, Ours
    <3> QED BY <1>1, <2>2, <2>5, <3>1 DEF Carried, Xfers
  <2>7. InPlace(u, "told")
    <3>1. Placed(u.h) BY <2>5 DEF Placed
    <3> QED BY <2>2, <2>5, <3>1 DEF InPlace
  <2>8. Sent(q, u) BY <2>2 DEF Sent, DFields
  <2>9. Launched(q, u)
    <3>1. Accounts(u, "told") BY <1>7, <2>2 DEF Accounts
    <3>2. Ours(u) /\ "CMD" \notin u.c.cond BY <2>2 DEF Primed, Ours
    <3> QED BY <2>2, <2>5, <3>1, <3>2 DEF Launched
  <2> QED BY <2>1, <2>2, <2>4, <2>5, <2>6, <2>7, <2>8, <2>9 DEF Good
<1>6. CASE q.d.mol /\ ~q.d.dly
  <2> DEFINE w == cmd = "WRT"
             r == Ioxfr(q, w)
             u == IF r.ok THEN [r.s EXCEPT !.d.dry = FALSE] ELSE GoOff(r.s)
  <2>1. t = u
    <3> HIDE DEF r
    <3> QED BY <1>1, <1>2, <1>6 DEF Cmdxct, r
  <2>2. Start(q, IF w THEN "WRT" ELSE "RED", r)
    <3>1. q.d.st = "READY" /\ w \in BOOLEAN BY <1>4, <1>6
    <3> HIDE DEF w
    <3> QED BY <1>1, <1>7, <3>1, IoxfrFact
  <2>3. (IF w THEN "WRT" ELSE "RED") = cmd BY <1>1 DEF Xfers
  <2> HIDE DEF r
  <2>4. Start(q, cmd, r) BY <2>2, <2>3
  <2> QED BY <2>1, <2>4, StartGood
<1> QED BY <1>1, <1>3, <1>5, <1>6

\* rpxx_timeout.
LEMMA TimeoutGood ==
    ASSUME NEW s, NEW e, Good(s, e), Books(s, e), s.armed = TRUE
    PROVE  Good(RpTimeout(s), e) /\ Sent(s, RpTimeout(s))
           /\ (Asks(s.c) => Asks(RpTimeout(s).c)) /\ Launched(s, RpTimeout(s))
<1> DEFINE q == [s EXCEPT !.armed = FALSE]
           cmd == s.d.scmd
           w == cmd = "WRT"
           r == Ioxfr(q, w)
           t == RpTimeout(s)
<1>1. /\ s.d.go = TRUE /\ s.d.st = "READY" /\ Ours(s) /\ s.c.ptcr.cmd = cmd
      /\ s.x.cmd = "none" /\ e = "told" /\ s.h.moved = <<>> /\ s.h.from = s.d.adr
      /\ s.h.panic = FALSE /\ cmd # "MOUNT" /\ Types(s)
  BY DEF Good, Carried, Types, Parts, InPlace
<1>2. cmd \in Xfers
  <2>1. s.c.ptcr \in Request \cup {NoReq} /\ s.c.ptcr.drv = "rp" BY <1>1 DEF Types, Regs, Ours
  <2>2. s.c.ptcr \in Request BY <2>1 DEF NoReq
  <2> QED BY <1>1, <2>2, MonitorAssumption
<1>3. t = IF r.ok THEN r.s ELSE GoOff(r.s) BY <1>2 DEF RpTimeout
<1>4. /\ DOMAIN q = {"c", "d", "armed", "x", "h"} /\ q.c = s.c /\ q.d = s.d /\ q.x = s.x
      /\ q.h = s.h /\ q.armed = FALSE /\ q.armed \in BOOLEAN
  BY <1>1 DEF Types, Parts
<1> HIDE DEF q, t
<1>5. Types(q)
  <2>1. Parts(q) BY <1>1, <1>4 DEF Types, Parts
  <2> QED BY <1>1, <1>4, <2>1 DEF Types
<1>11. s.h.taken = 0 /\ s.c.bcnt = s.c.ptcr.blocks /\ s.c.bcnt \in Nat \ {0} /\ "CMD" \notin s.c.cond
  <2>1. s.h.taken = 0 /\ s.c.bcnt = s.c.ptcr.blocks /\ "CMD" \notin s.c.cond
    BY <1>1 DEF Books, Accounts
  <2>2. s.c.ptcr \in Request \cup {NoReq} /\ s.c.ptcr.drv = "rp" BY <1>1 DEF Types, Regs, Ours
  <2>3. s.c.ptcr \in Request BY <2>2 DEF NoReq
  <2>4. s.c.ptcr.blocks \in Nat \ {0} BY <2>3, MonitorAssumption
  <2> QED BY <2>1, <2>4
<1>6. Primed(q, cmd) BY <1>1, <1>2, <1>4, <1>5, <1>11 DEF Primed, Ours
<1>7. Start(q, cmd, r)
  <2>1. Parts(q) /\ q.d.st = "READY" /\ q.c.bcnt \in Nat \ {0} /\ q.d.dma \in BOOLEAN
    BY <1>1, <1>4, <1>5, <1>11 DEF Types, Regs
  <2>2. w \in BOOLEAN OBVIOUS
  <2>3. (IF w THEN "WRT" ELSE "RED") = cmd BY <1>2 DEF Xfers
  <2> HIDE DEF w, cmd
  <2>4. Start(q, IF w THEN "WRT" ELSE "RED", Ioxfr(q, w)) BY <2>1, <2>2, IoxfrFact
  <2> QED BY <2>3, <2>4
<1> HIDE DEF r
<1>8. ASSUME NEW u, r = GoesOn(u), Begins(q, cmd, u)
      PROVE  Good(t, "told") /\ Sent(q, t) /\ (Asks(q.c) => Asks(t.c)) /\ Launched(q, t)
  <2>1. t = u BY <1>3, <1>8 DEF GoesOn
  <2>2. Alike(u, u) BY <1>8 DEF Begins, Kept, Parts, Alike
  <2> HIDE DEF cmd
  <2>3. Good(u, "told") /\ Sent(q, u) /\ (Asks(q.c) => Asks(u.c)) /\ Launched(q, u)
    BY <1>6, <1>8, <2>2, BeginsGood
  <2> QED BY <2>1, <2>3
<1>9. ASSUME NEW u, r = Fails(u), Stopped(q, u)
      PROVE  Good(t, "told") /\ Sent(q, t) /\ (Asks(q.c) => Asks(t.c)) /\ Launched(q, t)
  <2>1. t = GoOff(u) BY <1>3, <1>9 DEF Fails
  <2> HIDE DEF cmd
  <2>2. Good(GoOff(u), "told") /\ Sent(q, GoOff(u)) /\ Asks(GoOff(u).c) /\ Launched(q, GoOff(u))
    BY <1>6, <1>9, StoppedGood
  <2> QED BY <2>1, <2>2
<1>10. Good(t, "told") /\ Sent(q, t) /\ (Asks(q.c) => Asks(t.c)) /\ Launched(q, t)
  BY <1>7, <1>8, <1>9 DEF Start
<1>12. Launched(s, t) BY <1>4, <1>10 DEF Launched
<1> QED BY <1>1, <1>4, <1>10, <1>12 DEF Sent, t

\* The books after a transfer has been launched, or refused by the drive.
LEMMA LaunchedBooks ==
    ASSUME NEW q, NEW t, Launched(q, t), q.c.bcnt = q.c.ptcr.blocks,
           "SCRF" \in q.c.cond => q.c.stcr \in Request
    PROVE  Books(t, "told")
BY DEF Launched, Books, Ours

\* What waited has begun, or has been refused with an error.
Answered(s, t) ==
    /\ "SCRF" \notin t.c.cond /\ t.h.moved \in {s.h.moved, <<>>} /\ Books(t, "told")
    /\ \/ Act(t) = s.c.stcr /\ "CMD" \notin t.c.cond /\ t.h.moved = <<>>
       \/ Act(t) = NoReq /\ "CMD" \in t.c.cond /\ Failed(t.c)

\* The controller's registers when what waits becomes the transfer under way.
HandedOver(k, e) ==
    /\ DOMAIN e = CFields /\ e.cond = (k.cond \ {"SCRF"}) \cup {"PCRF"}
    /\ e.ptcr = k.stcr /\ e.stcr = NoReq /\ e.sbar = 0 /\ e.sbarf = FALSE
    /\ e.sbarf \in BOOLEAN
    /\ \A f \in {"req", "pilev", "draes", "attn", "bcnt", "list"} : e[f] = k[f]
    /\ e.wcnt \in Nat

\* The transfer registers handed over leave a controller.
LEMMA HandOverFact ==
    ASSUME NEW k, Ctl(k), Regs(k), NEW e, HandedOver(k, e)
    PROVE  Ctl(e) /\ Regs(e) /\ (Asks(k) => Asks(e))
<1>1. /\ DOMAIN k = CFields /\ k.cond \subseteq CondBits /\ k.req \in BOOLEAN
      /\ k.pilev \in BOOLEAN /\ k.draes \in BOOLEAN /\ k.attn \in BOOLEAN
      /\ k.list \in Seq(CcwWord) /\ (k.attn <=> "MBA" \in k.cond)
  BY DEF Ctl
<1>2. /\ e.req = k.req /\ e.pilev = k.pilev /\ e.draes = k.draes /\ e.attn = k.attn
      /\ e.bcnt = k.bcnt /\ e.list = k.list /\ e.wcnt \in Nat /\ DOMAIN e = CFields
      /\ e.cond = (k.cond \ {"SCRF"}) \cup {"PCRF"}
      /\ e.ptcr = k.stcr /\ e.stcr = NoReq /\ e.sbar = 0 /\ e.sbarf \in BOOLEAN
  BY DEF HandedOver
<1>3. Ctl(e)
  <2>1. e.cond \subseteq CondBits /\ ("MBA" \in e.cond <=> "MBA" \in k.cond)
    BY <1>1, <1>2 DEF CondBits
  <2> QED BY <1>1, <1>2, <2>1 DEF Ctl
<1>4. Regs(e)
  <2>1. k.stcr \in Request \cup {NoReq} /\ k.bcnt \in Nat BY DEF Regs
  <2>2. NoReq \in Request \cup {NoReq} /\ 0 \in Nat /\ 0 \in Addresses \cup {0} OBVIOUS
  <2>3. e.ptcr = k.stcr /\ e.stcr = NoReq /\ e.sbar = 0 /\ e.sbarf \in BOOLEAN /\ e.bcnt = k.bcnt
    BY <1>2
  <2> QED BY <2>1, <2>2, <2>3 DEF Regs
<1>5. Asks(k) => Asks(e) BY <1>1, <1>2 DEF Asks, Interrupting
<1> QED BY <1>3, <1>4, <1>5

\* rh_xfrbeg, nothing being under way.
LEMMA XfrbegFact ==
    ASSUME NEW s, NEW e, Good(s, e), "PCRF" \notin s.c.cond, "CMD" \notin s.c.cond,
           s.d.serr = FALSE, s.d.scmd # "MOUNT"
    PROVE  Good(Xfrbeg(s), "told") /\ Sent(s, Xfrbeg(s)) /\ (Asks(s.c) => Asks(Xfrbeg(s).c))
           /\ Answered(s, Xfrbeg(s)) /\ e = "told"
<1> DEFINE r == s.c.stcr
           k == [s EXCEPT !.c.cond = (@ \ {"SCRF"}) \cup {"PCRF"}, !.c.ptcr = r,
                          !.c.stcr = NoReq, !.c.sbar = 0, !.c.sbarf = FALSE]
           m == k.c
           n == IF r.rclp THEN RhdcClear(m) ELSE m
           l == IF r.rclp THEN [k EXCEPT !.c = RhdcClear(@)] ELSE k
           a == IF s.c.sbarf THEN Wrreg(l, "ADR", s.c.sbar).s ELSE l
           b == [a EXCEPT !.c.bcnt = r.blocks, !.h = Fresh(s)]
           p == RhPi([l.c EXCEPT !.cond = @ \cup {"DR", "CMD"}])
           none == [l EXCEPT !.c = p]
           t == Xfrbeg(s)
<1>1. t = IF r.drv = "none" THEN none ELSE Wrreg(b, "CSR", r.cmd).s BY DEF Xfrbeg
<1> HIDE DEF t
<1>2. /\ Types(s) /\ Parts(s) /\ Ctl(s.c) /\ Regs(s.c) /\ DOMAIN s.c = CFields
      /\ s.c.wcnt \in Nat
  BY DEF Good, Types, Parts, Ctl
<1>3. s.d.go = FALSE /\ ~Ours(s)
  <2>1. ~Ours(s) BY DEF Ours
  <2> QED BY <1>2, <2>1 DEF Good, Carried, Parts
<1>4. Resting(s) /\ Placed(s.h) /\ e = "told" BY <1>3, GoodRests
<1>5. HandedOver(s.c, m) BY <1>2 DEF Parts, HandedOver, CFields
<1>6. /\ DOMAIN k = {"c", "d", "armed", "x", "h"} /\ k.d = s.d /\ k.armed = s.armed
      /\ k.x = s.x /\ k.h = s.h /\ k.c = m
  BY <1>2 DEF Parts
<1> HIDE DEF m, k
<1>7. HandedOver(s.c, n)
  <2>1. /\ DOMAIN m = CFields
        /\ m.cond = (s.c.cond \ {"SCRF"}) \cup {"PCRF"}
        /\ m.ptcr = s.c.stcr /\ m.stcr = NoReq /\ m.sbar = 0 /\ m.sbarf = FALSE
        /\ m.sbarf \in BOOLEAN
        /\ \A f \in {"req", "pilev", "draes", "attn", "bcnt", "list"} : m[f] = s.c[f]
        /\ m.wcnt \in Nat
    BY <1>5 DEF HandedOver
  <2> HIDE DEF r
  <2>2. HandedOver(s.c, RhdcClear(m)) BY <2>1 DEF HandedOver, CFields, RhdcClear
  <2> QED BY <1>5, <2>2
<1>8. /\ DOMAIN l = {"c", "d", "armed", "x", "h"} /\ l.d = s.d /\ l.armed = s.armed
      /\ l.x = s.x /\ l.h = s.h /\ l.c = n
  <2> HIDE DEF r
  <2> QED BY <1>6
<1> HIDE DEF l, n
<1>9. Ctl(n) /\ Regs(n) /\ (Asks(s.c) => Asks(n)) BY <1>2, <1>7, HandOverFact
<1>10. /\ n.cond = (s.c.cond \ {"SCRF"}) \cup {"PCRF"} /\ n.ptcr = r /\ n.attn = s.c.attn
       /\ DOMAIN n = CFields
  BY <1>7 DEF HandedOver
<1>11. r \in Request \cup {NoReq} BY <1>2 DEF Regs
<1> HIDE DEF r
<1>12. CASE r.drv = "none"
  <2> DEFINE w == [n EXCEPT !.cond = @ \cup {"DR", "CMD"}]
             v == RhPi(w)
  <2>1. Rebit(n, w) BY <1>9, <1>10 DEF Rebit, Ctl, CFields, CondBits
  <2>2. w.cond = n.cond \cup {"DR", "CMD"} BY <1>10 DEF CFields
  <2> HIDE DEF w
  <2>3. /\ Ctl(v) /\ SameRegs(n, v) /\ Asks(v) /\ v.cond = w.cond
        /\ \A f \in CFields \ {"req", "cond"} : v[f] = n[f]
    <3>1. "CMD" \in w.cond BY <2>2
    <3> QED BY <1>9, <2>1, <3>1, RhPiFact
  <2>4. t.c = v /\ CtlOnly(s, t)
    <3>1. t = none BY <1>1, <1>12
    <3>2. p = v BY <1>8 DEF v, w
    <3> HIDE DEF p, v
    <3> QED BY <1>8, <3>1, <3>2 DEF CtlOnly
  <2> HIDE DEF v
  <2>5. t.c.attn = s.c.attn BY <1>10, <2>3, <2>4 DEF CFields
  <2>6. Regs(t.c) BY <1>9, <2>3, <2>4 DEF Regs, SameRegs
  <2>7. t.c.ptcr = r BY <1>10, <2>3, <2>4 DEF SameRegs
  <2>8. Ours(t) <=> Ours(s) BY <1>3, <1>12, <2>7 DEF Ours
  <2>9. Ours(s) => t.c.ptcr = s.c.ptcr /\ t.c.wcnt = s.c.wcnt BY <1>3
  <2>10. Ctl(t.c) BY <2>3, <2>4
  <2>11. Good(t, e) /\ Sent(s, t) BY <2>4, <2>5, <2>6, <2>8, <2>9, <2>10, CtlChange
  <2>12. Answered(s, t)
    <3>1. /\ "SCRF" \notin t.c.cond /\ "CMD" \in t.c.cond /\ "DR" \in t.c.cond
          /\ t.h = s.h
      BY <1>10, <2>2, <2>3, <2>4 DEF CtlOnly
    <3>2. ~Ours(t) /\ Failed(t.c) BY <1>12, <2>7, <3>1 DEF Ours, Failed, Errors
    <3>3. Books(t, "told") BY <3>1, <3>2 DEF Books
    <3> QED BY <3>1, <3>2, <3>3 DEF Answered, Act
  <2> QED BY <1>4, <2>3, <2>4, <2>11, <2>12 DEF t
<1>13. CASE r.drv # "none"
  <2>1. r \in Request /\ r.drv = "rp" /\ r.cmd \in Xfers /\ r.blocks \in Nat \ {0}
    <3>1. r \in Request BY <1>11, <1>13 DEF NoReq
    <3> QED BY <1>13, <3>1, MonitorAssumption
  <2> DEFINE adr == IF s.c.sbarf THEN s.c.sbar ELSE s.d.adr
  <2>2. /\ DOMAIN a = {"c", "d", "armed", "x", "h"} /\ a.armed = s.armed
        /\ a.x = s.x /\ a.h = s.h /\ a.c = n /\ DOMAIN a.d = DFields
        /\ \A f \in DFields \ {"adr"} : a.d[f] = s.d[f]
        /\ a.d.adr = adr
    <3>1. CASE s.c.sbarf
      <4>1. a = [l EXCEPT !.d.adr = s.c.sbar] BY <1>3, <1>8, <3>1 DEF Wrreg, GoesOn
      <4> QED BY <1>2, <1>8, <3>1, <4>1 DEF Parts, DFields
    <3>2. CASE ~s.c.sbarf BY <1>2, <1>8, <3>2 DEF Parts
    <3> QED BY <3>1, <3>2
  <2> HIDE DEF a
  <2>3. adr \in Nat /\ adr \in 0..TotSecs \cup Addresses
    BY <1>2, DriveAssumption DEF Regs, Types, Parts
  <2> DEFINE f == Fresh(s)
  <2>4. /\ DOMAIN f = HFields /\ f.from = adr /\ f.taken = 0 /\ f.moved = <<>>
        /\ f.panic = s.h.panic
    BY DEF Fresh, HFields
  <2> HIDE DEF adr, f
  <2>5. /\ DOMAIN b = {"c", "d", "armed", "x", "h"} /\ b.armed = s.armed
        /\ b.x = s.x /\ b.h = f /\ b.d = a.d
        /\ DOMAIN b.c = CFields /\ b.c.bcnt = r.blocks
        /\ \A g \in CFields \ {"bcnt"} : b.c[g] = n[g]
    BY <1>10, <2>2 DEF f, CFields
  <2> HIDE DEF b
  <2> DEFINE q == [b EXCEPT !.d.go = TRUE]
             u == Cmdxct(q, r.cmd)
  <2>6. t = u
    <3>1. b.d.go = FALSE BY <1>3, <2>2, <2>5 DEF DFields
    <3>2. Wrreg(b, "CSR", r.cmd) = GoesOn(u) BY <3>1 DEF Wrreg
    <3> HIDE DEF u
    <3> QED BY <1>1, <1>13, <3>2 DEF GoesOn
  <2>7. /\ DOMAIN q = {"c", "d", "armed", "x", "h"} /\ q.armed = FALSE
        /\ q.x = s.x /\ q.h = f /\ q.c = b.c /\ DOMAIN q.d = DFields /\ q.d.go = TRUE
        /\ q.d.adr = adr
        /\ \A g \in DFields \ {"adr", "go"} : q.d[g] = s.d[g]
    BY <1>4, <2>2, <2>5 DEF Resting, DFields
  <2> HIDE DEF q
  <2>8. Ctl(b.c) /\ Regs(b.c) /\ (Asks(s.c) => Asks(b.c))
    <3>1. b.c.cond = n.cond /\ b.c.req = n.req /\ b.c.pilev = n.pilev /\ b.c.draes = n.draes
          /\ b.c.attn = n.attn /\ b.c.wcnt = n.wcnt /\ b.c.list = n.list
          /\ b.c.ptcr = n.ptcr /\ b.c.stcr = n.stcr /\ b.c.sbar = n.sbar
          /\ b.c.sbarf = n.sbarf
      BY <2>5 DEF CFields
    <3>2. Ctl(b.c) BY <1>9, <2>5, <3>1 DEF Ctl
    <3>3. Regs(b.c) BY <1>9, <2>1, <2>5, <3>1 DEF Regs
    <3> QED BY <1>9, <3>1, <3>2, <3>3 DEF Asks, Interrupting
  <2>9. b.c.attn = s.c.attn /\ b.c.ptcr = r /\ b.c.cond = n.cond BY <1>10, <2>5 DEF CFields
  <2>10. Parts(q)
    <3>1. f.panic \in BOOLEAN /\ f.from \in Nat /\ f.taken \in Int /\ f.moved \in Seq(Int \X Int)
      BY <1>2, <2>3, <2>4 DEF Parts
    <3> QED BY <1>2, <2>3, <2>4, <2>7, <2>8, <2>9, <3>1 DEF Parts, DFields
  <2>11. Types(q) BY <1>2, <2>3, <2>7, <2>8, <2>10 DEF Types, DFields
  <2>12. Primed(q, r.cmd)
    <3>1. q.h.panic = FALSE /\ q.h.moved = <<>> /\ q.h.from = q.d.adr
      BY <2>4, <2>7 DEF Good
    <3>2. Ours(q) /\ q.c.ptcr.cmd = r.cmd BY <1>10, <2>1, <2>7, <2>9 DEF Ours
    <3>3. q.d.st # "BUSY" /\ q.d.scmd # "MOUNT" /\ q.x.cmd = "none"
      BY <1>4, <2>7 DEF Resting, DFields
    <3>4. q.h.taken = 0 /\ q.c.bcnt = r.blocks /\ q.c.ptcr = r /\ "CMD" \notin q.c.cond
      BY <1>10, <2>4, <2>5, <2>7, <2>9
    <3> QED BY <2>1, <2>7, <2>11, <3>1, <3>2, <3>3, <3>4 DEF Primed
  <2>13. q.d.serr = FALSE BY <2>7 DEF DFields
  <2>14. Good(u, "told") /\ Sent(q, u) /\ (Asks(q.c) => Asks(u.c)) /\ Launched(q, u)
    BY <2>12, <2>13, CmdXfer
  <2> HIDE DEF u
  <2>15. Sent(s, u)
    <3>1. q.d.st = s.d.st /\ q.x.cmd = s.x.cmd BY <2>7 DEF DFields
    <3> QED BY <2>14, <3>1 DEF Sent
  <2>16. Answered(s, u)
    <3>1. q.c.bcnt = q.c.ptcr.blocks /\ q.c.ptcr = r /\ "SCRF" \notin q.c.cond
      BY <1>10, <2>5, <2>7, <2>9
    <3>2. Books(u, "told") BY <2>14, <3>1, LaunchedBooks
    <3>3. "SCRF" \notin u.c.cond /\ u.h.moved = <<>> BY <2>14, <3>1 DEF Launched
    <3>4. \/ Act(u) = r /\ "CMD" \notin u.c.cond
          \/ Act(u) = NoReq /\ "CMD" \in u.c.cond /\ Failed(u.c)
      BY <2>14, <3>1 DEF Launched, Act, Ours
    <3> QED BY <3>2, <3>3, <3>4 DEF Answered, r
  <2> QED BY <1>4, <2>6, <2>7, <2>8, <2>14, <2>15, <2>16 DEF t
<1> QED BY <1>12, <1>13

-----------------------------------------------------------------------------
(* CONO                                                                    *)

\* Conditions, the interrupt's level and the channel change, not a transfer under way.
Retouched(s, t) ==
    /\ CtlOnly(s, t) /\ DOMAIN t.c = CFields /\ t.c.cond \subseteq CondBits
    /\ "MBA" \in t.c.cond <=> "MBA" \in s.c.cond
    /\ "PCRF" \in t.c.cond => "PCRF" \in s.c.cond
    /\ Ours(s) => "PCRF" \in t.c.cond /\ t.c.wcnt = s.c.wcnt
    /\ "SCRF" \in t.c.cond => "SCRF" \in s.c.cond
    /\ t.c.wcnt \in Nat /\ t.c.req \in BOOLEAN /\ t.c.pilev \in BOOLEAN /\ t.c.sbarf \in BOOLEAN
    /\ \A f \in {"draes", "attn", "ptcr", "stcr", "sbar", "bcnt", "list"} : t.c[f] = s.c[f]

\* A controller retouched in conditions and the like is as good as before.
LEMMA RetouchedGood ==
    ASSUME NEW s, NEW e, Good(s, e), NEW t, Retouched(s, t)
    PROVE  Good(t, e) /\ Sent(s, t) /\ (Ours(t) <=> Ours(s))
<1>1. Ctl(s.c) /\ Regs(s.c) BY DEF Good, Types, Parts
<1>2. /\ t.c.draes = s.c.draes /\ t.c.attn = s.c.attn /\ t.c.ptcr = s.c.ptcr
      /\ t.c.stcr = s.c.stcr /\ t.c.sbar = s.c.sbar /\ t.c.bcnt = s.c.bcnt
      /\ t.c.list = s.c.list
      /\ DOMAIN t.c = CFields /\ t.c.cond \subseteq CondBits
      /\ "MBA" \in t.c.cond <=> "MBA" \in s.c.cond
      /\ t.c.wcnt \in Nat /\ t.c.req \in BOOLEAN /\ t.c.pilev \in BOOLEAN
      /\ t.c.sbarf \in BOOLEAN /\ CtlOnly(s, t)
  BY DEF Retouched
<1>3. Ctl(t.c) BY <1>1, <1>2 DEF Ctl
<1>4. Regs(t.c) BY <1>1, <1>2 DEF Regs
<1>5. Ours(t) <=> Ours(s) BY <1>2 DEF Retouched, Ours
<1>6. Ours(s) => t.c.ptcr = s.c.ptcr /\ t.c.wcnt = s.c.wcnt BY <1>2 DEF Retouched
<1>7. CtlOnly(s, t) /\ t.c.attn = s.c.attn BY <1>2
<1>8. Good(t, e) /\ Sent(s, t) BY <1>3, <1>4, <1>5, <1>6, <1>7, CtlChange
<1> QED BY <1>5, <1>8

\* What has been sent in two steps has been sent.
LEMMA SentOn ==
    ASSUME NEW s, NEW t, NEW u, Sent(s, t), Sent(t, u)
    PROVE  Sent(s, u)
BY DEF Sent

\* One bit of a CONO after another: what waited and still does, waits for the same drive.
Chain(s, e, t) ==
    /\ Good(t, e) /\ Sent(s, t) /\ (Ours(t) => Ours(s))
    /\ "SCRF" \in t.c.cond => "SCRF" \in s.c.cond /\ t.d = s.d

\* One more retouch.
LEMMA ChainOn ==
    ASSUME NEW s, NEW e, NEW t, Chain(s, e, t), NEW u, Retouched(t, u)
    PROVE  Chain(s, e, u)
<1>1. Good(u, e) /\ Sent(t, u) /\ (Ours(u) <=> Ours(t)) BY RetouchedGood DEF Chain
<1>2. Sent(s, u) BY <1>1, SentOn DEF Chain
<1> QED BY <1>1, <1>2 DEF Chain, Retouched, CtlOnly

\* rh_picheck sets the request right, however wrong it was.
LEMMA PicheckFact ==
    ASSUME NEW k, DOMAIN k = CFields, k.req \in BOOLEAN, k.pilev \in BOOLEAN
    PROVE  /\ DOMAIN RhPicheck(k) = CFields /\ RhPicheck(k).req \in BOOLEAN
           /\ \A f \in CFields \ {"req"} : RhPicheck(k)[f] = k[f]
           /\ Asks(RhPicheck(k))
BY DEF RhPicheck, RhPi, Asks, Interrupting, CFields

\* Bits of the conditions turned off.
LEMMA LessFact ==
    ASSUME NEW s, NEW e, Good(s, e), NEW g, "MBA" \notin g, "PCRF" \in g => ~Ours(s),
           NEW t, t = [s EXCEPT !.c.cond = @ \ g]
    PROVE  Retouched(s, t)
<1>1. DOMAIN s = {"c", "d", "armed", "x", "h"} /\ Ctl(s.c) /\ Regs(s.c)
  BY DEF Good, Types, Parts
<1>2. /\ CtlOnly(s, t) /\ DOMAIN t.c = CFields /\ t.c.cond = s.c.cond \ g
      /\ \A f \in CFields \ {"cond"} : t.c[f] = s.c[f]
  BY <1>1 DEF Ctl, CFields, CtlOnly
<1>3. /\ t.c.wcnt = s.c.wcnt /\ t.c.req = s.c.req /\ t.c.pilev = s.c.pilev
      /\ t.c.sbarf = s.c.sbarf
  BY <1>2 DEF CFields
<1>4. Ours(s) => "PCRF" \in s.c.cond BY DEF Ours
<1> QED BY <1>1, <1>2, <1>3, <1>4 DEF Retouched, Ctl, Regs, CFields

\* Nothing done is a retouch.
LEMMA SameFact ==
    ASSUME NEW s, NEW e, Good(s, e)
    PROVE  Retouched(s, s)
BY DEF Good, Types, Parts, Ctl, Regs, Retouched, CtlOnly, Ours, CFields

\* Command done acknowledged.
LEMMA CcmdFact ==
    ASSUME NEW s, NEW e, Good(s, e),
           "SCRF" \in s.c.cond => s.d.serr = FALSE /\ s.d.scmd # "MOUNT"
    PROVE  /\ Good(RhCcmd(s), e) /\ Sent(s, RhCcmd(s))
           /\ IF s.c.cond \cap {"CMD", "PCRF", "SCRF"} = {"CMD", "SCRF"}
              THEN Answered(s, RhCcmd(s)) /\ e = "told"
              ELSE /\ Retouched(s, RhCcmd(s))
                   /\ RhCcmd(s).c.cond = s.c.cond \ {"CMD"}
<1> DEFINE t == [s EXCEPT !.c.cond = @ \ {"CMD"}]
           g == {"CMD"}
           starts == s.c.cond \cap {"CMD", "PCRF", "SCRF"} = {"CMD", "SCRF"}
<1>1. RhCcmd(s) = IF starts THEN Xfrbeg(t) ELSE t BY DEF RhCcmd
<1>2. Retouched(s, t)
  <2>1. t = [s EXCEPT !.c.cond = @ \ g] /\ "MBA" \notin g /\ ("PCRF" \in g => ~Ours(s)) OBVIOUS
  <2> HIDE DEF g, t
  <2> QED BY <2>1, LessFact
<1>6. t.c.cond = s.c.cond \ {"CMD"} BY DEF Good, Types, Parts, Ctl, CFields
<1> HIDE DEF t, g
<1>3. Good(t, e) /\ Sent(s, t) BY <1>2, RetouchedGood
<1>4. CASE starts
  <2>1. "PCRF" \notin s.c.cond /\ "SCRF" \in s.c.cond BY <1>4
  <2>2. "PCRF" \notin t.c.cond /\ t.d = s.d BY <1>2, <2>1 DEF Retouched, CtlOnly
  <2>3. t.d.serr = FALSE /\ t.d.scmd # "MOUNT" BY <2>1, <2>2
  <2>4. /\ Good(Xfrbeg(t), "told") /\ Sent(t, Xfrbeg(t))
        /\ (Asks(t.c) => Asks(Xfrbeg(t).c)) /\ Answered(t, Xfrbeg(t)) /\ e = "told"
    BY <1>3, <1>6, <2>2, <2>3, XfrbegFact
  <2>5. RhCcmd(s) = Xfrbeg(t) BY <1>1, <1>4
  <2> DEFINE u == Xfrbeg(t)
  <2> HIDE DEF u
  <2>6. Good(u, e) /\ Sent(t, u) /\ RhCcmd(s) = u /\ Answered(t, u) /\ e = "told"
    BY <2>4, <2>5 DEF u
  <2>7. Sent(s, u) BY <1>3, <2>6, SentOn
  <2>8. Answered(s, u)
    <3>1. t.c.stcr = s.c.stcr /\ t.h = s.h BY <1>2 DEF Retouched, CtlOnly
    <3> QED BY <2>6, <3>1 DEF Answered
  <2> QED BY <1>4, <2>6, <2>7, <2>8
<1>5. CASE ~starts BY <1>1, <1>2, <1>3, <1>5, <1>6
<1> QED BY <1>4, <1>5

\* The interrupt's level is set and the requests are made again.
LEMMA LevelFact ==
    ASSUME NEW s, NEW e, Good(s, e), NEW on \in BOOLEAN, NEW t,
           t = ConoPia(s, on), NEW u, u = [t EXCEPT !.c = RhPicheck(@)]
    PROVE  Good(u, e) /\ Sent(s, u) /\ Asks(u.c) /\ Unseen(s, u) /\ u.h = s.h
<1>1. DOMAIN s = {"c", "d", "armed", "x", "h"} /\ Ctl(s.c) /\ Regs(s.c) /\ DOMAIN s.c = CFields
      /\ s.c.req \in BOOLEAN
  BY DEF Good, Types, Parts, Ctl
<1> DEFINE a == s.c.req /\ (s.c.pilev = on)
<1>2. a \in BOOLEAN BY <1>1
<1>3. t = [s EXCEPT !.c.pilev = on, !.c.req = a] BY DEF ConoPia
<1> HIDE DEF a
<1>4. /\ DOMAIN t = {"c", "d", "armed", "x", "h"} /\ t.d = s.d /\ t.armed = s.armed
      /\ t.x = s.x /\ t.h = s.h /\ DOMAIN t.c = CFields
      /\ t.c.req \in BOOLEAN /\ t.c.pilev \in BOOLEAN
      /\ \A f \in CFields \ {"req", "pilev"} : t.c[f] = s.c[f]
  BY ZenonT(40), <1>1, <1>2, <1>3 DEF CFields
<1> DEFINE k == RhPicheck(t.c)
<1>5. /\ DOMAIN k = CFields /\ k.req \in BOOLEAN /\ Asks(k)
      /\ \A f \in CFields \ {"req"} : k[f] = t.c[f]
  <2> DEFINE m == t.c
  <2>1. DOMAIN m = CFields /\ m.req \in BOOLEAN /\ m.pilev \in BOOLEAN BY <1>4
  <2> HIDE DEF m
  <2>2. /\ DOMAIN RhPicheck(m) = CFields /\ RhPicheck(m).req \in BOOLEAN
        /\ \A f \in CFields \ {"req"} : RhPicheck(m)[f] = m[f]
        /\ Asks(RhPicheck(m))
    BY <2>1, PicheckFact
  <2> QED BY <2>2 DEF m
<1>6. u = [t EXCEPT !.c = k] OBVIOUS
<1> HIDE DEF k
<1>7. CtlOnly(s, u) /\ u.c = k BY <1>4, <1>6 DEF CtlOnly
<1>8. /\ u.c.cond = s.c.cond /\ u.c.wcnt = s.c.wcnt /\ u.c.sbarf = s.c.sbarf
      /\ u.c.pilev = t.c.pilev /\ u.c.draes = s.c.draes /\ u.c.attn = s.c.attn
      /\ u.c.ptcr = s.c.ptcr /\ u.c.stcr = s.c.stcr /\ u.c.sbar = s.c.sbar
      /\ u.c.bcnt = s.c.bcnt /\ u.c.list = s.c.list
  <2>1. /\ t.c.cond = s.c.cond /\ t.c.wcnt = s.c.wcnt /\ t.c.sbarf = s.c.sbarf
        /\ t.c.draes = s.c.draes /\ t.c.attn = s.c.attn
        /\ t.c.ptcr = s.c.ptcr /\ t.c.stcr = s.c.stcr /\ t.c.sbar = s.c.sbar
        /\ t.c.bcnt = s.c.bcnt /\ t.c.list = s.c.list
    BY <1>4 DEF CFields
  <2>2. /\ k.cond = t.c.cond /\ k.wcnt = t.c.wcnt /\ k.sbarf = t.c.sbarf
        /\ k.pilev = t.c.pilev /\ k.draes = t.c.draes /\ k.attn = t.c.attn
        /\ k.ptcr = t.c.ptcr /\ k.stcr = t.c.stcr /\ k.sbar = t.c.sbar
        /\ k.bcnt = t.c.bcnt /\ k.list = t.c.list
    BY <1>5 DEF CFields
  <2> QED BY <1>7, <2>1, <2>2
<1>9. Ours(s) => "PCRF" \in s.c.cond BY DEF Ours
<1>10. Retouched(s, u) BY <1>1, <1>4, <1>5, <1>7, <1>8, <1>9 DEF Retouched, Ctl, Regs
<1>11. Unseen(s, u) /\ u.h = s.h BY <1>4, <1>7, <1>8 DEF Unseen, Steady, CtlOnly
<1> QED BY <1>5, <1>7, <1>10, <1>11, RetouchedGood

\* The conditions that the bits b turn off, of those that the program goes by.
Off(b) == {g \in Told : \/ "TEC" \in b /\ g \in Errors
                        \/ "DSCRF" \in b /\ g \in {"SCRF", "PCRF"}}

\* And that is all that the program sees of a change.
Touched(s, t, g) ==
    /\ CtlOnly(s, t) /\ DOMAIN t.c = CFields
    /\ t.c.ptcr = s.c.ptcr /\ t.c.stcr = s.c.stcr /\ t.c.bcnt = s.c.bcnt
    /\ Ours(s) => t.c.wcnt = s.c.wcnt
    /\ \A f \in Told : f \in t.c.cond <=> f \in s.c.cond /\ f \notin g

\* The bits between the clear and the acknowledgement.
LEMMA BitsFact ==
    ASSUME NEW s, DOMAIN s = {"c", "d", "armed", "x", "h"}, DOMAIN s.c = CFields,
           NEW b, "RCLP" \in b => ~Ours(s)
    PROVE  Touched(s, ConoMeae(ConoDscrf(ConoRclp(ConoTec(s, b), b), b), b), Off(b))
<1> DEFINE t1 == ConoTec(s, b)
           t2 == ConoRclp(t1, b)
           t3 == ConoDscrf(t2, b)
           t4 == ConoMeae(t3, b)
<1>1. /\ CtlOnly(s, t1) /\ DOMAIN t1.c = CFields
      /\ t1.c.cond = IF "TEC" \in b THEN s.c.cond \ Errors ELSE s.c.cond
      /\ \A f \in CFields \ {"cond"} : t1.c[f] = s.c[f]
  <2>1. CASE "TEC" \in b BY <2>1 DEF ConoTec, Less, CtlOnly, CFields
  <2>2. CASE "TEC" \notin b BY <2>2 DEF ConoTec, CtlOnly
  <2> QED BY <2>1, <2>2
<1>2. /\ CtlOnly(s, t2) /\ DOMAIN t2.c = CFields /\ ("RCLP" \in b \/ t2.c.wcnt = t1.c.wcnt)
      /\ \A f \in CFields \ {"clp", "wcnt", "hlt", "skip"} : t2.c[f] = t1.c[f]
  <2> HIDE DEF t1
  <2>1. CASE "RCLP" \in b BY <1>1, <2>1 DEF ConoRclp, RhdcClear, CtlOnly, CFields
  <2>2. CASE "RCLP" \notin b BY <1>1, <2>2 DEF ConoRclp, CtlOnly
  <2> QED BY <2>1, <2>2
<1>3. /\ CtlOnly(s, t3) /\ DOMAIN t3.c = CFields
      /\ t3.c.cond = IF "DSCRF" \in b THEN t2.c.cond \ {"SCRF", "PCRF"} ELSE t2.c.cond
      /\ \A f \in CFields \ {"cond", "sbarf"} : t3.c[f] = t2.c[f]
  <2> HIDE DEF t1, t2
  <2>1. CASE "DSCRF" \in b
    <3> DEFINE k == Less(t2, {"SCRF", "PCRF"})
    <3>1. /\ CtlOnly(s, k) /\ DOMAIN k.c = CFields /\ k.c.cond = t2.c.cond \ {"SCRF", "PCRF"}
          /\ \A f \in CFields \ {"cond"} : k.c[f] = t2.c[f]
      BY <1>2 DEF Less, CtlOnly, CFields
    <3>2. t3 = [k EXCEPT !.c.sbarf = FALSE] BY <2>1 DEF ConoDscrf
    <3> HIDE DEF k, t3
    <3> QED BY <2>1, <3>1, <3>2 DEF CtlOnly, CFields
  <2>2. CASE "DSCRF" \notin b BY <1>2, <2>2 DEF ConoDscrf, CtlOnly
  <2> QED BY <2>1, <2>2
<1>4. /\ CtlOnly(s, t4) /\ DOMAIN t4.c = CFields
      /\ t4.c.cond \in {t3.c.cond \ {"MBAE"}, t3.c.cond \cup {"MBAE"}}
      /\ \A f \in CFields \ {"cond"} : t4.c[f] = t3.c[f]
  <2> HIDE DEF t1, t2, t3
  <2>1. CASE "MEAE" \in b BY <1>3, <2>1 DEF ConoMeae, CtlOnly, CFields
  <2>2. CASE "MEAE" \notin b BY <1>3, <2>2 DEF ConoMeae, Less, CtlOnly, CFields
  <2> QED BY <2>1, <2>2
<1> HIDE DEF t1, t2, t3, t4
<1>5. /\ t4.c.ptcr = s.c.ptcr /\ t4.c.stcr = s.c.stcr /\ t4.c.bcnt = s.c.bcnt
      /\ t4.c.wcnt = t2.c.wcnt /\ t1.c.wcnt = s.c.wcnt /\ t2.c.cond = t1.c.cond
  BY <1>1, <1>2, <1>3, <1>4 DEF CFields
<1>6. ASSUME NEW f \in Told PROVE f \in t4.c.cond <=> f \in s.c.cond /\ f \notin Off(b)
  <2>1. f \in t4.c.cond <=> f \in t3.c.cond BY <1>4, <1>6 DEF Told, Errors
  <2> QED BY <1>1, <1>3, <1>5, <2>1 DEF Off
<1>7. Touched(s, t4, Off(b)) BY <1>2, <1>4, <1>5, <1>6 DEF Touched
<1> QED BY <1>7 DEF t1, t2, t3, t4

\* The state in which a CONO comes to its acknowledgement.
Prepared(s, e, b, q) ==
    /\ Good(q, e)
    /\ IF "CMC" \in b THEN q.h = s.h /\ q.c.cond \cap {"CMD", "PCRF", "SCRF"} = {}
       ELSE Touched(s, q, Off(b))
    /\ "CCMD" \in b /\ "SCRF" \in q.c.cond => q.d.serr = FALSE /\ q.d.scmd # "MOUNT"

\* rh20_cono, with a monitor's care: it clears what is idle, restarts the list and discards
\* what waits when nothing is under way, and lets a waiting transfer begin on a drive that
\* has no error.
LEMMA ConoGood ==
    ASSUME NEW s, NEW e, Good(s, e), NEW b,
           "CMC" \in b => s.d.go = FALSE /\ s.d.scmd # "MOUNT",
           "DSCRF" \in b => ~Ours(s), "RCLP" \in b => ~Ours(s),
           "CCMD" \in b /\ "SCRF" \in s.c.cond =>
               "DSCRF" \in b \/ (s.d.serr = FALSE /\ s.d.scmd # "MOUNT")
    PROVE  /\ Good(RhCono(s, b), e) /\ Sent(s, RhCono(s, b)) /\ Asks(RhCono(s, b).c)
           /\ \E q : /\ Prepared(s, e, b, q)
                    /\ Unseen(ConoCcmd(q, b), RhCono(s, b))
                    /\ RhCono(s, b).h = ConoCcmd(q, b).h
<1> DEFINE s1 == ConoCrae(s, b)
           s2 == ConoCmc(s1, b)
           s3 == ConoTec(s2, b)
           s4 == ConoRclp(s3, b)
           d4 == Less(s4, {"SCRF", "PCRF"})
           s5 == ConoDscrf(s4, b)
           s6 == ConoMeae(s5, b)
           s7 == ConoCcmd(s6, b)
           on == "PIA" \in b
           s8 == ConoPia(s7, on)
           t == [s8 EXCEPT !.c = RhPicheck(@)]
<1>1. RhCono(s, b) = t BY DEF RhCono
<1> HIDE DEF t
<1> DEFINE Only(q, u, g) == u = [q EXCEPT !.c.cond = @ \ g]
<1>2. ASSUME NEW q, Chain(s, e, q), NEW g, "MBA" \notin g, "PCRF" \in g => ~Ours(s),
             NEW u, Only(q, u, g)
      PROVE  Chain(s, e, u)
  <2>1. Good(q, e) /\ ("PCRF" \in g => ~Ours(q)) BY <1>2 DEF Chain
  <2>2. Retouched(q, u) BY <1>2, <2>1, LessFact
  <2> QED BY <1>2, <2>2, ChainOn
<1> HIDE DEF Only
<1>3. Chain(s, e, s)
  <2>1. Sent(s, s) BY DEF Sent
  <2> QED BY <2>1 DEF Chain
<1>16. DOMAIN s = {"c", "d", "armed", "x", "h"} /\ DOMAIN s.c = CFields
  BY DEF Good, Types, Parts, Ctl
<1>17. Touched(s, s1, {})
  <2>1. CASE "CRAE" \in b
    BY <1>16, <2>1 DEF ConoCrae, Less, Touched, CtlOnly, Told, Errors, CFields
  <2>2. CASE "CRAE" \notin b BY <1>16, <2>2 DEF ConoCrae, Touched, CtlOnly
  <2> QED BY <2>1, <2>2
<1>4. Chain(s, e, s1) /\ s1.d = s.d
  <2>1. CASE "CRAE" \in b
    <3>1. Only(s, s1, {"RAE"}) BY <2>1 DEF Only, ConoCrae, Less
    <3>2. s1.d = s.d BY <2>1 DEF Good, Types, Parts, ConoCrae, Less
    <3> HIDE DEF s1
    <3> QED BY <1>2, <1>3, <3>1, <3>2
  <2>2. CASE "CRAE" \notin b BY <1>3, <2>2 DEF ConoCrae
  <2> QED BY <2>1, <2>2
<1> HIDE DEF s1
<1>5. /\ Chain(s, e, s2)
      /\ IF "CMC" \in b THEN s2.h = s1.h /\ s2.c.cond = {} ELSE s2 = s1
  <2>1. CASE "CMC" \in b
    <3>1. s1.d.go = FALSE /\ s1.d.scmd # "MOUNT" /\ Good(s1, e) BY <1>4, <2>1 DEF Chain
    <3>2. Good(RhClear(s1), e) /\ Sent(s1, RhClear(s1)) /\ Asks(RhClear(s1).c)
          /\ ~Ours(RhClear(s1)) /\ RhClear(s1).c.cond = {} /\ RhClear(s1).h = s1.h
      BY <3>1, RhClearFact
    <3>3. s2 = RhClear(s1) BY <2>1 DEF ConoCmc
    <3> HIDE DEF s2
    <3>4. Sent(s, s2)
      <4>1. Sent(s, s1) /\ Sent(s1, s2) BY <1>4, <3>2, <3>3 DEF Chain
      <4> QED BY <4>1, SentOn
    <3> QED BY <2>1, <3>2, <3>3, <3>4 DEF Chain
  <2>2. CASE "CMC" \notin b BY <1>4, <2>2 DEF ConoCmc
  <2> QED BY <2>1, <2>2
<1> HIDE DEF s2
<1>18. Touched(s2, s6, Off(b))
  <2>1. DOMAIN s2 = {"c", "d", "armed", "x", "h"} /\ DOMAIN s2.c = CFields
        /\ ("RCLP" \in b => ~Ours(s2))
    BY <1>5 DEF Chain, Good, Types, Parts, Ctl
  <2> QED BY <2>1, BitsFact
<1>6. Chain(s, e, s3)
  <2>1. CASE "TEC" \in b
    <3>1. Only(s2, s3, Errors) BY <2>1 DEF Only, ConoTec, Less
    <3>2. "MBA" \notin Errors /\ "PCRF" \notin Errors BY DEF Errors
    <3> HIDE DEF s3
    <3> QED BY <1>2, <1>5, <3>1, <3>2
  <2>2. CASE "TEC" \notin b BY <1>5, <2>2 DEF ConoTec
  <2> QED BY <2>1, <2>2
<1> HIDE DEF s3
<1>7. Chain(s, e, s4)
  <2>1. CASE "RCLP" \in b
    <3>1. Good(s3, e) /\ ~Ours(s3) BY <1>6, <2>1 DEF Chain
    <3>2. s4 = [s3 EXCEPT !.c = RhdcClear(@)] BY <2>1 DEF ConoRclp
    <3>3. DOMAIN s3 = {"c", "d", "armed", "x", "h"} /\ Ctl(s3.c) /\ Regs(s3.c)
      BY <3>1 DEF Good, Types, Parts
    <3> DEFINE k == RhdcClear(s3.c)
    <3>4. /\ DOMAIN k = CFields /\ k.wcnt = 0
          /\ \A f \in CFields \ {"clp", "wcnt", "hlt", "skip"} : k[f] = s3.c[f]
      BY <3>3 DEF Ctl, CFields, RhdcClear
    <3> HIDE DEF k, s4
    <3>5. CtlOnly(s3, s4) /\ s4.c = k BY <3>2, <3>3 DEF CtlOnly, k
    <3>6. Retouched(s3, s4) BY <3>1, <3>3, <3>4, <3>5 DEF Retouched, Ctl, Regs, CFields
    <3> QED BY <1>6, <3>6, ChainOn
  <2>2. CASE "RCLP" \notin b BY <1>6, <2>2 DEF ConoRclp
  <2> QED BY <2>1, <2>2
<1> HIDE DEF s4
<1>8. Chain(s, e, s5) /\ ("DSCRF" \in b => "SCRF" \notin s5.c.cond)
  <2>1. CASE "DSCRF" \in b
    <3> DEFINE g == {"SCRF", "PCRF"}
    <3>1. Only(s4, d4, g) BY DEF Only, Less
    <3>2. "MBA" \notin g /\ ("PCRF" \in g => ~Ours(s)) BY <2>1
    <3>3. Good(s4, e) /\ DOMAIN s4 = {"c", "d", "armed", "x", "h"} /\ DOMAIN s4.c = CFields
      BY <1>7 DEF Chain, Good, Types, Parts, Ctl
    <3>4. "SCRF" \notin d4.c.cond BY <3>3 DEF CFields, Less
    <3> HIDE DEF g, d4
    <3>5. Chain(s, e, d4) BY <1>2, <1>7, <3>1, <3>2
    <3>6. s5 = [d4 EXCEPT !.c.sbarf = FALSE] BY <2>1 DEF d4, ConoDscrf
    <3> HIDE DEF s5
    <3>7. DOMAIN d4 = {"c", "d", "armed", "x", "h"} /\ Ctl(d4.c) /\ Regs(d4.c)
          /\ DOMAIN d4.c = CFields
      BY <3>5 DEF Chain, Good, Types, Parts, Ctl
    <3>8. /\ CtlOnly(d4, s5) /\ DOMAIN s5.c = CFields /\ s5.c.sbarf \in BOOLEAN
          /\ \A f \in CFields \ {"sbarf"} : s5.c[f] = d4.c[f]
      BY <3>6, <3>7 DEF CtlOnly, CFields
    <3>9. s5.c.cond = d4.c.cond /\ s5.c.wcnt = d4.c.wcnt BY <3>8 DEF CFields
    <3>10. Ours(d4) => "PCRF" \in d4.c.cond BY DEF Ours
    <3>11. Retouched(d4, s5) BY <3>7, <3>8, <3>9, <3>10 DEF Retouched, Ctl, Regs, CFields
    <3> QED BY <3>4, <3>5, <3>9, <3>11, ChainOn
  <2>2. CASE "DSCRF" \notin b BY <1>7, <2>2 DEF ConoDscrf
  <2> QED BY <2>1, <2>2
<1> HIDE DEF s5
<1>9. Chain(s, e, s6) /\ ("DSCRF" \in b => "SCRF" \notin s6.c.cond)
  <2>1. DOMAIN s5 = {"c", "d", "armed", "x", "h"} /\ Ctl(s5.c) /\ Regs(s5.c)
        /\ DOMAIN s5.c = CFields
    BY <1>8 DEF Chain, Good, Types, Parts, Ctl
  <2>2. CASE "MEAE" \in b
    <3>1. s6 = [s5 EXCEPT !.c.cond = @ \cup {"MBAE"}] BY <2>2 DEF ConoMeae
    <3> HIDE DEF s6
    <3>2. /\ CtlOnly(s5, s6) /\ DOMAIN s6.c = CFields /\ s6.c.cond = s5.c.cond \cup {"MBAE"}
          /\ \A f \in CFields \ {"cond"} : s6.c[f] = s5.c[f]
      BY <2>1, <3>1 DEF CtlOnly, CFields
    <3>3. Ours(s5) => "PCRF" \in s5.c.cond BY DEF Ours
    <3>4. s6.c.cond \subseteq CondBits BY <2>1, <3>2 DEF Ctl, CondBits
    <3>5. Retouched(s5, s6) BY <2>1, <3>2, <3>3, <3>4 DEF Retouched, Ctl, Regs, CFields
    <3> QED BY <1>8, <3>2, <3>5, ChainOn
  <2>3. CASE "MEAE" \notin b
    <3> DEFINE g == {"MBAE"}
    <3>1. Only(s5, s6, g) BY <2>3 DEF Only, ConoMeae, Less
    <3>2. "MBA" \notin g /\ ("PCRF" \in g => ~Ours(s)) OBVIOUS
    <3>3. s6.c.cond \subseteq s5.c.cond BY <2>1, <2>3 DEF CFields, ConoMeae, Less
    <3> HIDE DEF g, s6
    <3> QED BY <1>2, <1>8, <3>1, <3>2, <3>3
  <2> QED BY <2>2, <2>3
<1> HIDE DEF s6
<1>19. Prepared(s, e, b, s6)
  <2>1. ASSUME "CCMD" \in b, "SCRF" \in s6.c.cond PROVE s6.d.serr = FALSE /\ s6.d.scmd # "MOUNT"
    BY <1>9, <2>1 DEF Chain
  <2>2. CASE "CMC" \in b
    <3>1. s6.h = s.h BY <1>5, <1>17, <1>18, <2>2 DEF Touched, CtlOnly
    <3>2. s6.c.cond \cap {"CMD", "PCRF", "SCRF"} = {} BY <1>5, <1>18, <2>2 DEF Touched, Told
    <3> QED BY <1>9, <2>1, <2>2, <3>1, <3>2 DEF Prepared, Chain
  <2>3. CASE "CMC" \notin b
    <3>1. "PCRF" \in s1.c.cond <=> "PCRF" \in s.c.cond BY <1>17 DEF Touched, Told
    <3>2. Ours(s) => Ours(s1) BY <1>17, <3>1 DEF Touched, Ours
    <3>3. Touched(s, s6, Off(b)) BY <1>5, <1>17, <1>18, <2>3, <3>2 DEF Touched, CtlOnly
    <3> QED BY <1>9, <2>1, <2>3, <3>3 DEF Prepared, Chain
  <2> QED BY <2>2, <2>3
<1>20. s7 = ConoCcmd(s6, b) OBVIOUS
<1>10. Good(s7, e) /\ Sent(s, s7)
  <2>1. Good(s6, e) /\ Sent(s, s6) BY <1>9 DEF Chain
  <2>2. CASE "CCMD" \in b
    <3>1. ASSUME "SCRF" \in s6.c.cond PROVE s6.d.serr = FALSE /\ s6.d.scmd # "MOUNT"
      BY <1>9, <2>2, <3>1 DEF Chain
    <3>2. Good(RhCcmd(s6), e) /\ Sent(s6, RhCcmd(s6)) BY <2>1, <3>1, CcmdFact
    <3>3. s7 = RhCcmd(s6) BY <2>2 DEF ConoCcmd
    <3> HIDE DEF s7
    <3>4. Sent(s6, s7) BY <3>2, <3>3
    <3>5. Sent(s, s7) BY <2>1, <3>4, SentOn
    <3> QED BY <3>2, <3>3, <3>5
  <2>3. CASE "CCMD" \notin b BY <2>1, <2>3 DEF ConoCcmd
  <2> QED BY <2>2, <2>3
<1> HIDE DEF s7
<1>11. on \in BOOLEAN OBVIOUS
<1> HIDE DEF on
<1>12. s8 = ConoPia(s7, on) OBVIOUS
<1>13. t = [s8 EXCEPT !.c = RhPicheck(@)] BY DEF t
<1> HIDE DEF s8
<1>14. Good(t, e) /\ Sent(s7, t) /\ Asks(t.c) /\ Unseen(s7, t) /\ t.h = s7.h
  BY <1>10, <1>11, <1>12, <1>13, LevelFact
<1>15. Sent(s, t) BY <1>10, <1>14, SentOn
<1>21. \E q : Prepared(s, e, b, q) /\ Unseen(ConoCcmd(q, b), t) /\ t.h = ConoCcmd(q, b).h
  BY <1>14, <1>19, <1>20
<1> QED BY <1>1, <1>14, <1>15, <1>21

-----------------------------------------------------------------------------
(* DATAO                                                                   *)

\* Registers change that no transfer under way depends on.
Loaded(s, t) ==
    /\ CtlOnly(s, t) /\ DOMAIN t.c = CFields /\ Regs(t.c) /\ t.c.draes \in BOOLEAN
    /\ t.c.cond = s.c.cond \/ t.c.cond = s.c.cond \cup {"SCRF"}
    /\ \A f \in {"req", "pilev", "attn", "ptcr", "list", "wcnt"} : t.c[f] = s.c[f]

\* A register loaded is a change of the controller alone.
LEMMA LoadedGood ==
    ASSUME NEW s, NEW e, Good(s, e), NEW t, Loaded(s, t)
    PROVE  Good(t, e) /\ Sent(s, t)
<1>1. Ctl(s.c) BY DEF Good, Types, Parts
<1>2. Ctl(t.c) BY <1>1 DEF Loaded, Ctl, CondBits
<1>3. Ours(t) <=> Ours(s) BY DEF Loaded, Ours
<1>4. Ours(s) => t.c.ptcr = s.c.ptcr /\ t.c.wcnt = s.c.wcnt BY DEF Loaded
<1>5. CtlOnly(s, t) /\ t.c.attn = s.c.attn /\ Regs(t.c) BY DEF Loaded
<1> QED BY <1>2, <1>3, <1>4, <1>5, CtlChange

\* DRAES is set; RAE was not on, or was not let through.
LEMMA PrepFact ==
    ASSUME NEW s, NEW e, Good(s, e), Asks(s.c), "RAE" \notin s.c.cond \/ s.c.draes,
           NEW draes \in BOOLEAN, NEW t, t = [s EXCEPT !.c.draes = draes]
    PROVE  Good(t, e) /\ Sent(s, t) /\ Asks(t.c) /\ t.d = s.d /\ (Ours(t) <=> Ours(s))
           /\ t.c.cond = s.c.cond /\ t.h = s.h /\ Unseen(s, t)
<1>1. DOMAIN s = {"c", "d", "armed", "x", "h"} /\ Ctl(s.c) /\ Regs(s.c) /\ DOMAIN s.c = CFields
  BY DEF Good, Types, Parts, Ctl
<1>2. /\ CtlOnly(s, t) /\ DOMAIN t.c = CFields /\ t.c.draes \in BOOLEAN
      /\ \A f \in CFields \ {"draes"} : t.c[f] = s.c[f]
  BY <1>1 DEF CtlOnly, CFields
<1>3. /\ t.c.cond = s.c.cond /\ t.c.req = s.c.req /\ t.c.pilev = s.c.pilev
      /\ t.c.attn = s.c.attn /\ t.c.ptcr = s.c.ptcr /\ t.c.list = s.c.list
      /\ t.c.wcnt = s.c.wcnt /\ t.c.stcr = s.c.stcr /\ t.c.sbar = s.c.sbar
      /\ t.c.sbarf = s.c.sbarf /\ t.c.bcnt = s.c.bcnt
  BY <1>2 DEF CFields
<1>4. Loaded(s, t)
  <2>1. Regs(t.c) BY <1>1, <1>3 DEF Regs
  <2> QED BY <1>2, <1>3, <2>1 DEF Loaded
<1>5. Asks(t.c) BY <1>1, <1>3 DEF Asks, Interrupting, Ctl
<1>6. t.d = s.d /\ t.h = s.h /\ (Ours(t) <=> Ours(s)) BY <1>2, <1>3 DEF CtlOnly, Ours
<1>7. Unseen(s, t) BY <1>2, <1>3 DEF Unseen, Steady, CtlOnly
<1> QED BY <1>3, <1>4, <1>5, <1>6, <1>7, LoadedGood

\* A transfer loaded waits, begins, or is refused.
Loads(s, r, t) ==
    \/ /\ Act(s) # NoReq \/ Rep(s) # "none"
       /\ Wait(t) = r /\ Act(t) = Act(s) /\ Rep(t) = Rep(s) /\ t.h.moved = s.h.moved
    \/ /\ Act(s) = NoReq /\ Rep(s) = "none" /\ Wait(t) = NoReq
       /\ t.h.moved \in {s.h.moved, <<>>}
       /\ \/ Act(t) = r /\ Rep(t) = "none" /\ t.h.moved = <<>>
          \/ Act(t) = NoReq /\ Rep(t) = "error"

\* STCR, on a drive without an error, nothing waiting.
LEMMA LoadStcrGood ==
    ASSUME NEW s, NEW e, Good(s, e), Asks(s.c), s.d.serr = FALSE, s.d.scmd # "MOUNT",
           Books(s, e), "SCRF" \notin s.c.cond, NEW r \in Request
    PROVE  /\ Good(LoadStcr(s, r), e) /\ Sent(s, LoadStcr(s, r)) /\ Asks(LoadStcr(s, r).c)
           /\ Books(LoadStcr(s, r), e) /\ Loads(s, r, LoadStcr(s, r))
<1> DEFINE t == [s EXCEPT !.c.stcr = r]
           u == [t EXCEPT !.c.cond = @ \cup {"SCRF"}]
           w == s.c.cond \cap {"PCRF", "CMD"} # {}
<1>1. LoadStcr(s, r) = IF w THEN u ELSE Xfrbeg(t) BY DEF LoadStcr
<1>2. DOMAIN s = {"c", "d", "armed", "x", "h"} /\ Ctl(s.c) /\ Regs(s.c) /\ DOMAIN s.c = CFields
  BY DEF Good, Types, Parts, Ctl
<1>3. /\ CtlOnly(s, t) /\ DOMAIN t.c = CFields /\ t.c.stcr = r
      /\ \A f \in CFields \ {"stcr"} : t.c[f] = s.c[f]
  BY <1>2 DEF CtlOnly, CFields
<1>4. /\ CtlOnly(s, u) /\ DOMAIN u.c = CFields /\ u.c.stcr = r
      /\ u.c.cond = s.c.cond \cup {"SCRF"}
      /\ \A f \in CFields \ {"stcr", "cond"} : u.c[f] = s.c[f]
  BY <1>2 DEF CtlOnly, CFields
<1> HIDE DEF t, u
<1>5. ASSUME NEW k, CtlOnly(s, k), DOMAIN k.c = CFields, k.c.stcr = r,
             k.c.cond = s.c.cond \/ k.c.cond = s.c.cond \cup {"SCRF"},
             \A f \in CFields \ {"stcr", "cond"} : k.c[f] = s.c[f]
      PROVE  Good(k, e) /\ Sent(s, k) /\ Asks(k.c)
  <2>1. /\ k.c.req = s.c.req /\ k.c.pilev = s.c.pilev
        /\ k.c.attn = s.c.attn /\ k.c.ptcr = s.c.ptcr /\ k.c.list = s.c.list
        /\ k.c.wcnt = s.c.wcnt /\ k.c.draes = s.c.draes /\ k.c.sbar = s.c.sbar
        /\ k.c.sbarf = s.c.sbarf /\ k.c.bcnt = s.c.bcnt
    BY <1>5 DEF CFields
  <2>2. Regs(k.c) BY <1>2, <1>5, <2>1 DEF Regs
  <2>3. Loaded(s, k) BY <1>2, <1>5, <2>1, <2>2 DEF Loaded, Ctl
  <2>4. Asks(k.c) BY <1>5, <2>1 DEF Asks, Interrupting
  <2> QED BY <2>3, <2>4, LoadedGood
<1>6. CASE w
  <2>1. Good(u, e) /\ Sent(s, u) /\ Asks(u.c) BY <1>4, <1>5
  <2>2. /\ u.c.ptcr = s.c.ptcr /\ u.c.bcnt = s.c.bcnt /\ u.c.wcnt = s.c.wcnt
        /\ u.d = s.d /\ u.x = s.x /\ u.h = s.h /\ u.armed = s.armed
    BY <1>4 DEF CtlOnly, CFields
  <2>3. /\ "CMD" \in u.c.cond <=> "CMD" \in s.c.cond
        /\ "PCRF" \in u.c.cond <=> "PCRF" \in s.c.cond
        /\ "SCRF" \in u.c.cond /\ (Failed(u.c) <=> Failed(s.c))
    BY <1>4 DEF Failed, Errors
  <2>4. Ours(u) <=> Ours(s) BY <2>2, <2>3 DEF Ours
  <2>5. Accounts(s, e) => Accounts(u, e)
    <3>1. Steady(s, u) BY <2>2 DEF Steady
    <3> QED BY <2>2, <3>1, SteadyFact
  <2>6. Ours(s) \/ "CMD" \in s.c.cond BY <1>6 DEF Books
  <2>7. Books(u, e) BY <1>4, <2>2, <2>3, <2>4, <2>5, <2>6 DEF Books
  <2>8. Loads(s, r, u)
    <3>1. Act(s) # NoReq \/ Rep(s) # "none"
      <4>1. CASE Ours(s) BY <4>1, ActFact
      <4>2. CASE "CMD" \in s.c.cond BY <4>2 DEF Rep
      <4> QED BY <2>6, <4>1, <4>2
    <3>2. Wait(u) = r /\ Act(u) = Act(s) /\ Rep(u) = Rep(s)
      BY <1>4, <2>2, <2>3, <2>4 DEF Wait, Act, Rep
    <3> QED BY <2>2, <3>1, <3>2 DEF Loads
  <2> QED BY <1>1, <1>6, <2>1, <2>7, <2>8
<1>7. CASE ~w
  <2>1. t.c.cond = s.c.cond BY <1>3 DEF CFields
  <2>2. \A f \in CFields \ {"stcr", "cond"} : t.c[f] = s.c[f] BY <1>3
  <2>3. Good(t, e) /\ Sent(s, t) /\ Asks(t.c) BY <1>3, <1>5, <2>1, <2>2
  <2>4. "PCRF" \notin t.c.cond BY <1>7, <2>1
  <2>5. t.d.serr = FALSE /\ t.d.scmd # "MOUNT" BY <1>3 DEF CtlOnly
  <2> DEFINE v == Xfrbeg(t)
  <2>9. "CMD" \notin t.c.cond BY <1>7, <2>1
  <2>6. Good(v, "told") /\ Sent(t, v) /\ (Asks(t.c) => Asks(v.c)) /\ Answered(t, v) /\ e = "told"
    BY <2>3, <2>4, <2>5, <2>9, XfrbegFact
  <2>7. LoadStcr(s, r) = v BY <1>1, <1>7
  <2> HIDE DEF v
  <2>8. Sent(s, v) BY <2>3, <2>6, SentOn
  <2>10. Act(s) = NoReq /\ Rep(s) = "none" BY <1>7 DEF Act, Ours, Rep
  <2>11. Loads(s, r, v)
    <3>1. t.c.stcr = r /\ t.h = s.h BY <1>3 DEF CtlOnly
    <3>2. /\ "SCRF" \notin v.c.cond /\ v.h.moved \in {s.h.moved, <<>>}
          /\ \/ Act(v) = r /\ "CMD" \notin v.c.cond /\ v.h.moved = <<>>
             \/ Act(v) = NoReq /\ "CMD" \in v.c.cond /\ Failed(v.c)
      BY <2>6, <3>1 DEF Answered
    <3>3. Wait(v) = NoReq BY <3>2 DEF Wait
    <3> QED BY <2>10, <3>2, <3>3 DEF Loads, Rep
  <2>12. Books(v, e) BY <2>6 DEF Answered
  <2> QED BY <2>3, <2>6, <2>7, <2>8, <2>11, <2>12
<1> QED BY <1>6, <1>7

\* SBAR.
LEMMA SbarGood ==
    ASSUME NEW s, NEW e, Good(s, e), Asks(s.c), NEW a \in Addresses,
           NEW t, t = [s EXCEPT !.c.sbar = a, !.c.sbarf = TRUE]
    PROVE  Good(t, e) /\ Sent(s, t) /\ Asks(t.c) /\ Unseen(s, t) /\ t.h = s.h
<1>1. DOMAIN s = {"c", "d", "armed", "x", "h"} /\ Ctl(s.c) /\ Regs(s.c) /\ DOMAIN s.c = CFields
  BY DEF Good, Types, Parts, Ctl
<1>2. /\ CtlOnly(s, t) /\ DOMAIN t.c = CFields /\ t.c.sbar = a /\ t.c.sbarf \in BOOLEAN
      /\ \A f \in CFields \ {"sbar", "sbarf"} : t.c[f] = s.c[f]
  BY <1>1 DEF CtlOnly, CFields
<1>3. /\ t.c.cond = s.c.cond /\ t.c.req = s.c.req /\ t.c.pilev = s.c.pilev
      /\ t.c.attn = s.c.attn /\ t.c.ptcr = s.c.ptcr /\ t.c.list = s.c.list
      /\ t.c.wcnt = s.c.wcnt /\ t.c.draes = s.c.draes /\ t.c.stcr = s.c.stcr
      /\ t.c.bcnt = s.c.bcnt
  BY <1>2 DEF CFields
<1>4. Regs(t.c) BY <1>1, <1>2, <1>3, MonitorAssumption DEF Regs
<1>5. Loaded(s, t) BY <1>1, <1>2, <1>3, <1>4 DEF Loaded, Ctl
<1>6. Asks(t.c) BY <1>3 DEF Asks, Interrupting
<1>7. Unseen(s, t) /\ t.h = s.h BY <1>2, <1>3 DEF Unseen, Steady, CtlOnly
<1> QED BY <1>5, <1>6, <1>7, LoadedGood

\* A drive command that is no transfer, the drive being at rest.
LEMMA CmdGood ==
    ASSUME NEW s, NEW e, Good(s, e), Asks(s.c), s.d.go = FALSE, s.d.scmd # "MOUNT",
           NEW cmd \in Cmds, NEW t, t = Wrreg(s, "CSR", cmd).s
    PROVE  Good(t, e) /\ Sent(s, t) /\ Asks(t.c) /\ Unseen(s, t) /\ t.h = s.h
<1>1. Resting(s) /\ Placed(s.h) /\ e = "told" BY GoodRests
<1>2. Types(s) /\ s.h.panic = FALSE /\ Parts(s) BY DEF Good, Types
<1>3. cmd \notin Xfers BY MonitorAssumption
<1>4. CASE cmd = "CLR"
  <2>1. PICK u : /\ Wrreg(s, "CSR", "CLR") = GoesOn(u)
                 /\ Good(u, "told") /\ Sent(s, u) /\ (Asks(s.c) => Asks(u.c))
                 /\ Unseen(s, u) /\ u.h = s.h
    BY <1>1, <1>2, ClrCmd
  <2>2. t = u BY <1>4, <2>1 DEF GoesOn
  <2> QED BY <1>1, <2>1, <2>2
<1>5. CASE cmd # "CLR"
  <2>1. PICK u : Wrreg(s, "CSR", cmd) = GoesOn(u) /\ Quiet(s, u)
    BY <1>2, <1>3, <1>5, QuietCmd
  <2>2. t = u BY <2>1 DEF GoesOn
  <2>3. Good(u, "told") /\ Sent(s, u) /\ (Asks(s.c) => Asks(u.c)) /\ Unseen(s, u)
    BY <1>1, <1>2, <2>1, QuietGood
  <2>4. u.h = s.h BY <2>1 DEF Quiet
  <2> QED BY <1>1, <2>2, <2>3, <2>4
<1> QED BY <1>4, <1>5

\* A register that does not exist.
LEMMA BadGood ==
    ASSUME NEW s, NEW e, Good(s, e), Asks(s.c), s.d.go = FALSE, s.d.scmd # "MOUNT",
           NEW w, w = Wrreg(s, "BAD", 0), NEW t, t = IF w.ok THEN w.s ELSE Rae(w.s)
    PROVE  Good(t, e) /\ Sent(s, t) /\ Asks(t.c) /\ Unseen(s, t) /\ t.h = s.h
<1> DEFINE u == Serr(s)
<1>1. Resting(s) /\ Placed(s.h) /\ e = "told" BY GoodRests
<1>2. Types(s) /\ s.h.panic = FALSE /\ Parts(s) BY DEF Good, Types
<1>3. t = Rae(u) BY DEF Wrreg, Fails
<1>4. Quiet(s, u) BY <1>2 DEF Quiet, Parts, DFields, Serr
<1> HIDE DEF u
<1>5. Good(u, "told") /\ Sent(s, u) /\ (Asks(s.c) => Asks(u.c)) /\ Unseen(s, u)
  BY <1>1, <1>2, <1>4, QuietGood
<1>6. Good(Rae(u), "told") /\ Sent(u, Rae(u)) /\ (Asks(u.c) => Asks(Rae(u).c))
      /\ Unseen(u, Rae(u)) /\ Rae(u).h = u.h
  BY <1>5, RaeFact
<1>7. Sent(u, t) /\ Good(t, "told") /\ Asks(t.c) /\ Unseen(u, t) /\ t.h = u.h
  BY <1>3, <1>5, <1>6
<1>8. Sent(s, t) BY <1>5, <1>7, SentOn
<1>9. Unseen(s, t) BY <1>5, <1>7, UnseenOn
<1>10. u.h = s.h BY <1>4 DEF Quiet
<1> QED BY <1>1, <1>7, <1>8, <1>9, <1>10

-----------------------------------------------------------------------------
(* The subprocess is done                                                  *)

\* The drive's done handler ends what was under way.
Finish(u) == RpSsta(GoOff([u EXCEPT !.d.scmd = "none"]))

\* What rp_dpcmddon does last leaves all at rest.
LEMMA FinishFact ==
    ASSUME NEW u, Types(u), u.h.panic = FALSE, Placed(u.h), ~Ours(u), u.armed = FALSE,
           u.d.st # "BUSY", u.x.cmd = "none"
    PROVE  /\ Good(Finish(u), "told") /\ Finish(u).c = u.c
           /\ Finish(u).d.st = u.d.st /\ Finish(u).x = u.x
<1> DEFINE k == GoOff([u EXCEPT !.d.scmd = "none"])
           t == RpSsta(k)
<1>1. Finish(u) = t BY DEF Finish
<1>2. /\ DOMAIN k = {"c", "d", "armed", "x", "h"} /\ DOMAIN k.d = DFields
      /\ k.c = u.c /\ k.armed = u.armed /\ k.x = u.x /\ k.h = u.h
      /\ k.d.go = FALSE /\ k.d.go \in BOOLEAN /\ k.d.scmd = "none"
      /\ \A f \in DFields \ {"go", "scmd"} : k.d[f] = u.d[f]
  BY DEF Types, Parts, GoOff, DFields
<1> HIDE DEF k
<1>3. Parts(k) BY <1>2 DEF Types, Parts, DFields
<1>4. /\ Parts(t) /\ t.c = k.c /\ t.armed = k.armed /\ t.x = k.x /\ t.h = k.h
      /\ \A f \in DFields \ {"dry", "mol"} : t.d[f] = k.d[f]
  BY <1>3, SstaFact
<1> HIDE DEF t
<1>5. /\ t.d.go = FALSE /\ t.d.scmd = "none"
      /\ \A f \in {"st", "adr", "dma", "dly"} : t.d[f] = u.d[f]
  BY <1>2, <1>4 DEF DFields
<1>6. Types(t) BY <1>2, <1>4, <1>5 DEF Types
<1>7. Resting(t) BY <1>2, <1>4, <1>5 DEF Resting, Ours
<1>8. t.h.panic = FALSE /\ Placed(t.h) BY <1>2, <1>4
<1>9. Good(t, "told") BY <1>6, <1>7, <1>8, RestGood
<1> QED BY <1>1, <1>2, <1>4, <1>5, <1>9

\* It changes nothing that the program sees.
LEMMA FinishSame ==
    ASSUME NEW u, Parts(u)
    PROVE  Finish(u).c = u.c /\ Finish(u).h = u.h
<1> DEFINE k == GoOff([u EXCEPT !.d.scmd = "none"])
           t == RpSsta(k)
<1>1. Finish(u) = t BY DEF Finish
<1>2. DOMAIN k = {"c", "d", "armed", "x", "h"} /\ k.c = u.c /\ k.h = u.h BY DEF Parts, GoOff
<1> HIDE DEF k
<1>3. t.c = k.c /\ t.h = k.h BY <1>2 DEF RpSsta
<1> QED BY <1>1, <1>2, <1>3

\* A drive between two pieces, the last one's words in their place.
Between(s) ==
    /\ Types(s) /\ s.h.panic = FALSE /\ Placed(s.h) /\ s.armed = FALSE /\ s.x.cmd = "none"
    /\ s.d.st = "READY"

\* The next piece is in its place where the last one ended.
LEMMA NextGood ==
    ASSUME NEW s, Between(s), Ours(s), s.d.go = TRUE, s.d.scmd = s.c.ptcr.cmd,
           s.d.scmd \in Xfers, NEW t, Gone(s, t),
           s.h.from * NWds + Len(s.h.moved) = t.d.blkadr * NWds
    PROVE  Good(t, "told") /\ t.x.cmd # "none" /\ t.d.st = "BUSY" /\ (Asks(s.c) => Asks(t.c))
<1>1. /\ Kept(s, t) /\ SameCtl(s.c, t.c) /\ Away(t) /\ t.d.st = "BUSY" /\ t.d.begun = TRUE
      /\ t.d.scmd = s.d.scmd /\ (s.d.scmd = "WRT" => Len(t.x.buf) = t.x.scnt * NWds)
      /\ t.x.cmd \in IF s.d.scmd = "WRT" THEN {"WRITE", "WRDMA"} ELSE {"READ", "RDDMA"}
  BY DEF Gone
<1>2. t.x.scnt \in 0..TotSecs /\ t.x.daddr \in 0..TotSecs
  <2>1. /\ t.x.scnt \in Nat /\ t.x.daddr = t.d.blkadr /\ t.d.blkadr \in 0..TotSecs
        /\ t.d.blkadr + t.x.scnt <= TotSecs
    BY <1>1 DEF Away, Space
  <2> QED BY <2>1, DriveAssumption
<1>3. t.x.cmd \in Kind(t.d.scmd) BY <1>1 DEF Kind, Xfers
<1>4. t.x.cmd \in {"READ", "WRITE", "RDDMA", "WRDMA"} BY <1>1
<1>5. Types(t)
  <2>1. Types(s) BY DEF Between
  <2>2. t.d.st \in {"READY", "BUSY", s.d.st} /\ t.d.scmd \in Xfers \cup {"none", s.d.scmd}
        /\ t.x.cmd \in {"none", "READ", "WRITE", "RDDMA", "WRDMA", s.x.cmd}
    BY <1>1, <1>4
  <2> QED BY <1>1, <1>2, <2>1, <2>2, KeptTypes
<1>6. t.armed = FALSE /\ t.h.panic = FALSE /\ t.h.moved = s.h.moved /\ t.h.from = s.h.from
      /\ t.d.go = TRUE
  BY <1>1 DEF Kept, Between
<1>7. Ours(t) /\ t.c.ptcr = s.c.ptcr BY <1>1 DEF SameCtl, SameRegs, Ours
<1>8. t.d.scmd # "MOUNT" BY <1>1 DEF Xfers
<1>9. Carried(t) BY <1>1, <1>3, <1>6, <1>7, <1>8 DEF Carried
<1>10. InPlace(t, "told")
  <2>1. Placed(t.h) BY <1>6 DEF Between, Placed
  <2>2. t.h.from * NWds + Len(t.h.moved) = t.d.blkadr * NWds BY <1>6
  <2>3. t.d.scmd = "WRT" => Len(t.x.buf) = t.x.scnt * NWds BY <1>1
  <2> QED BY <1>6, <2>1, <2>2, <2>3 DEF InPlace
<1>11. Asks(s.c) => Asks(t.c) BY <1>1 DEF SameCtl, SameRegs, Asks, Interrupting
<1> QED BY <1>1, <1>4, <1>5, <1>6, <1>9, <1>10, <1>11 DEF Good

\* A transfer that has ended when a piece was done leaves all at rest.
LEMMA EndGood ==
    ASSUME NEW s, Between(s), s.d.scmd \in Xfers, NEW u, Ended(s, u)
    PROVE  /\ Good(Finish(u), "told") /\ Asks(Finish(u).c)
           /\ Finish(u).d.st # "BUSY" /\ Finish(u).x.cmd = "none"
<1>1. /\ Kept(s, u) /\ Asks(u.c) /\ "PCRF" \notin u.c.cond
      /\ u.x = s.x /\ u.d.st = s.d.st /\ u.d.scmd = s.d.scmd
  BY DEF Ended
<1>2. Types(u)
  <2>1. Types(s) /\ s.x.scnt \in 0..TotSecs /\ s.x.daddr \in 0..TotSecs BY DEF Between, Types
  <2>2. /\ u.d.st \in {"READY", "BUSY", s.d.st} /\ u.d.scmd \in Xfers \cup {"none", s.d.scmd}
        /\ u.x.cmd \in {"none", "READ", "WRITE", "RDDMA", "WRDMA", s.x.cmd}
        /\ u.x.scnt \in 0..TotSecs /\ u.x.daddr \in 0..TotSecs
    BY <1>1, <2>1
  <2> QED BY <1>1, <2>1, <2>2, KeptTypes
<1>3. /\ u.h.panic = FALSE /\ u.h.moved = s.h.moved /\ u.h.from = s.h.from
      /\ u.armed = FALSE /\ u.x.cmd = "none" /\ u.d.st # "BUSY"
  BY <1>1 DEF Kept, Between
<1>4. Placed(u.h) BY <1>3 DEF Between, Placed
<1>5. ~Ours(u) BY <1>1 DEF Ours
<1>6. /\ Good(Finish(u), "told") /\ Finish(u).c = u.c
      /\ Finish(u).d.st = u.d.st /\ Finish(u).x = u.x
  BY <1>2, <1>3, <1>4, <1>5, FinishFact
<1> QED BY <1>1, <1>3, <1>6

\* What the done handler leaves: nothing with the subprocess, or something new.
Handled(s, t) ==
    /\ Good(t, "told") /\ (Asks(s.c) => Asks(t.c))
    /\ t.d.st = "BUSY" <=> t.x.cmd # "none"
    /\ Books(t, "told") /\ Worked(s, t)

\* What rp_dpcmddon makes of what the copying loops say.
Further(r) == IF r.ok THEN r.s ELSE Finish(r.s)

\* Words moved in their place and in order.
LEMMA OrderFact ==
    ASSUME NEW hh, Placed(hh), Padded(hh.moved), hh.moved \in Seq(Int \X Int), hh.from \in Nat
    PROVE  Service!InOrder(hh.moved)
<1> DEFINE m == hh.moved
           at == hh.from * NWds
<1>1. at \in Int BY DriveAssumption
<1>2. Len(m) \in Nat OBVIOUS
<1>3. \A i \in 1..Len(m) : m[i][1] = at + i - 1 BY DEF Placed
<1>4. \A i \in 1..Len(m) : m[i][2] \in {i, 0} /\ (i > 1 /\ m[i-1][2] = 0 => m[i][2] = 0)
  BY DEF Padded
<1> HIDE DEF m, at
<1>5. ASSUME NEW i \in 1..Len(m) PROVE m[i][1] = m[1][1] + i - 1
  <2>1. 1 \in 1..Len(m) BY <1>2
  <2>2. m[1][1] = at + 1 - 1 /\ m[i][1] = at + i - 1 BY <1>3, <2>1
  <2> QED BY <1>1, <2>2
<1>6. Service!InOrder(m) BY <1>4, <1>5 DEF Service!InOrder
<1> QED BY <1>6 DEF m

\* A transfer of which words have been moved (v) goes on or ends: the books are right, and so is
\* what the program sees.
LEMMA Onward ==
    ASSUME NEW s, Ours(s), Books(s, "moved"), NEW v, SameCtl(s.c, v.c), v.armed = FALSE,
           v.h.moved \in Seq(Int \X Int), Grown(s.h.moved, v.h.moved),
           NEW adr, NEW base, NEW r, Outcome(v, adr, base, r),
           r.ok \/ ~Failed(r.s.c) =>
               /\ v.h.taken + v.d.blkwds = SizeOf(s.c.ptcr)
               /\ Straight(v.h.moved) /\ Len(v.h.moved) = base,
           r.ok \/ Failed(r.s.c) \/ r.s.h.taken = base
    PROVE  Books(Further(r), "told") /\ Worked(s, Further(r))
<1>1. /\ "PCRF" \in s.c.cond /\ "CMD" \notin s.c.cond /\ s.c.bcnt = s.c.ptcr.blocks
      /\ "SCRF" \in s.c.cond => s.c.stcr \in Request
      /\ Act(s) = s.c.ptcr /\ Act(s) # NoReq /\ Rep(s) = "none"
  BY ActFact DEF Books, Ours, Act, Rep
<1>2. ASSUME NEW t, r = GoesOn(t), Gone(v, t), Continues(t, base)
      PROVE  Books(Further(r), "told") /\ Worked(s, Further(r))
  <2>1. Further(r) = t /\ r.ok BY <1>2 DEF Further, GoesOn
  <2>2. /\ t.c.cond = s.c.cond /\ t.c.ptcr = s.c.ptcr /\ t.c.stcr = s.c.stcr /\ t.c.bcnt = s.c.bcnt
        /\ t.armed = FALSE /\ t.h.moved = v.h.moved
        /\ t.h.taken + t.d.blkwds = v.h.taken + v.d.blkwds
    BY <1>2 DEF Gone, Kept, SameCtl, SameRegs
  <2>3. Accounts(t, "told")
    <3>1. t.h.taken + t.d.blkwds = SizeOf(t.c.ptcr) /\ Straight(t.h.moved) /\ Len(t.h.moved) = base
      BY <2>1, <2>2
    <3> QED BY <1>2, <2>2, <3>1 DEF Accounts
  <2>4. Ours(t) BY <2>2 DEF Ours
  <2>5. Books(t, "told") BY <1>1, <2>2, <2>3, <2>4 DEF Books
  <2>6. Act(t) = Act(s) /\ Wait(t) = Wait(s) /\ Rep(t) = Rep(s)
    BY <2>2, <2>4 DEF Act, Wait, Rep, Failed
  <2> QED BY <1>1, <2>1, <2>2, <2>5, <2>6 DEF Worked
<1>3. ASSUME NEW u, r = Fails(u), Ended(v, u)
      PROVE  Books(Further(r), "told") /\ Worked(s, Further(r))
  <2> DEFINE t == Finish(u)
  <2>1. Further(r) = t /\ ~r.ok /\ r.s = u BY <1>3 DEF Further, Fails
  <2>2. t.c = u.c /\ t.h = u.h
    <3>1. Parts(u) BY <1>3 DEF Ended, Kept
    <3> QED BY <3>1, FinishSame
  <2> HIDE DEF t
  <2>3. /\ "PCRF" \notin t.c.cond /\ "CMD" \in t.c.cond /\ t.h.moved = v.h.moved
        /\ t.c.stcr = s.c.stcr /\ ("SCRF" \in t.c.cond <=> "SCRF" \in s.c.cond)
        /\ Failed(t.c) \/ t.h.taken = v.h.taken + v.d.blkwds
    BY <1>3, <2>2 DEF Ended, Kept, SameCtl, SameRegs
  <2>4. ~Ours(t) BY <2>3 DEF Ours
  <2>5. Books(t, "told") BY <1>1, <2>3, <2>4 DEF Books
  <2>6. Act(t) = NoReq /\ Wait(t) = Wait(s) /\ Rep(t) # "none" BY <2>3, <2>4 DEF Act, Wait, Rep
  <2>7. ASSUME Rep(t) = "ok" PROVE Service!Complete(Act(s), t.h.moved)
    <3>1. ~Failed(t.c) BY <2>3, <2>7 DEF Rep
    <3>2. /\ v.h.taken + v.d.blkwds = SizeOf(s.c.ptcr) /\ Straight(t.h.moved)
          /\ Len(t.h.moved) = base /\ t.h.taken = base
      BY <2>1, <2>2, <2>3, <3>1
    <3>3. Len(t.h.moved) = SizeOf(Act(s)) BY <1>1, <2>3, <3>1, <3>2
    <3> QED BY <3>2, <3>3 DEF Straight, Service!Complete
  <2> QED BY <1>1, <2>1, <2>3, <2>5, <2>6, <2>7 DEF Worked
<1> QED BY <1>2, <1>3 DEF Outcome

\* A pack has been changed.
LEMMA MountDone ==
    ASSUME NEW s, Between(s), ~Ours(s), Books(s, "moved")
    PROVE  Handled(s, Finish(RpAttn(RpSsta(s))))
<1> DEFINE k == RpSsta(s)
           u == RpAttn(k)
           t == Finish(u)
<1>1. /\ Parts(k) /\ k.c = s.c /\ k.armed = s.armed /\ k.x = s.x /\ k.h = s.h
      /\ \A f \in DFields \ {"dry", "mol"} : k.d[f] = s.d[f]
  BY SstaFact DEF Between, Types
<1> HIDE DEF k
<1>2. /\ Parts(u) /\ Called(k.c, u.c) /\ u.c.cond \ {"MBA"} = k.c.cond \ {"MBA"}
      /\ u.c.wcnt = k.c.wcnt
      /\ u.armed = k.armed /\ u.x = k.x /\ u.h = k.h
      /\ \A f \in DFields \ {"atn"} : u.d[f] = k.d[f]
  BY <1>1, AttnState
<1> HIDE DEF u
<1>3. /\ SameRegs(s.c, u.c) /\ (Asks(s.c) => Asks(u.c))
      /\ "PCRF" \in u.c.cond <=> "PCRF" \in s.c.cond
  BY <1>1, <1>2 DEF Called
<1>4. Regs(u.c) BY <1>3 DEF SameRegs, Regs, Between, Types
<1>5. \A f \in {"st", "scmd", "adr", "dma", "dly"} : u.d[f] = s.d[f] BY <1>1, <1>2 DEF DFields
<1>6. u.armed = FALSE /\ u.x = s.x /\ u.h = s.h BY <1>1, <1>2 DEF Between
<1>7. Types(u) BY <1>2, <1>4, <1>5, <1>6 DEF Between, Types
<1>8. ~Ours(u) BY <1>3 DEF Ours, SameRegs
<1>9. u.h.panic = FALSE /\ Placed(u.h) /\ u.d.st # "BUSY" /\ u.x.cmd = "none"
  BY <1>5, <1>6 DEF Between
<1>10. /\ Good(t, "told") /\ t.c = u.c /\ t.d.st = u.d.st /\ t.x = u.x
  BY <1>6, <1>7, <1>8, <1>9, FinishFact
<1>11. t.h = s.h BY <1>2, <1>6, FinishSame
<1> HIDE DEF t
<1>12. Unseen(s, t)
  <2>1. \A b \in Told : b \in t.c.cond <=> b \in s.c.cond
    <3>1. \A b \in Told : b # "MBA" BY DEF Told, Errors
    <3> QED BY <1>1, <1>2, <1>10, <3>1
  <2>2. t.c.ptcr = s.c.ptcr /\ t.c.bcnt = s.c.bcnt /\ t.c.stcr = s.c.stcr
    BY <1>3, <1>10 DEF SameRegs
  <2> QED BY <2>1, <2>2 DEF Unseen
<1>13. Books(t, "told") /\ Worked(s, t)
  <2>1. /\ Books(t, "moved") /\ Act(t) = Act(s) /\ Wait(t) = Wait(s) /\ Rep(t) = Rep(s)
    BY <1>12, UnseenFact
  <2>2. ~Ours(t) BY <1>8, <1>10 DEF Ours
  <2>3. Books(t, "told") BY <2>1, <2>2 DEF Books
  <2> QED BY <1>11, <2>1, <2>3 DEF Worked
<1>14. Handled(s, t) BY <1>3, <1>9, <1>10, <1>13 DEF Handled
<1> QED BY <1>14 DEF t, u, k

\* A piece has been written.
LEMMA WriteDone ==
    ASSUME NEW s, Between(s), Ours(s), s.d.go = TRUE, s.d.scmd = s.c.ptcr.cmd,
           s.d.scmd = "WRT", s.d.begun = TRUE, Away(s),
           s.h.from * NWds + Len(s.h.moved) = (s.d.blkadr + s.x.scnt) * NWds, Books(s, "moved")
    PROVE  Handled(s, Further(Wrfilbuf(s)))
<1> DEFINE r == Wrfilbuf(s)
           adr == s.d.blkadr + s.x.scnt
<1>1. /\ Outcome(s, adr, Base(s), r)
      /\ s.x.err \/ Short(s) => ~r.ok /\ Failed(r.s.c)
      /\ r.ok \/ Failed(r.s.c) \/ r.s.h.taken = Base(s)
  <2>1. Parts(s) /\ s.d.st = "READY" /\ s.h.panic = FALSE BY DEF Between, Types
  <2> QED BY <2>1, WrFurtherFact
<1> HIDE DEF r
<1>2. s.d.scmd \in Xfers BY DEF Xfers
<1>a. Books(Further(r), "told") /\ Worked(s, Further(r))
  <2> DEFINE base == Base(s)
             m == s.h.moved
  <2>1. Parts(s) /\ Placed(s.h) /\ s.armed = FALSE /\ SameCtl(s.c, s.c)
    BY DEF Between, Types, SameCtl, SameRegs, Parts, Ctl
  <2>2. m \in Seq(Int \X Int) /\ s.h.from \in Nat BY <2>1 DEF Parts
  <2>3. /\ s.h.taken + s.d.blkwds = SizeOf(s.c.ptcr) /\ Padded(m)
        /\ s.x.err \/ Short(s) \/ (Straight(m) /\ Len(m) = base)
    BY <2>1 DEF Books, Accounts
  <2>4. Service!InOrder(m) BY <2>1, <2>2, <2>3, OrderFact
  <2>5. Grown(m, m) 
    <3> DEFINE Moves == Int \X Int
    <3>1. m \in Seq(Moves) BY <2>2
    <3> HIDE DEF m, Moves
    <3>2. SubSeq(m, 1, Len(m)) = m /\ Len(m) >= Len(m) BY <3>1
    <3> QED BY <2>4, <3>2 DEF Grown
  <2>6. r.ok \/ ~Failed(r.s.c) =>
               /\ s.h.taken + s.d.blkwds = SizeOf(s.c.ptcr)
               /\ Straight(m) /\ Len(m) = base
    BY <1>1, <2>3
  <2>7. Outcome(s, adr, base, r) /\ (r.ok \/ Failed(r.s.c) \/ r.s.h.taken = base) BY <1>1
  <2> HIDE DEF base, adr
  <2> QED BY <2>1, <2>2, <2>5, <2>6, <2>7, Onward
<1>3. ASSUME NEW t, r = GoesOn(t), Gone(s, t), t.d.blkadr = adr
      PROVE  Handled(s, Further(r))
  <2>1. s.h.from * NWds + Len(s.h.moved) = t.d.blkadr * NWds BY <1>3
  <2>2. Good(t, "told") /\ t.x.cmd # "none" /\ t.d.st = "BUSY" /\ (Asks(s.c) => Asks(t.c))
    BY <1>2, <1>3, <2>1, NextGood
  <2>3. Further(r) = t BY <1>3 DEF Further, GoesOn
  <2> QED BY <1>a, <2>2, <2>3 DEF Handled
<1>4. ASSUME NEW u, r = Fails(u), Ended(s, u)
      PROVE  Handled(s, Further(r))
  <2>1. /\ Good(Finish(u), "told") /\ Asks(Finish(u).c)
        /\ Finish(u).d.st # "BUSY" /\ Finish(u).x.cmd = "none"
    BY <1>2, <1>4, EndGood
  <2>2. Further(r) = Finish(u) BY <1>4 DEF Further, Fails
  <2> QED BY <1>a, <2>1, <2>2 DEF Handled
<1> HIDE DEF adr
<1>5. Handled(s, Further(r)) BY <1>1, <1>3, <1>4 DEF Outcome
<1> QED BY <1>5 DEF r

\* Disk words in a row from `first' on, all before `end'.
InRow(seq, first, end) ==
    \A i \in 1..Len(seq) : seq[i][1] = first + i - 1 /\ seq[i][1] < end

\* Two rows, the second where the first ends, are one.
LEMMA LaidOn ==
    ASSUME NEW Pairs, NEW old \in Seq(Pairs), NEW new \in Seq(Pairs), NEW end,
           NEW from \in Int, InRow(old, from, end), InRow(new, from + Len(old), end)
    PROVE  InRow(old \o new, from, end) /\ Len(old \o new) = Len(old) + Len(new)
<1> DEFINE all == old \o new
<1>1. Len(all) = Len(old) + Len(new) /\ Len(old) \in Nat /\ Len(new) \in Nat OBVIOUS
<1>2. /\ \A i \in 1..Len(old) : all[i] = old[i]
      /\ \A i \in 1..Len(new) : all[Len(old) + i] = new[i]
  OBVIOUS
<1> HIDE DEF all
<1>3. ASSUME NEW i \in 1..Len(all)
      PROVE  all[i][1] = from + i - 1 /\ all[i][1] < end
  <2>1. CASE i <= Len(old)
    <3>1. all[i] = old[i] /\ i \in 1..Len(old) BY <1>1, <1>2, <2>1
    <3> QED BY <3>1 DEF InRow
  <2>2. CASE i > Len(old)
    <3>1. PICK j \in 1..Len(new) : i = Len(old) + j
      <4>1. i - Len(old) \in 1..Len(new) /\ i = Len(old) + (i - Len(old)) BY <1>1, <2>2
      <4> QED BY <4>1
    <3>2. all[i] = new[j] BY <1>2, <3>1
    <3>3. new[j][1] = from + Len(old) + j - 1 /\ new[j][1] < end BY DEF InRow
    <3>4. from + Len(old) + j - 1 = from + i - 1 BY <1>1, <3>1
    <3> QED BY <3>2, <3>3, <3>4
  <2> QED BY <1>1, <2>1, <2>2
<1> QED BY <1>1, <1>3 DEF all, InRow

\* Words of the channel's after those moved, and padding, if any, after them.
LEMMA PaddedOn ==
    ASSUME NEW Pairs, NEW old \in Seq(Pairs), NEW new \in Seq(Pairs), Straight(old),
           NEW q \in 0..Len(new),
           \A i \in 1..Len(new) : new[i][2] = IF i <= q THEN Len(old) + i ELSE 0
    PROVE  /\ Padded(old \o new) /\ (q = Len(new) => Straight(old \o new))
           /\ Len(old \o new) = Len(old) + Len(new) /\ SubSeq(old \o new, 1, Len(old)) = old
<1> DEFINE all == old \o new
           n == Len(old)
<1>1. Len(all) = n + Len(new) /\ n \in Nat /\ Len(new) \in Nat OBVIOUS
<1>2. /\ \A i \in 1..n : all[i] = old[i]
      /\ \A i \in 1..Len(new) : all[n + i] = new[i]
  OBVIOUS
<1>3. SubSeq(all, 1, n) = old OBVIOUS
<1>4. \A i \in 1..n : old[i][2] = i BY DEF Straight
<1> HIDE DEF all
<1>5. ASSUME NEW i \in 1..Len(all)
      PROVE  all[i][2] = IF i <= n + q THEN i ELSE 0
  <2>1. CASE i <= n
    <3>1. all[i] = old[i] /\ i \in 1..n BY <1>1, <1>2, <2>1
    <3>2. all[i][2] = i BY <1>4, <3>1
    <3>3. i <= n + q BY <1>1, <2>1
    <3> QED BY <3>2, <3>3
  <2>2. CASE i > n
    <3>1. PICK j \in 1..Len(new) : i = n + j
      <4>1. i - n \in 1..Len(new) /\ i = n + (i - n) BY <1>1, <2>2
      <4> QED BY <4>1
    <3>2. all[i] = new[j] BY <1>2, <3>1
    <3>3. new[j][2] = IF j <= q THEN n + j ELSE 0 OBVIOUS
    <3>4. j <= q <=> i <= n + q BY <1>1, <3>1
    <3> QED BY <3>1, <3>2, <3>3, <3>4
  <2> QED BY <1>1, <2>1, <2>2
<1>6. Padded(all)
  <2>1. SUFFICES ASSUME NEW i \in 1..Len(all)
                 PROVE  all[i][2] \in {i, 0} /\ (i > 1 /\ all[i-1][2] = 0 => all[i][2] = 0)
    BY DEF Padded
  <2>2. ASSUME i > 1, all[i-1][2] = 0 PROVE all[i][2] = 0
    <3>1. i - 1 \in 1..Len(all) /\ i - 1 # 0 BY <1>1, <2>2
    <3>2. ~(i - 1 <= n + q) BY <1>5, <2>2, <3>1
    <3>3. ~(i <= n + q) BY <1>1, <3>1, <3>2
    <3> QED BY <1>5, <3>3
  <2> QED BY <1>5, <2>2
<1>7. ASSUME q = Len(new) PROVE Straight(all)
  <2>1. ASSUME NEW i \in 1..Len(all) PROVE all[i][2] = i
    <3>1. i <= n + q BY <1>1, <1>7
    <3> QED BY <1>5, <3>1
  <2> QED BY <2>1 DEF Straight
<1> QED BY <1>1, <1>3, <1>6, <1>7 DEF all

\* The words that the channel takes of a piece that has been read are the next in place.
LEMMA TookPlaced ==
    ASSUME NEW s, Parts(s), Placed(s.h), NEW v, NEW n, Took(s, v, n),
           NEW m \in Nat, n \in 0..m, NEW a \in Int, s.x.buf = Words(a, m),
           s.h.from * NWds + Len(s.h.moved) = a, a + m <= TotSecs * NWds
    PROVE  Placed(v.h) /\ v.h.from * NWds + Len(v.h.moved) = a + n
<1> DEFINE old == s.h.moved
           new == Received(s, n)
           from == s.h.from * NWds
           end == TotSecs * NWds
<1>1. /\ Len(s.x.buf) = m /\ \A i \in 1..m : s.x.buf[i] = a + i - 1
  BY WordsFact
<1>2. new \in Seq(Int \X Int) /\ Len(new) = n /\ \A i \in 1..n : new[i][1] = s.x.buf[i]
  <2>1. n \in 0..Len(s.x.buf) BY <1>1
  <2> QED BY <2>1, ReceivedFact
<1>3. old \in Seq(Int \X Int) BY DEF Parts
<1>4. v.h.from = s.h.from /\ v.h.moved = old \o new BY DEF Took
<1>5. from \in Int /\ end \in Int
  <2>1. s.h.from \in Nat /\ TotSecs \in Nat /\ NWds \in Nat BY DriveAssumption DEF Parts
  <2>2. s.h.from * NWds \in Nat /\ TotSecs * NWds \in Nat
    BY <2>1
  <2> QED BY <2>2
<1>6. InRow(old, from, end) BY DEF Placed, InRow
<1>7. from + Len(old) = a /\ a + m <= end OBVIOUS
<1> HIDE DEF old, new, from, end
<1>8. \A i \in 1..n : new[i][1] = a + i - 1 /\ a + i - 1 < end BY <1>1, <1>2, <1>5, <1>7
<1>9. InRow(new, from + Len(old), end) BY <1>2, <1>7, <1>8 DEF InRow
<1>10. InRow(old \o new, from, end) /\ Len(old \o new) = Len(old) + n
  BY <1>2, <1>3, <1>5, <1>6, <1>9, LaidOn
<1>11. from + Len(old \o new) = a + n
  <2>1. Len(old) \in Nat BY <1>3
  <2> QED BY <1>5, <1>7, <1>10, <2>1
<1>12. v.h.from * NWds = from BY <1>4 DEF from
<1>13. Placed(v.h) BY <1>4, <1>10, <1>12 DEF Placed, InRow, end
<1> QED BY <1>4, <1>11, <1>12, <1>13

\* A piece has been read.
LEMMA ReadDone ==
    ASSUME NEW s, Between(s), Ours(s), s.d.go = TRUE, s.d.scmd = s.c.ptcr.cmd,
           s.d.scmd = "RED", s.d.begun = TRUE, Away(s),
           s.h.from * NWds + Len(s.h.moved) = s.d.blkadr * NWds,
           s.x.buf = Words(s.x.daddr * NWds, s.x.scnt * NWds), Books(s, "moved")
    PROVE  Handled(s, Further(Rdflsbuf(s)))
<1> DEFINE r == Rdflsbuf(s)
           adr == s.d.blkadr + s.x.scnt
           m == s.x.scnt * NWds
           a == s.d.blkadr * NWds
<1>1. /\ s.d.blkadr \in Nat /\ s.x.scnt \in Nat /\ s.x.daddr = s.d.blkadr /\ adr \in Nat
      /\ adr <= TotSecs
  BY DEF Away, Space
<1>2. m \in Nat /\ a \in Int /\ a + m = adr * NWds /\ adr * NWds <= TotSecs * NWds
  <2>1. s.d.blkadr \in Int /\ s.x.scnt \in Int /\ TotSecs \in Nat BY <1>1, DriveAssumption
  <2>2. (s.d.blkadr + s.x.scnt) * NWds = s.d.blkadr * NWds + s.x.scnt * NWds BY <2>1, Distr
  <2>3. m \in Nat /\ a \in Int BY <1>1, DriveAssumption
  <2>4. adr * NWds <= TotSecs * NWds
    <3> HIDE DEF adr
    <3> QED BY <1>1, <2>1, Prod
  <2> QED BY <2>2, <2>3, <2>4
<1>3. Parts(s) /\ s.d.st = "READY" /\ s.h.panic = FALSE /\ s.d.dma \in BOOLEAN /\ Placed(s.h)
  BY DEF Between, Types
<1>4. s.x.buf = Words(a, m) BY <1>1
<1>5. Len(s.x.buf) = m
  <2> HIDE DEF a, m
  <2> QED BY <1>2, <1>4, WordsFact
<1>6. PICK v, n : /\ Took(s, v, n) /\ n \in 0..m /\ Outcome(v, adr, v.h.taken, r)
                  /\ r.ok => n = m
                  /\ (~r.ok /\ Failed(r.s.c)) \/ v.d.blkwds = s.d.blkwds - n
                  /\ r.ok \/ Failed(r.s.c) \/ r.s.h.taken = v.h.taken
  BY <1>3, <1>5, RdFurtherFact
<1>7. Placed(v.h) /\ v.h.from * NWds + Len(v.h.moved) = a + n
  <2>1. s.h.from * NWds + Len(s.h.moved) = a /\ a + m <= TotSecs * NWds BY <1>2
  <2> HIDE DEF a, m, r, adr
  <2> QED BY <1>2, <1>3, <1>4, <1>6, <2>1, TookPlaced
<1> HIDE DEF r, adr, m, a
<1>8. /\ Parts(v) /\ SameCtl(s.c, v.c) /\ v.armed = s.armed /\ v.x = s.x
      /\ v.h.panic = s.h.panic
      /\ \A f \in DFields \ {"blkwds", "blklim"} : v.d[f] = s.d[f]
  BY <1>6 DEF Took
<1>9. /\ v.d.st = "READY" /\ v.d.scmd = "RED" /\ v.d.go = TRUE
      /\ \A f \in {"adr", "dma", "dly"} : v.d[f] = s.d[f]
  BY <1>3, <1>8 DEF DFields
<1>10. Ours(v) /\ v.c.ptcr = s.c.ptcr /\ (Asks(s.c) => Asks(v.c))
  BY <1>8 DEF SameCtl, SameRegs, Ours, Asks, Interrupting
<1>11. Between(v)
  <2>1. Regs(v.c) BY <1>8 DEF SameCtl, SameRegs, Between, Types, Regs
  <2>2. Types(v) BY <1>8, <1>9, <2>1 DEF Between, Types, Xfers
  <2> QED BY <1>7, <1>8, <1>9, <2>2 DEF Between
<1>12. v.d.scmd \in Xfers BY <1>9 DEF Xfers
<1>a. Books(Further(r), "told") /\ Worked(s, Further(r))
  <2> DEFINE old == s.h.moved
             new == Received(s, n)
             Moves == Int \X Int
             all == v.h.moved
             base == v.h.taken
  <2>1. old \in Seq(Moves) /\ s.h.from \in Nat /\ s.h.taken \in Int /\ s.d.blkwds \in Int
    BY <1>3 DEF Parts, Away, Space
  <2>2. new \in Seq(Moves) /\ Len(new) = n /\ \A i \in 1..n : new[i][2] = s.h.taken + i
    <3>1. n \in 0..Len(s.x.buf) BY <1>5, <1>6
    <3>2. /\ new \in Seq(Moves) /\ Len(new) = n
          /\ \A i \in 1..n : new[i] = <<s.x.buf[i], s.h.taken + i>>
      BY <1>3, <3>1, ReceivedFact
    <3> HIDE DEF new
    <3> QED BY <3>2
  <2>3. /\ s.h.taken + s.d.blkwds = SizeOf(s.c.ptcr) /\ Straight(old) /\ s.h.taken = Len(old)
    <3>1. s.armed = FALSE /\ s.d.scmd # "WRT" BY DEF Between
    <3> QED BY <3>1 DEF Books, Accounts, Continues
  <2>4. all = old \o new /\ base = s.h.taken + n /\ v.h.from = s.h.from /\ v.armed = FALSE
    BY <1>6 DEF Took, Between
  <2>5. n \in Nat BY <1>2, <1>6
  <2> HIDE DEF old, new, Moves
  <2>6. /\ Straight(all) /\ Padded(all) /\ Len(all) = Len(old) + n
        /\ SubSeq(all, 1, Len(old)) = old
    <3>1. n \in 0..Len(new) BY <2>2, <2>5
    <3>2. \A i \in 1..Len(new) : new[i][2] = IF i <= n THEN Len(old) + i ELSE 0
      BY <2>2, <2>3, <2>5
    <3>3. Straight(old) BY <2>3
    <3>4. /\ Padded(old \o new) /\ (n = Len(new) => Straight(old \o new))
          /\ Len(old \o new) = Len(old) + Len(new) /\ SubSeq(old \o new, 1, Len(old)) = old
      BY <2>1, <2>2, <3>1, <3>2, <3>3, PaddedOn
    <3> QED BY <2>2, <2>4, <3>4
  <2>7. all \in Seq(Moves) BY <2>1, <2>2, <2>4
  <2>8. Service!InOrder(all) BY <1>7, <2>1, <2>4, <2>6, <2>7, OrderFact DEF Moves
  <2>9. Grown(old, all)
    <3>1. Len(old) \in Nat BY <2>1
    <3>2. Len(all) >= Len(old) BY <2>5, <2>6, <3>1
    <3> QED BY <2>6, <2>8, <3>2 DEF Grown
  <2>10. Len(all) = base BY <2>3, <2>4, <2>6
  <2>11. r.ok \/ ~Failed(r.s.c) =>
               /\ v.h.taken + v.d.blkwds = SizeOf(s.c.ptcr)
               /\ Straight(all) /\ Len(all) = base
    <3>1. v.d.blkwds = s.d.blkwds - n => v.h.taken + v.d.blkwds = s.h.taken + s.d.blkwds
      BY <2>1, <2>4, <2>5
    <3> QED BY <1>6, <2>3, <2>6, <2>10, <3>1
  <2>12. SameCtl(s.c, v.c) /\ all \in Seq(Int \X Int) /\ Grown(s.h.moved, all)
    BY <1>8, <2>7, <2>9 DEF old, Moves
  <2>13. Outcome(v, adr, base, r) /\ (r.ok \/ Failed(r.s.c) \/ r.s.h.taken = base) BY <1>6
  <2> HIDE DEF base
  <2> QED BY <2>4, <2>11, <2>12, <2>13, Onward
<1>13. ASSUME NEW t, r = GoesOn(t), Gone(v, t), t.d.blkadr = adr
       PROVE  Handled(s, Further(r))
  <2>1. n = m BY <1>6, <1>13 DEF GoesOn
  <2>2. v.h.from * NWds + Len(v.h.moved) = t.d.blkadr * NWds BY <1>2, <1>7, <1>13, <2>1
  <2>3. v.d.scmd = v.c.ptcr.cmd BY <1>9, <1>10
  <2>4. Good(t, "told") /\ t.x.cmd # "none" /\ t.d.st = "BUSY" /\ (Asks(v.c) => Asks(t.c))
    BY <1>9, <1>10, <1>11, <1>12, <1>13, <2>2, <2>3, NextGood
  <2>5. Further(r) = t BY <1>13 DEF Further, GoesOn
  <2> QED BY <1>a, <1>10, <2>4, <2>5 DEF Handled
<1>14. ASSUME NEW u, r = Fails(u), Ended(v, u)
       PROVE  Handled(s, Further(r))
  <2>1. /\ Good(Finish(u), "told") /\ Asks(Finish(u).c)
        /\ Finish(u).d.st # "BUSY" /\ Finish(u).x.cmd = "none"
    BY <1>11, <1>12, <1>14, EndGood
  <2>2. Further(r) = Finish(u) BY <1>14 DEF Further, Fails
  <2> QED BY <1>a, <2>1, <2>2 DEF Handled
<1>15. Handled(s, Further(r)) BY <1>6, <1>13, <1>14 DEF Outcome
<1> QED BY <1>15 DEF r

\* rpxx_evhsdon: a command of the subprocess's is done, and it is quiescent.
LEMMA EvhsdonGood ==
    ASSUME NEW s, Good(s, "moved"), s.d.st = "BUSY", s.x.cmd = "none", Books(s, "moved")
    PROVE  Handled(s, RpEvhsdon(s))
<1> DEFINE k == [s EXCEPT !.d.st = "READY"]
<1>1. /\ Types(s) /\ Parts(s) /\ Carried(s) /\ InPlace(s, "moved") /\ s.h.panic = FALSE
  BY DEF Good, Types
<1>2. RpEvhsdon(s) = RpDpcmddon(k) BY DEF RpEvhsdon
<1>3. /\ DOMAIN k = {"c", "d", "armed", "x", "h"} /\ k.c = s.c /\ k.armed = s.armed
      /\ k.x = s.x /\ k.h = s.h /\ DOMAIN k.d = DFields /\ k.d.st = "READY"
      /\ \A f \in DFields \ {"st"} : k.d[f] = s.d[f]
  BY <1>1 DEF Parts, DFields
<1> HIDE DEF k
<1>4. Parts(k) BY <1>1, <1>3 DEF Parts, DFields
<1>5. Types(k) BY <1>1, <1>3, <1>4 DEF Types, DFields
<1>6. s.armed = FALSE BY <1>1 DEF Carried, Types
<1>7. Between(k) BY <1>1, <1>3, <1>5, <1>6 DEF Between, InPlace
<1>8. /\ Books(k, "moved") /\ \A t : Handled(k, t) => Handled(s, t)
  <2>1. Steady(s, k) BY <1>3 DEF Steady, DFields
  <2>2. Unseen(s, k) BY <1>3, <2>1 DEF Unseen
  <2>3. /\ Books(k, "moved") /\ Act(k) = Act(s) /\ Wait(k) = Wait(s) /\ Rep(k) = Rep(s)
    BY <2>2, UnseenFact
  <2>4. \A t : Worked(k, t) => Worked(s, t) BY <1>3, <2>3 DEF Worked
  <2> QED BY <1>3, <2>3, <2>4 DEF Handled
<1>9. CASE s.d.scmd = "MOUNT"
  <2>1. ~Ours(k) BY <1>1, <1>3, <1>9 DEF Carried, Ours
  <2>2. RpEvhsdon(s) = Finish(RpAttn(RpSsta(k)))
    <3>1. k.d.scmd = "MOUNT" BY <1>3, <1>9 DEF DFields
    <3>2. k.d.scmd \notin Xfers /\ k.d.scmd # "none" BY <3>1 DEF Xfers
    <3>3. RpDpcmddon(k) = RpSsta(GoOff([RpAttn(RpSsta(k)) EXCEPT !.d.scmd = "none"]))
      BY <3>1, <3>2 DEF RpDpcmddon
    <3> QED BY <1>2, <3>3 DEF Finish
  <2>3. Handled(k, Finish(RpAttn(RpSsta(k)))) BY <1>7, <1>8, <2>1, MountDone
  <2> QED BY <1>8, <2>2, <2>3
<1>10. CASE s.d.scmd # "MOUNT"
  <2>1. /\ s.d.go = TRUE /\ Ours(s) /\ s.d.scmd = s.c.ptcr.cmd /\ s.d.begun = TRUE /\ Away(s)
    BY <1>1, <1>6, <1>10 DEF Carried, Parts
  <2>2. s.d.scmd \in Xfers
    <3>1. s.c.ptcr \in Request \cup {NoReq} /\ s.c.ptcr.drv = "rp"
      BY <1>1, <2>1 DEF Types, Regs, Ours
    <3>2. s.c.ptcr \in Request BY <3>1 DEF NoReq
    <3> QED BY <2>1, <3>2, MonitorAssumption
  <2>3. /\ Ours(k) /\ k.d.go = TRUE /\ k.d.scmd = k.c.ptcr.cmd /\ k.d.begun = TRUE
        /\ k.d.scmd = s.d.scmd /\ k.d.blkadr = s.d.blkadr
    BY <1>3, <2>1 DEF Ours, DFields
  <2>4. Away(k) BY <1>3, <2>1 DEF Away, Space, Fits, Whole, DFields
  <2>5. RpEvhsdon(s) = Further(IF k.d.scmd = "WRT" THEN Wrfilbuf(k) ELSE Rdflsbuf(k))
    <3>1. k.d.scmd \in Xfers /\ k.d.scmd # "MOUNT" /\ k.d.scmd # "none"
      BY <2>2, <2>3 DEF Xfers
    <3> QED BY <1>2, <3>1 DEF RpDpcmddon, Further, Finish
  <2>6. CASE s.d.scmd = "WRT"
    <3>1. k.h.from * NWds + Len(k.h.moved) = (k.d.blkadr + k.x.scnt) * NWds
      BY <1>1, <1>3, <1>6, <2>1, <2>3, <2>6 DEF InPlace
    <3>2. k.d.scmd = "WRT" BY <2>3, <2>6
    <3>3. Handled(k, Further(Wrfilbuf(k))) BY <1>7, <1>8, <2>3, <2>4, <3>1, <3>2, WriteDone
    <3> QED BY <1>8, <2>5, <3>2, <3>3
  <2>7. CASE s.d.scmd # "WRT"
    <3>1. /\ k.h.from * NWds + Len(k.h.moved) = k.d.blkadr * NWds
          /\ k.x.buf = Words(k.x.daddr * NWds, k.x.scnt * NWds)
      BY <1>1, <1>3, <1>6, <2>1, <2>3, <2>7 DEF InPlace
    <3>2. k.d.scmd = "RED" BY <2>2, <2>3, <2>7 DEF Xfers
    <3>3. Handled(k, Further(Rdflsbuf(k))) BY <1>7, <1>8, <2>3, <2>4, <3>1, <3>2, ReadDone
    <3> QED BY <1>8, <2>5, <3>2, <3>3
  <2> QED BY <2>6, <2>7
<1> QED BY <1>9, <1>10

\* rpxx_mount, the drive being idle.
LEMMA MountGood ==
    ASSUME NEW s, NEW e, Good(s, e), s.d.go = FALSE, s.d.scmd # "MOUNT", NEW pack
    PROVE  /\ Good(RpMount(s, pack), e) /\ Sent(s, RpMount(s, pack))
           /\ RpMount(s, pack).c = s.c /\ RpMount(s, pack).h = s.h
<1> DEFINE k == [s EXCEPT !.d.scmd = "MOUNT", !.d.st = IF @ = "OFF" THEN "READY" ELSE @,
                          !.x.buf = <<>>, !.x.pack = pack]
           t == [k EXCEPT !.d.st = "BUSY", !.x.cmd = "MOUNT"]
<1>1. Resting(s) /\ Placed(s.h) /\ e = "told" BY GoodRests
<1>2. Types(s) /\ Parts(s) /\ s.h.panic = FALSE BY DEF Good, Types
<1>3. CASE s.d.st = "OFF" /\ pack = "none"
  <2>1. RpMount(s, pack) = s BY <1>3 DEF RpMount
  <2> QED BY <2>1 DEF Sent
<1>4. CASE ~(s.d.st = "OFF" /\ pack = "none")
  <2>1. /\ DOMAIN k = {"c", "d", "armed", "x", "h"} /\ k.c = s.c /\ k.armed = s.armed
        /\ k.h = s.h /\ DOMAIN k.d = DFields /\ k.d.scmd = "MOUNT" /\ k.d.st = "READY"
        /\ DOMAIN k.x = XFields /\ k.x.buf = <<>>
        /\ \A f \in DFields \ {"st", "scmd"} : k.d[f] = s.d[f]
        /\ \A f \in XFields \ {"buf", "pack"} : k.x[f] = s.x[f]
    BY <1>1, <1>2 DEF Parts, Types, Resting, DFields, XFields
  <2>2. RpMount(s, pack) = RpDpcmd(k, "MOUNT") BY <1>1, <1>4 DEF RpMount, Resting
  <2> HIDE DEF k
  <2>3. RpMount(s, pack) = t BY <2>1, <2>2 DEF RpDpcmd
  <2>4. /\ DOMAIN t = {"c", "d", "armed", "x", "h"} /\ t.c = s.c /\ t.armed = s.armed
        /\ t.h = s.h /\ DOMAIN t.d = DFields /\ t.d.scmd = "MOUNT" /\ t.d.st = "BUSY"
        /\ DOMAIN t.x = XFields /\ t.x.buf = <<>> /\ t.x.cmd = "MOUNT"
        /\ \A f \in DFields \ {"st", "scmd"} : t.d[f] = s.d[f]
        /\ \A f \in XFields \ {"buf", "pack", "cmd"} : t.x[f] = s.x[f]
    BY <2>1 DEF DFields, XFields
  <2> HIDE DEF t
  <2>5. Parts(t)
    <3>1. t.x.buf \in Seq(Int) BY <2>4
    <3> QED BY <1>2, <2>4, <3>1 DEF Parts, DFields, XFields
  <2>6. Types(t) BY <1>2, <2>4, <2>5 DEF Types, DFields, XFields
  <2>7. t.d.go = FALSE /\ t.armed = FALSE /\ ~Ours(t) BY <1>1, <2>4 DEF Resting, Ours, DFields
  <2>8. Carried(t) BY <2>4, <2>7 DEF Carried, Kind
  <2>9. InPlace(t, "told") BY <1>1, <2>4, <2>7 DEF InPlace
  <2>10. Good(t, "told") BY <1>2, <2>4, <2>6, <2>8, <2>9 DEF Good
  <2>11. Sent(s, t) BY <1>1, <2>4 DEF Resting, Sent
  <2> QED BY <1>1, <2>3, <2>4, <2>10, <2>11
<1> QED BY <1>3, <1>4

-----------------------------------------------------------------------------
(* Steps                                                                   *)

\* The state that Becomes leaves.
Tidier(s) == [c |-> Tidy(s).c, d |-> Tidy(s).d, armed |-> s.armed, x |-> Tidy(s).x, h |-> Tidy(s).h]

\* The program sees no difference, but that an acknowledged transfer's words are forgotten.
Forgets(s, t) ==
    /\ Act(t) = Act(s) /\ Wait(t) = Wait(s) /\ Rep(t) = Rep(s) /\ Dropped(t)
    /\ \/ t.h.moved = s.h.moved
       \/ t.h.moved = <<>> /\ Act(s) = NoReq /\ Rep(s) = "none"

\* Forgetting what is left over of a transfer keeps the invariant.
LEMMA TidyFact ==
    ASSUME NEW s, NEW e, Good(s, e), Asks(s.c), Books(s, e)
    PROVE  /\ Good(Tidier(s), e) /\ Asks(Tidier(s).c) /\ Tidied(Tidier(s))
           /\ Tidier(s).d.st = s.d.st /\ Tidier(s).x.cmd = s.x.cmd
           /\ Books(Tidier(s), e) /\ Forgets(s, Tidier(s))
<1> DEFINE t == Tidier(s)
           away == s.d.go /\ ~s.armed
<1>1. /\ Types(s) /\ Parts(s) /\ Carried(s) /\ InPlace(s, e) /\ s.h.panic = FALSE /\ Ctl(s.c)
      /\ Regs(s.c) /\ DOMAIN s.c = CFields
  BY DEF Good, Types, Parts, Ctl
<1>2. /\ DOMAIN t = {"c", "d", "armed", "x", "h"} /\ t.armed = s.armed
      /\ t.c = Tidy(s).c /\ t.d = Tidy(s).d /\ t.x = Tidy(s).x /\ t.h = Tidy(s).h
  BY DEF Tidier
<1> HIDE DEF t
<1>3. /\ DOMAIN t.c = CFields
      /\ \A f \in {"cond", "req", "pilev", "draes", "attn", "stcr", "sbarf", "list"} :
            t.c[f] = s.c[f]
      /\ t.c.ptcr \in {s.c.ptcr, NoReq} /\ t.c.bcnt \in {s.c.bcnt, 0}
      /\ t.c.wcnt \in {s.c.wcnt, 0} /\ t.c.sbar \in {s.c.sbar, 0}
      /\ "PCRF" \in s.c.cond => t.c.ptcr = s.c.ptcr /\ t.c.wcnt = s.c.wcnt /\ t.c.bcnt = s.c.bcnt
  BY <1>1, <1>2 DEF Tidy, CFields
<1>4. /\ DOMAIN t.d = DFields
      /\ \A f \in DFields \ {"blkadr", "blkwds", "blklim", "begun", "direct"} : t.d[f] = s.d[f]
      /\ away => t.d = s.d
      /\ ~away => t.d.blkadr = 0 /\ t.d.blkwds = 0 /\ t.d.blklim = 0
  BY ZenonT(40), <1>1, <1>2 DEF Tidy, Parts, DFields
<1>5. /\ DOMAIN t.x = XFields /\ t.x.mol = s.x.mol /\ t.x.err = s.x.err /\ t.x.cmd = s.x.cmd
      /\ t.x.scnt \in {s.x.scnt, 0} /\ t.x.daddr \in {s.x.daddr, 0} /\ t.x.buf \in {s.x.buf, <<>>}
      /\ away => t.x = s.x
  BY <1>1, <1>2 DEF Tidy, Parts, XFields
<1>6. /\ DOMAIN t.h = HFields /\ t.h.panic = s.h.panic
      /\ IF "CMD" \in s.c.cond \/ s.d.go THEN t.h = s.h
         ELSE t.h.from = 0 /\ t.h.taken = 0 /\ t.h.moved = <<>>
  BY <1>1, <1>2 DEF Tidy, Parts, HFields
<1>7. /\ t.d.go = s.d.go /\ t.d.st = s.d.st /\ t.d.scmd = s.d.scmd /\ t.d.adr = s.d.adr
      /\ t.d.dma = s.d.dma /\ t.d.dly = s.d.dly /\ t.d.atn = s.d.atn /\ t.d.mol = s.d.mol
      /\ t.d.serr = s.d.serr
  BY <1>4 DEF DFields
<1>8. Ctl(t.c) /\ t.c.attn = s.c.attn /\ Asks(t.c)
  <2>1. t.c.wcnt \in Nat BY <1>1, <1>3 DEF Ctl
  <2>2. /\ t.c.cond = s.c.cond /\ t.c.req = s.c.req /\ t.c.pilev = s.c.pilev
        /\ t.c.draes = s.c.draes /\ t.c.attn = s.c.attn /\ t.c.list = s.c.list
    BY <1>3
  <2>3. Ctl(t.c) BY <1>1, <1>3, <2>1, <2>2 DEF Ctl
  <2>4. Asks(t.c) BY <2>2 DEF Asks, Interrupting
  <2> QED BY <2>2, <2>3, <2>4
<1>9. Regs(t.c)
  <2>1. t.c.ptcr \in Request \cup {NoReq} /\ t.c.bcnt \in Nat /\ t.c.sbar \in Nat
        /\ t.c.sbar \in Addresses \cup {0}
    BY <1>1, <1>3 DEF Regs
  <2>2. t.c.stcr = s.c.stcr /\ t.c.sbarf = s.c.sbarf BY <1>3
  <2> QED BY <1>1, <2>1, <2>2 DEF Regs
<1>10. Parts(t)
  <2> DEFINE Bufs == Seq(Int)
             Moves == Seq(Int \X Int)
  <2>a. <<>> \in Bufs /\ <<>> \in Moves OBVIOUS
  <2>b. /\ s.x.buf \in Bufs /\ s.h.moved \in Moves /\ s.h.from \in Nat /\ s.h.taken \in Int
    BY <1>1 DEF Parts
  <2> HIDE DEF Bufs, Moves
  <2>c. t.x.buf \in Bufs BY <1>5, <2>a, <2>b
  <2>d. t.h.from \in Nat /\ t.h.taken \in Int /\ t.h.moved \in Moves BY <1>6, <2>a, <2>b
  <2>1. t.x.buf \in Seq(Int) BY <2>c DEF Bufs
  <2>2. t.h.from \in Nat /\ t.h.taken \in Int /\ t.h.moved \in Seq(Int \X Int) BY <2>d DEF Moves
  <2> QED BY <1>1, <1>2, <1>4, <1>5, <1>6, <1>7, <1>8, <2>1, <2>2 DEF Parts
<1>11. Types(t)
  <2>1. t.x.scnt \in 0..TotSecs /\ t.x.daddr \in 0..TotSecs
    BY <1>1, <1>5, DriveAssumption DEF Types
  <2> QED BY <1>1, <1>2, <1>5, <1>7, <1>9, <1>10, <2>1 DEF Types
<1>12. Ours(t) <=> Ours(s) BY <1>3 DEF Ours
<1>13. Ours(s) => t.c.ptcr = s.c.ptcr /\ t.c.wcnt = s.c.wcnt BY <1>3 DEF Ours
<1>14. Carried(t)
  <2>1. ASSUME away PROVE Away(t)
    <3>1. Away(s) /\ Ours(s) BY <1>1, <2>1 DEF Carried
    <3>2. t.d = s.d /\ t.x = s.x /\ t.c.wcnt = s.c.wcnt BY <1>4, <1>5, <1>13, <2>1, <3>1
    <3> QED BY <3>1, <3>2 DEF Away
  <2>2. away => t.d.begun = TRUE BY <1>1, <1>4 DEF Carried
  <2> QED BY <1>1, <1>2, <1>5, <1>7, <1>12, <1>13, <2>1, <2>2 DEF Carried
<1>15. InPlace(t, e)
  <2>1. Placed(t.h) BY <1>1, <1>6 DEF InPlace, Placed
  <2>2. s.armed => s.d.go BY <1>1 DEF Carried
  <2>3. ASSUME t.armed PROVE t.h.moved = <<>> /\ t.h.from = t.d.adr
    BY <1>1, <1>2, <1>6, <1>7, <2>2, <2>3 DEF InPlace
  <2>4. CASE away
    <3>1. t.d = s.d /\ t.x = s.x /\ t.h = s.h BY <1>4, <1>5, <1>6, <2>4
    <3> QED BY <1>1, <1>2, <3>1 DEF InPlace
  <2>5. CASE ~away BY <1>2, <1>7, <2>1, <2>3, <2>5 DEF InPlace
  <2> QED BY <2>4, <2>5
<1>16. Good(t, e) BY <1>1, <1>5, <1>6, <1>7, <1>11, <1>14, <1>15 DEF Good
<1>17. Tidied(t) BY <1>2, <1>4, <1>7 DEF Tidied
<1>18. s.d.go <=> Ours(s) BY <1>1 DEF Carried
<1>19. Act(t) = Act(s) /\ Wait(t) = Wait(s) /\ Rep(t) = Rep(s)
  BY <1>3, <1>12, <1>13 DEF Act, Wait, Rep, Failed
<1>20. Forgets(s, t)
  <2>1. CASE "CMD" \in s.c.cond \/ Ours(s)
    BY <1>3, <1>6, <1>12, <1>18, <1>19, <2>1 DEF Forgets, Dropped
  <2>2. CASE ~("CMD" \in s.c.cond \/ Ours(s))
    <3>1. t.h.moved = <<>> BY <1>6, <1>18, <2>2
    <3>2. Act(s) = NoReq /\ Rep(s) = "none" BY <2>2, ActFact DEF Rep
    <3> QED BY <1>19, <3>1, <3>2 DEF Forgets, Dropped
  <2> QED BY <2>1, <2>2
<1>21. ASSUME Ours(s) PROVE Accounts(s, e) => Accounts(t, e)
  <2>1. s.d.go /\ t.h = s.h /\ t.c.ptcr = s.c.ptcr /\ t.c.wcnt = s.c.wcnt BY <1>6, <1>13, <1>18, <1>21
  <2>2. CASE s.armed BY <1>2, <2>1, <2>2 DEF Accounts
  <2>3. CASE ~s.armed
    <3>1. t.d = s.d /\ t.x = s.x BY <1>4, <1>5, <2>1, <2>3
    <3>2. Steady(s, t) BY <1>2, <2>1, <3>1 DEF Steady
    <3> QED BY <2>1, <3>2, SteadyFact
  <2> QED BY <2>2, <2>3
<1>22. Books(t, e)
  <2>1. ASSUME Ours(t) PROVE "CMD" \notin t.c.cond /\ t.c.bcnt = t.c.ptcr.blocks /\ Accounts(t, e)
    BY <1>3, <1>12, <1>21, <2>1 DEF Books, Ours
  <2>2. "PCRF" \in t.c.cond /\ ~Ours(t) => "CMD" \in t.c.cond /\ Failed(t.c)
    BY <1>3, <1>12 DEF Books, Failed
  <2>3. "SCRF" \in t.c.cond => t.c.stcr \in Request /\ (Ours(t) \/ "CMD" \in t.c.cond)
    BY <1>3, <1>12 DEF Books
  <2> QED BY <2>1, <2>2, <2>3 DEF Books
<1> QED BY <1>5, <1>7, <1>8, <1>16, <1>17, <1>20, <1>22 DEF t

\* Sending a command keeps the books of what the subprocess does.
LEMMA SlaveFact ==
    ASSUME NEW s, NEW p, NEW dn, Slave(s, p, dn), NEW t, Sent(s, t)
    PROVE  Slave(t, p, dn)
BY DEF Slave, Sent

\* What an action may show the program of the state it comes to: a piece of the transfer under way,
\* a transfer loaded, the one that waited begun, or no longer waiting.
Offers(s, t) ==
    \/ Worked(s, t)
    \/ Wait(s) = NoReq /\ \E r \in Request : Loads(s, r, t)
    \/ /\ Act(s) = NoReq /\ Rep(s) # "none" /\ Wait(s) = s.c.stcr /\ Wait(s) # NoReq
       /\ Answered(s, t)
    \/ /\ Act(s) = NoReq /\ Act(t) = NoReq /\ Wait(t) = NoReq /\ Rep(t) \in {Rep(s), "none"}
       /\ t.h.moved = s.h.moved

\* An action does what Transfers promises, or nothing that the program sees.
Serves == Service!Next \/ UNCHANGED <<Active, Waiting, ReportOf, h.moved>>

\* A piece leaves nothing of a transfer whose report has been acknowledged.
LEMMA WorkedForgets ==
    ASSUME NEW s, NEW t, Dropped(s), Worked(s, t)
    PROVE  Forgets(t, t)
<1>1. Act(s) = NoReq <=> ~Ours(s) BY ActFact
<1>2. Act(t) = NoReq <=> ~Ours(t) BY ActFact
<1>3. (Rep(s) = "none" <=> "CMD" \notin s.c.cond) /\ (Rep(t) = "none" <=> "CMD" \notin t.c.cond)
  BY DEF Rep
<1>4. Dropped(t) BY <1>1, <1>2, <1>3 DEF Dropped, Worked
<1> QED BY <1>4 DEF Forgets

\* What an action offers, forgetting what has been acknowledged, is what Transfers promises.
LEMMA ServesFact ==
    ASSUME NEW s, s = S, Dropped(s), s.h.moved \in Seq(Int \X Int),
           NEW t, Offers(s, t), t.h.moved \in Seq(Int \X Int),
           NEW u, Forgets(t, u), c' = u.c, h' = u.h
    PROVE  Serves
<1>1. Active = Act(s) /\ Waiting = Wait(s) /\ ReportOf = Rep(s) /\ h = s.h
  <2>1. c = s.c /\ h = s.h BY DEF S
  <2> QED BY <2>1 DEF Active, Act, Ours, Waiting, Wait, ReportOf, Rep, Failed
<1>2. Active' = Act(t) /\ Waiting' = Wait(t) /\ ReportOf' = Rep(t)
  <2>1. Active' = Act(u) /\ Waiting' = Wait(u) /\ ReportOf' = Rep(u)
    BY DEF Active, Act, Ours, Waiting, Wait, ReportOf, Rep, Failed
  <2> QED BY <2>1 DEF Forgets
<1>3. h.moved = s.h.moved BY <1>1
<1>4. \/ h'.moved = t.h.moved
      \/ h'.moved = <<>> /\ Act(t) = NoReq /\ Rep(t) = "none"
  BY DEF Forgets
<1>5. Act(s) = NoReq /\ Rep(s) = "none" => s.h.moved = <<>>
  <2>1. "CMD" \in s.c.cond => Rep(s) # "none" BY DEF Rep
  <2> QED BY <2>1, ActFact DEF Dropped
<1>6. ASSUME Act(t) = Act(s), Wait(t) = Wait(s), Rep(t) = Rep(s), t.h.moved = s.h.moved
      PROVE  Serves
  <2>1. h'.moved = h.moved BY <1>3, <1>4, <1>5, <1>6
  <2> QED BY <1>1, <1>2, <1>6, <2>1 DEF Serves
<1>7. CASE Worked(s, t)
  <2>1. ASSUME Act(s) # NoReq, Wait(t) = Wait(s), Grown(s.h.moved, t.h.moved),
               Act(t) = Act(s), Rep(t) = Rep(s)
        PROVE  Serves
    <3> DEFINE Moves == Int \X Int
               m == s.h.moved
               n == t.h.moved
    <3>1. Len(n) >= Len(m) /\ SubSeq(n, 1, Len(m)) = m /\ Service!InOrder(n)
          /\ h'.moved = n
      BY <1>4, <2>1 DEF Grown
    <3>2. CASE Len(n) > Len(m)
      <4>1. Service!Move BY <1>1, <1>2, <1>3, <2>1, <3>1, <3>2 DEF Service!Move
      <4> QED BY <4>1 DEF Serves, Service!Next
    <3>3. CASE ~(Len(n) > Len(m))
      <4>1. m \in Seq(Moves) /\ n \in Seq(Moves) OBVIOUS
      <4> HIDE DEF m, n, Moves
      <4>2. Len(n) = Len(m) BY <3>1, <3>3, <4>1
      <4>3. n = m BY <3>1, <4>1, <4>2
      <4> QED BY <1>6, <2>1, <4>3 DEF m, n
    <3> QED BY <3>2, <3>3
  <2>2. ASSUME Act(s) # NoReq, Wait(t) = Wait(s), Grown(s.h.moved, t.h.moved),
               Act(t) = NoReq, Rep(s) = "none", Rep(t) # "none",
               Rep(t) = "ok" => Service!Complete(Act(s), t.h.moved)
        PROVE  Serves
    <3>1. Rep(t) \in {"ok", "error"} BY <2>2 DEF Rep
    <3>2. h'.moved = t.h.moved BY <1>4, <2>2
    <3>3. Service!Finish
      BY <1>1, <1>2, <1>3, <2>2, <3>1, <3>2 DEF Service!Finish, Grown
    <3> QED BY <3>3 DEF Serves, Service!Next
  <2> QED BY <1>6, <1>7, <2>1, <2>2 DEF Worked
<1>8. ASSUME NEW r \in Request, Wait(s) = NoReq, Loads(s, r, t)
      PROVE  Serves
  <2>1. CASE /\ Act(s) # NoReq \/ Rep(s) # "none"
             /\ Wait(t) = r /\ Act(t) = Act(s) /\ Rep(t) = Rep(s) /\ t.h.moved = s.h.moved
    <3>1. h'.moved = h.moved BY <1>3, <1>4, <2>1
    <3>2. Service!Load(r) BY <1>1, <1>2, <2>1, <3>1 DEF Service!Load
    <3> QED BY <3>2 DEF Serves, Service!Next
  <2>2. CASE /\ Act(s) = NoReq /\ Rep(s) = "none" /\ Wait(t) = NoReq
             /\ Act(t) = r /\ Rep(t) = "none" /\ t.h.moved = <<>>
    <3>1. Service!Begin(r) BY <1>1, <1>2, <1>4, <1>8, <2>2 DEF Service!Begin
    <3> QED BY <3>1 DEF Serves, Service!Next
  <2>3. CASE /\ Act(s) = NoReq /\ Rep(s) = "none" /\ Wait(t) = NoReq
             /\ t.h.moved \in {s.h.moved, <<>>} /\ Act(t) = NoReq /\ Rep(t) = "error"
    <3>1. h'.moved \in {h.moved, <<>>} BY <1>3, <1>4, <2>3
    <3>2. Service!Refuse(r) BY <1>1, <1>2, <1>8, <2>3, <3>1 DEF Service!Refuse
    <3> QED BY <3>2 DEF Serves, Service!Next
  <2> QED BY <1>8, <2>1, <2>2, <2>3 DEF Loads
<1>9. CASE /\ Act(s) = NoReq /\ Rep(s) # "none" /\ Wait(s) = s.c.stcr /\ Wait(s) # NoReq
           /\ Answered(s, t)
  <2>1. Wait(t) = NoReq /\ t.h.moved \in {s.h.moved, <<>>} BY <1>9 DEF Answered, Wait
  <2>2. CASE Act(t) = s.c.stcr /\ "CMD" \notin t.c.cond /\ t.h.moved = <<>>
    <3>1. Rep(t) = "none" BY <2>2 DEF Rep
    <3>2. h'.moved = <<>> BY <1>4, <2>2
    <3>3. Service!Acknowledge
      BY <1>1, <1>2, <1>9, <2>1, <2>2, <3>1, <3>2 DEF Service!Acknowledge
    <3> QED BY <3>3 DEF Serves, Service!Next
  <2>3. CASE Act(t) = NoReq /\ "CMD" \in t.c.cond /\ Failed(t.c)
    <3>1. Rep(t) = "error" BY <2>3 DEF Rep
    <3>2. h'.moved \in {h.moved, <<>>} BY <1>3, <1>4, <2>1
    <3>3. Service!AcknowledgeRefused
      BY <1>1, <1>2, <1>9, <2>1, <2>3, <3>1, <3>2 DEF Service!AcknowledgeRefused
    <3> QED BY <3>3 DEF Serves, Service!Next
  <2> QED BY <1>9, <2>2, <2>3 DEF Answered
<1>10. CASE /\ Act(s) = NoReq /\ Act(t) = NoReq /\ Wait(t) = NoReq
            /\ Rep(t) \in {Rep(s), "none"} /\ t.h.moved = s.h.moved
  <2>1. h'.moved \in {h.moved, <<>>} BY <1>3, <1>4, <1>10
  <2>2. CASE Wait(s) # NoReq
    <3>1. Service!GiveUp BY <1>1, <1>2, <1>10, <2>1, <2>2 DEF Service!GiveUp
    <3> QED BY <3>1 DEF Serves, Service!Next
  <2>3. CASE Wait(s) = NoReq /\ Rep(t) = Rep(s) BY <1>6, <1>10, <2>3
  <2>4. CASE Wait(s) = NoReq /\ Rep(t) # Rep(s)
    <3>1. Service!Acknowledge BY <1>1, <1>2, <1>10, <2>1, <2>4 DEF Service!Acknowledge
    <3> QED BY <3>1 DEF Serves, Service!Next
  <2> QED BY <2>2, <2>3, <2>4
<1> QED BY <1>7, <1>8, <1>9, <1>10 DEF Offers

\* What an action of the KLH10's thread comes to.
LEMMA StepFact ==
    ASSUME Inv, NEW t, Good(t, Phase(dp, done)), Sent(S, t), Asks(t.c), Becomes(t),
           Books(t, Phase(dp, done)), Offers(S, t), UNCHANGED <<dp, done>>
    PROVE  Inv' /\ Serves
<1> DEFINE u == Tidier(t)
           v == [c |-> c', d |-> d', armed |-> armed', x |-> x', h |-> h']
<1>1. /\ Good(u, Phase(dp, done)) /\ Asks(u.c) /\ Tidied(u)
      /\ u.d.st = t.d.st /\ u.x.cmd = t.x.cmd
      /\ Books(u, Phase(dp, done)) /\ Forgets(t, u)
  BY TidyFact
<1>2. Slave(u, dp, done)
  <2>1. Slave(t, dp, done) BY SlaveFact DEF Inv
  <2> QED BY <1>1, <2>1 DEF Slave
<1>3. v = u BY DEF Becomes, Tidier
<1> HIDE DEF u
<1>4. /\ Good(v, Phase(dp', done')) /\ Slave(v, dp', done') /\ Asks(v.c) /\ Tidied(v)
      /\ Books(v, Phase(dp', done')) /\ Dropped(v)
  BY <1>1, <1>2, <1>3 DEF Forgets
<1>5. v.c = c' /\ v.h = h' OBVIOUS
<1>6. Inv' BY <1>4, <1>5 DEF Inv, S, Phase
<1>7. Serves
  <2>1. S.h.moved \in Seq(Int \X Int) /\ t.h.moved \in Seq(Int \X Int) /\ Dropped(S)
    BY DEF Inv, Good, Types, Parts
  <2>2. c' = u.c /\ h' = u.h BY <1>3, <1>5
  <2> QED BY <1>1, <2>1, <2>2, ServesFact
<1> QED BY <1>6, <1>7

\* The invariant holds at the start.
LEMMA InitInv ==
    ASSUME Init
    PROVE  Inv
<1>1. PICK u \in Setups :
       /\ c = [cond |-> {}, req |-> FALSE, pilev |-> FALSE, draes |-> FALSE, attn |-> FALSE,
               ptcr |-> NoReq, stcr |-> NoReq, sbar |-> 0, sbarf |-> FALSE, bcnt |-> 0,
               list |-> u.list, clp |-> 1, wcnt |-> 0, hlt |-> TRUE, rev |-> FALSE,
               skip |-> TRUE, write |-> FALSE]
       /\ d = [go |-> FALSE, serr |-> FALSE, atn |-> FALSE, mol |-> FALSE, dry |-> FALSE,
               adr |-> 0, st |-> "OFF", scmd |-> "none",
               blkadr |-> 0, blkwds |-> 0, blklim |-> 0, begun |-> FALSE, direct |-> FALSE,
               dma |-> u.dma, dly |-> u.dly]
  BY DEF Init
<1>2. /\ x = [mol |-> FALSE, err |-> FALSE, scnt |-> 0, daddr |-> 0, buf |-> <<>>,
              cmd |-> "none", pack |-> "none"]
      /\ h = [from |-> 0, taken |-> 0, moved |-> <<>>, panic |-> FALSE]
      /\ armed = FALSE /\ dp = "idle" /\ done = FALSE
  BY DEF Init
<1>3. u.list \in Seq(CcwWord) /\ u.dma \in BOOLEAN /\ u.dly \in BOOLEAN BY MonitorAssumption
<1> DEFINE s == S
<1>4. DOMAIN s = {"c", "d", "armed", "x", "h"} /\ s.c = c /\ s.d = d /\ s.x = x /\ s.h = h
      /\ s.armed = armed
  BY DEF S
<1> HIDE DEF s
<1>5. /\ DOMAIN c = CFields /\ c.cond = {} /\ c.req = FALSE /\ c.pilev = FALSE
      /\ c.draes = FALSE /\ c.attn = FALSE /\ c.ptcr = NoReq /\ c.stcr = NoReq /\ c.sbar = 0
      /\ c.bcnt = 0 /\ c.wcnt = 0 /\ c.list = u.list
      /\ c.req \in BOOLEAN /\ c.pilev \in BOOLEAN /\ c.draes \in BOOLEAN /\ c.attn \in BOOLEAN
      /\ c.sbarf \in BOOLEAN
  BY <1>1 DEF CFields
<1>6. /\ DOMAIN d = DFields /\ d.go = FALSE /\ d.go \in BOOLEAN /\ d.serr \in BOOLEAN
      /\ d.atn = FALSE /\ d.mol = FALSE /\ d.mol \in BOOLEAN /\ d.adr = 0 /\ d.st = "OFF"
      /\ d.scmd = "none" /\ d.blkadr = 0 /\ d.blkwds = 0 /\ d.blklim = 0
      /\ d.dma = u.dma /\ d.dly = u.dly
  BY <1>1 DEF DFields
<1>7. /\ DOMAIN x = XFields /\ x.mol \in BOOLEAN /\ x.err \in BOOLEAN /\ x.scnt = 0
      /\ x.daddr = 0 /\ x.buf = <<>> /\ x.cmd = "none"
      /\ DOMAIN h = HFields /\ h.from = 0 /\ h.taken = 0 /\ h.moved = <<>> /\ h.panic = FALSE
      /\ h.panic \in BOOLEAN
  BY <1>2 DEF XFields, HFields
<1>8. Ctl(c) /\ Asks(c)
  <2>1. Ctl(c) BY <1>3, <1>5 DEF Ctl
  <2>2. Asks(c) BY <1>5 DEF Asks, Interrupting
  <2> QED BY <2>1, <2>2
<1>9. Parts(s)
  <2> DEFINE Bufs == Seq(Int)
             Moves == Seq(Int \X Int)
  <2>1. <<>> \in Bufs /\ <<>> \in Moves OBVIOUS
  <2> HIDE DEF Bufs, Moves
  <2>2. s.x.buf \in Bufs /\ s.h.moved \in Moves BY <1>4, <1>7, <2>1
  <2>5. d.mol => d.st # "OFF"  BY <1>6
  <2>6. s.d.atn = s.c.attn  BY <1>4, <1>5, <1>6
  <2>7. s.d.adr \in Nat /\ s.h.from \in Nat /\ s.h.taken \in Int BY <1>4, <1>6, <1>7
  <2>3. /\ Ctl(s.c) /\ s.d.atn = s.c.attn /\ s.d.adr \in Nat
        /\ s.h.from \in Nat /\ s.h.taken \in Int /\ (s.d.mol => s.d.st # "OFF")
    BY <1>4, <1>8, <2>5, <2>6, <2>7
  <2>4. /\ DOMAIN s = {"c", "d", "armed", "x", "h"} /\ DOMAIN s.d = DFields
        /\ DOMAIN s.x = XFields /\ DOMAIN s.h = HFields
        /\ s.d.go \in BOOLEAN /\ s.d.serr \in BOOLEAN /\ s.d.mol \in BOOLEAN
        /\ s.x.mol \in BOOLEAN /\ s.x.err \in BOOLEAN /\ s.h.panic \in BOOLEAN
    BY <1>4, <1>6, <1>7
  <2> QED BY <2>2, <2>3, <2>4 DEF Parts, Bufs, Moves
<1>10. Regs(c) BY <1>5 DEF Regs
<1>11. Types(s)
  <2>1. 0 \in 0..TotSecs BY DriveAssumption
  <2> QED BY <1>2, <1>3, <1>4, <1>6, <1>7, <1>9, <1>10, <2>1 DEF Types
<1>12. Resting(s) BY <1>2, <1>4, <1>5, <1>6, <1>7 DEF Resting, Ours
<1>13. s.h.panic = FALSE /\ Placed(s.h) BY <1>4, <1>7 DEF Placed
<1>14. Good(s, "told") BY <1>11, <1>12, <1>13, RestGood
<1>15. Slave(s, dp, done) BY <1>2, <1>4, <1>6, <1>7 DEF Slave
<1>16. Tidied(s) BY <1>4, <1>6 DEF Tidied
<1>17. Phase(dp, done) = "told" BY <1>2 DEF Phase
<1>18. Books(s, "told") /\ Dropped(s) BY <1>4, <1>5, <1>7 DEF Books, Dropped, Ours
<1> QED BY <1>8, <1>14, <1>15, <1>16, <1>17, <1>18 DEF Inv, s

\* The state as the lemmas see it.
LEMMA Now ==
    ASSUME Inv
    PROVE  /\ Good(S, Phase(dp, done)) /\ Asks(S.c) /\ Slave(S, dp, done) /\ Tidied(S)
           /\ S.c = c /\ S.d = d /\ S.armed = armed /\ S.x = x /\ S.h = h
           /\ Idle => d.go = FALSE /\ d.scmd # "MOUNT"
           /\ Active = NoReq => ~Ours(S)
           /\ Books(S, Phase(dp, done)) /\ Dropped(S)
<1>1. S.c = c /\ S.d = d /\ S.armed = armed /\ S.x = x /\ S.h = h BY DEF S
<1>2. /\ Good(S, Phase(dp, done)) /\ Asks(S.c) /\ Slave(S, dp, done) /\ Tidied(S)
      /\ Books(S, Phase(dp, done)) /\ Dropped(S)
  BY <1>1 DEF Inv
<1>3. d.go \in BOOLEAN BY <1>1, <1>2 DEF Good, Types, Parts
<1>4. Idle => d.go = FALSE /\ d.scmd # "MOUNT" BY <1>3 DEF Idle
<1>5. ASSUME Active = NoReq PROVE ~Ours(S)
  <2>1. SUFFICES ASSUME Ours(S) PROVE FALSE OBVIOUS
  <2>2. c.ptcr.drv = "rp" /\ Active = c.ptcr BY <1>1, <2>1 DEF Ours, Active
  <2> QED BY <1>5, <2>2 DEF NoReq
<1> QED BY <1>1, <1>2, <1>4, <1>5

\* What the program does not see is always allowed.
LEMMA Unnoticed ==
    ASSUME NEW s, NEW e, Books(s, e), NEW t, Unseen(s, t), t.h = s.h
    PROVE  Books(t, e) /\ Offers(s, t)
BY UnseenFact DEF Offers, Worked

\* No transfer is asked for by having none.
LEMMA NoReqFact == NoReq \notin Request
BY MonitorAssumption DEF NoReq, Xfers

\* What the program sees of a CONO.
LEMMA ConoOffers ==
    ASSUME NEW s, NEW e, Good(s, e), Books(s, e), NEW b, NEW q, Prepared(s, e, b, q),
           NEW t, Unseen(ConoCcmd(q, b), t), t.h = ConoCcmd(q, b).h,
           "CMC" \in b \/ "DSCRF" \in b => ~Ours(s),
           "TEC" \in b => {"CCMD", "DSCRF"} \subseteq b,
           "CCMD" \in b /\ Failed(s.c) => "DSCRF" \in b
    PROVE  Books(t, e) /\ Offers(s, t)
<1> DEFINE p == ConoCcmd(q, b)
           starts == q.c.cond \cap {"CMD", "PCRF", "SCRF"} = {"CMD", "SCRF"}
<1>1. /\ "CCMD" \notin b => p = q
      /\ "CCMD" \in b /\ starts => Answered(q, p) /\ e = "told"
      /\ "CCMD" \in b /\ ~starts => Retouched(q, p) /\ p.c.cond = q.c.cond \ {"CMD"}
  <2>1. "CCMD" \notin b => p = q BY DEF ConoCcmd
  <2>2. "CCMD" \in b => p = RhCcmd(q) BY DEF ConoCcmd
  <2>3. ASSUME "CCMD" \in b
        PROVE  IF starts THEN Answered(q, RhCcmd(q)) /\ e = "told"
               ELSE Retouched(q, RhCcmd(q)) /\ RhCcmd(q).c.cond = q.c.cond \ {"CMD"}
    <3>1. Good(q, e) /\ ("SCRF" \in q.c.cond => q.d.serr = FALSE /\ q.d.scmd # "MOUNT")
      BY <2>3 DEF Prepared
    <3> QED BY <3>1, CcmdFact
  <2> QED BY <2>1, <2>2, <2>3
<1> HIDE DEF p
<1>2. /\ \A g : Books(p, g) => Books(t, g)
      /\ Act(t) = Act(p) /\ Wait(t) = Wait(p) /\ Rep(t) = Rep(p) /\ t.h = p.h
  BY UnseenFact DEF p
<1>3. /\ Act(s) = NoReq <=> ~Ours(s)
      /\ Rep(s) = "none" <=> "CMD" \notin s.c.cond
  BY ActFact DEF Rep
\* Nothing waits any more.
<1>4. ASSUME "SCRF" \notin q.c.cond, "PCRF" \notin q.c.cond, q.h = s.h, ~Ours(s),
             "CCMD" \in b \/ "CMC" \in b \/ Rep(q) = Rep(s)
      PROVE  Books(t, e) /\ Offers(s, t)
  <2>1. p.h = q.h /\ "SCRF" \notin p.c.cond /\ "PCRF" \notin p.c.cond
    BY <1>1, <1>4 DEF Retouched, CtlOnly
  <2>2. Books(p, e) /\ Act(p) = NoReq /\ Wait(p) = NoReq BY <2>1 DEF Books, Act, Ours, Wait
  <2>3. Rep(p) \in {Rep(s), "none"}
    <3>1. CASE "CCMD" \in b
      <4>1. "CMD" \notin p.c.cond BY <1>1, <1>4, <3>1
      <4> QED BY <4>1 DEF Rep
    <3>2. CASE "CCMD" \notin b /\ "CMC" \in b
      <4>1. "CMD" \notin q.c.cond BY <3>2 DEF Prepared
      <4> QED BY <1>1, <3>2, <4>1 DEF Rep
    <3>3. CASE "CCMD" \notin b /\ "CMC" \notin b BY <1>1, <1>4, <3>3
    <3> QED BY <3>1, <3>2, <3>3
  <2> QED BY <1>2, <1>3, <1>4, <2>1, <2>2, <2>3 DEF Offers
<1>5. CASE "CMC" \in b \/ "DSCRF" \in b
  <2>1. CASE "CMC" \in b
    <3>1. q.h = s.h /\ "SCRF" \notin q.c.cond /\ "PCRF" \notin q.c.cond BY <2>1 DEF Prepared
    <3> QED BY <1>4, <1>5, <2>1, <3>1
  <2>2. CASE "CMC" \notin b
    <3>1. Touched(s, q, Off(b)) BY <2>2 DEF Prepared
    <3>2. q.h = s.h /\ "SCRF" \notin q.c.cond /\ "PCRF" \notin q.c.cond
      BY <1>5, <2>2, <3>1 DEF Touched, CtlOnly, Off, Told
    <3>3. ASSUME "CCMD" \notin b PROVE Rep(q) = Rep(s)
      <4>1. "TEC" \notin b BY <3>3
      <4>2. \A f \in {"CMD"} \cup Errors : f \in Told /\ f \notin Off(b)
        BY <4>1 DEF Off, Told, Errors
      <4>3. \A f \in {"CMD"} \cup Errors : f \in q.c.cond <=> f \in s.c.cond
        BY <3>1, <4>2 DEF Touched
      <4> QED BY <4>3 DEF Rep, Failed
    <3> QED BY <1>4, <1>5, <3>2, <3>3
  <2> QED BY <2>1, <2>2
<1>6. CASE "CMC" \notin b /\ "DSCRF" \notin b
  <2>1. Touched(s, q, Off(b)) /\ Off(b) = {} BY <1>6 DEF Prepared, Off
  <2>2. Unseen(s, q) /\ q.h = s.h /\ q.c.stcr = s.c.stcr
    BY <2>1 DEF Touched, CtlOnly, Unseen, Steady
  <2>3. /\ Books(q, e)
        /\ Act(q) = Act(s) /\ Wait(q) = Wait(s) /\ Rep(q) = Rep(s)
    BY <2>2, UnseenFact
  <2>4. ASSUME Books(p, e), Act(p) = Act(q), Wait(p) = Wait(q), Rep(p) = Rep(q), p.h = q.h
        PROVE  Books(t, e) /\ Offers(s, t)
    BY <1>2, <2>2, <2>3, <2>4 DEF Offers, Worked
  <2>5. CASE "CCMD" \notin b BY <1>1, <2>3, <2>4, <2>5
  <2>6. CASE "CCMD" \in b /\ "CMD" \notin q.c.cond
    <3>1. Retouched(q, p) /\ p.c.cond = q.c.cond BY <1>1, <2>6
    <3>2. Unseen(q, p) /\ p.h = q.h BY <3>1 DEF Retouched, CtlOnly, Unseen, Steady
    <3>3. Books(p, e) /\ Act(p) = Act(q) /\ Wait(p) = Wait(q) /\ Rep(p) = Rep(q)
      BY <2>3, <3>2, UnseenFact
    <3> QED BY <2>4, <3>2, <3>3
  <2>7. CASE "CCMD" \in b /\ "CMD" \in q.c.cond
    <3>1. ~Ours(q) /\ Act(q) = NoReq /\ ~Ours(s) BY <1>3, <2>3, <2>7, ActFact DEF Books
    <3>2. ~Failed(q.c) /\ Rep(q) # "none"
      <4>1. ~Failed(s.c) /\ Rep(s) # "error" BY <1>6, <2>7 DEF Rep
      <4> QED BY <2>3, <2>7, <4>1 DEF Rep
    <3>3. "PCRF" \notin q.c.cond BY <2>3, <3>1, <3>2 DEF Books
    <3>4. CASE "SCRF" \notin q.c.cond BY <1>4, <2>2, <2>7, <3>1, <3>3, <3>4
    <3>5. CASE "SCRF" \in q.c.cond
      <4>1. Answered(q, p) /\ e = "told" BY <1>1, <2>7, <3>3, <3>5
      <4>2. q.c.stcr \in Request /\ Wait(q) = q.c.stcr BY <2>3, <3>5 DEF Books, Wait
      <4>3. Books(t, "told") BY <1>2, <4>1 DEF Answered
      <4>4. Answered(s, t)
        <5>1. \A f \in Told : f \in t.c.cond <=> f \in p.c.cond BY DEF Unseen, p
        <5>2. /\ "SCRF" \in t.c.cond <=> "SCRF" \in p.c.cond
              /\ "CMD" \in t.c.cond <=> "CMD" \in p.c.cond
              /\ Failed(t.c) <=> Failed(p.c)
          <6>1. \A f \in Errors : f \in t.c.cond <=> f \in p.c.cond BY <5>1 DEF Told
          <6>2. Failed(t.c) <=> Failed(p.c) BY <6>1 DEF Failed
          <6> QED BY <5>1, <6>2 DEF Told
        <5> QED BY <1>2, <2>2, <4>1, <4>3, <5>2 DEF Answered
      <4>5. /\ Act(s) = NoReq /\ Rep(s) # "none" /\ Wait(s) = s.c.stcr /\ Wait(s) # NoReq
        BY <2>2, <2>3, <3>1, <3>2, <4>2, NoReqFact
      <4> QED BY <4>1, <4>3, <4>4, <4>5 DEF Offers
    <3> QED BY <3>4, <3>5
  <2> QED BY <2>5, <2>6, <2>7
<1> QED BY <1>5, <1>6

\* A CONO, whatever bits it has together.
LEMMA ConoInv ==
    ASSUME Inv, Patient, Waits, Cono
    PROVE  Inv' /\ Serves
<1> DEFINE e == Phase(dp, done)
           s == S
<1>1. /\ Good(s, e) /\ Asks(s.c) /\ s.c = c /\ s.d = d /\ Books(s, e)
      /\ Idle => d.go = FALSE /\ d.scmd # "MOUNT"
      /\ Active = NoReq => ~Ours(s)
  BY Now
<1>2. PICK b \in Conos :
        /\ "CMC" \in b => Idle
        /\ "DSCRF" \in b => Active = NoReq
        /\ "TEC" \in b => {"CCMD", "DSCRF"} \subseteq b
        /\ "RCLP" \in b => Active = NoReq
        /\ "CCMD" \in b /\ c.cond \cap Errors # {} => {"TEC", "DSCRF"} \subseteq b
        /\ "CCMD" \in b /\ "SCRF" \in c.cond => "DSCRF" \in b \/ (~d.serr /\ Alone)
        /\ Becomes(RhCono(s, b)) /\ UNCHANGED <<dp, done>>
  BY DEF Cono
<1>3. d.serr \in BOOLEAN BY <1>1 DEF Good, Types, Parts
<1>a. Idle => Active = NoReq BY DEF Idle
<1> HIDE DEF e, s
<1>4. "CMC" \in b => s.d.go = FALSE /\ s.d.scmd # "MOUNT" BY <1>1, <1>2
<1>5. /\ "DSCRF" \in b => ~Ours(s)
      /\ "RCLP" \in b => ~Ours(s)
      /\ "CMC" \in b => ~Ours(s)
  BY <1>1, <1>2, <1>a
<1>6. "CCMD" \in b /\ "SCRF" \in s.c.cond =>
               "DSCRF" \in b \/ (s.d.serr = FALSE /\ s.d.scmd # "MOUNT")
  BY <1>1, <1>2, <1>3 DEF Alone
<1> DEFINE t == RhCono(s, b)
<1>7. /\ Good(t, e) /\ Sent(s, t) /\ Asks(t.c)
      /\ \E q : Prepared(s, e, b, q) /\ Unseen(ConoCcmd(q, b), t) /\ t.h = ConoCcmd(q, b).h
  BY <1>1, <1>4, <1>5, <1>6, ConoGood
<1> HIDE DEF t
<1>8. Books(t, e) /\ Offers(s, t)
  <2>1. "CCMD" \in b /\ Failed(s.c) => "DSCRF" \in b BY <1>1, <1>2 DEF Failed
  <2>2. "TEC" \in b => {"CCMD", "DSCRF"} \subseteq b BY <1>2
  <2>3. "CMC" \in b \/ "DSCRF" \in b => ~Ours(s) BY <1>5
  <2>4. PICK q : Prepared(s, e, b, q) /\ Unseen(ConoCcmd(q, b), t) /\ t.h = ConoCcmd(q, b).h
    BY <1>7
  <2> QED BY <1>1, <2>1, <2>2, <2>3, <2>4, ConoOffers
<1>9. Becomes(t) BY <1>2 DEF t
<1> QED BY <1>2, <1>7, <1>8, <1>9, StepFact DEF e, s

\* A transfer loaded.
LEMMA LoadTransferInv ==
    ASSUME Inv, Patient, Waits, LoadTransfer
    PROVE  Inv' /\ Serves
<1> DEFINE e == Phase(dp, done)
           s == S
           q == Prep(FALSE)
<1>1. /\ Good(s, e) /\ Asks(s.c) /\ s.c = c /\ s.d = d /\ Books(s, e)
  BY Now
<1>2. PICK r \in Request :
        /\ "SCRF" \notin c.cond /\ ~d.serr /\ Alone
        /\ "RAE" \notin c.cond \/ c.draes
        /\ Becomes(LoadStcr(q, r)) /\ UNCHANGED <<dp, done>>
  BY DEF LoadTransfer, Datao
<1>3. d.serr \in BOOLEAN BY <1>1 DEF Good, Types, Parts
<1>4. q = [s EXCEPT !.c.draes = FALSE] BY DEF Prep
<1> HIDE DEF e, s, q
<1>5. /\ Good(q, e) /\ Sent(s, q) /\ Asks(q.c) /\ q.d = s.d
      /\ q.c.cond = s.c.cond /\ q.h = s.h /\ Unseen(s, q)
  <2>1. "RAE" \notin s.c.cond \/ s.c.draes BY <1>1, <1>2
  <2>2. FALSE \in BOOLEAN OBVIOUS
  <2> QED BY <1>1, <1>4, <2>1, <2>2, PrepFact
<1>a. /\ Books(q, e) /\ "SCRF" \notin q.c.cond
      /\ Act(q) = Act(s) /\ Wait(q) = Wait(s) /\ Rep(q) = Rep(s)
  BY <1>1, <1>2, <1>5, UnseenFact
<1>6. q.d.serr = FALSE /\ q.d.scmd # "MOUNT" BY <1>1, <1>2, <1>3, <1>5 DEF Alone
<1> DEFINE t == LoadStcr(q, r)
<1>7. Good(t, e) /\ Sent(q, t) /\ Asks(t.c) /\ Books(t, e) /\ Loads(q, r, t)
  BY <1>5, <1>6, <1>a, LoadStcrGood
<1> HIDE DEF t
<1>8. Sent(s, t) BY <1>5, <1>7, SentOn
<1>9. Becomes(t) BY <1>2 DEF t
<1>10. Offers(s, t)
  <2>1. Loads(s, r, t) BY <1>5, <1>7, <1>a DEF Loads
  <2>2. Wait(s) = NoReq BY <1>a DEF Wait
  <2> QED BY <2>1, <2>2 DEF Offers
<1> QED BY <1>2, <1>7, <1>8, <1>9, <1>10, StepFact DEF e, s

\* A block address loaded.
LEMMA LoadSbarInv ==
    ASSUME Inv, LoadSbar
    PROVE  Inv' /\ Serves
<1> DEFINE e == Phase(dp, done)
           s == S
           q == Prep(FALSE)
<1>1. /\ Good(s, e) /\ Asks(s.c) /\ s.c = c /\ s.d = d /\ Books(s, e)
  BY Now
<1>2. PICK a \in Addresses :
        /\ "RAE" \notin c.cond \/ c.draes
        /\ Becomes([q EXCEPT !.c.sbar = a, !.c.sbarf = TRUE]) /\ UNCHANGED <<dp, done>>
  BY DEF LoadSbar, Datao
<1>3. q = [s EXCEPT !.c.draes = FALSE] BY DEF Prep
<1> HIDE DEF e, s, q
<1>4. /\ Good(q, e) /\ Sent(s, q) /\ Asks(q.c) /\ q.h = s.h /\ Unseen(s, q)
  <2>1. "RAE" \notin s.c.cond \/ s.c.draes BY <1>1, <1>2
  <2>2. FALSE \in BOOLEAN OBVIOUS
  <2> QED BY <1>1, <1>3, <2>1, <2>2, PrepFact
<1> DEFINE t == [q EXCEPT !.c.sbar = a, !.c.sbarf = TRUE]
<1>5. Becomes(t) BY <1>2
<1>6. Good(t, e) /\ Sent(q, t) /\ Asks(t.c) /\ Unseen(q, t) /\ t.h = q.h
  <2>1. t = [q EXCEPT !.c.sbar = a, !.c.sbarf = TRUE] OBVIOUS
  <2> HIDE DEF t
  <2> QED BY <1>4, <2>1, SbarGood
<1> HIDE DEF t
<1>7. Sent(s, t) BY <1>4, <1>6, SentOn
<1>8. Books(t, e) /\ Offers(s, t)
  <2>1. Unseen(s, t) BY <1>4, <1>6, UnseenOn
  <2> QED BY <1>1, <1>4, <1>6, <2>1, Unnoticed
<1> QED BY <1>2, <1>5, <1>6, <1>7, <1>8, StepFact DEF e, s

\* A drive command that is not a transfer, a write to the attention summary, or one to a
\* register that does not exist.
LEMMA WriteDriveInv ==
    ASSUME Inv, Patient, Waits, WriteDrive
    PROVE  Inv' /\ Serves
<1> DEFINE e == Phase(dp, done)
           s == S
           p(b) == Prep(b)
<1>1. /\ Good(s, e) /\ Asks(s.c) /\ s.c = c /\ s.d = d /\ Books(s, e)
      /\ Idle => d.go = FALSE /\ d.scmd # "MOUNT"
  BY Now
<1>2. ASSUME NEW b \in BOOLEAN PROVE p(b) = [s EXCEPT !.c.draes = b] BY DEF Prep
<1>3. \/ \E cmd \in Cmds : Idle /\ Datao(Wrreg(p(FALSE), "CSR", cmd).s)
      \/ Datao(Wrreg(p(FALSE), "ATTN", 1).s)
      \/ \E b \in BOOLEAN : /\ Idle
                            /\ Datao(IF Wrreg(p(b), "BAD", 0).ok THEN Wrreg(p(b), "BAD", 0).s
                                     ELSE Rae(Wrreg(p(b), "BAD", 0).s))
  BY DEF WriteDrive
<1> HIDE DEF e, s, p
<1>4. ASSUME NEW b \in BOOLEAN, "RAE" \notin c.cond \/ c.draes
      PROVE  /\ Good(p(b), e) /\ Sent(s, p(b)) /\ Asks(p(b).c) /\ p(b).d = s.d
             /\ p(b).h = s.h /\ Unseen(s, p(b))
  <2> DEFINE q == p(b)
  <2>1. q = [s EXCEPT !.c.draes = b] BY <1>2
  <2>2. "RAE" \notin s.c.cond \/ s.c.draes BY <1>1, <1>4
  <2> HIDE DEF q
  <2>3. Good(s, e) /\ Asks(s.c) BY <1>1
  <2>4. Good(q, e) /\ Sent(s, q) /\ Asks(q.c) /\ q.d = s.d /\ q.h = s.h /\ Unseen(s, q)
    BY <2>1, <2>2, <2>3, PrepFact
  <2> QED BY <2>4 DEF q
<1>5. ASSUME NEW b \in BOOLEAN, NEW t, Datao(t),
             Good(p(b), e) /\ Sent(s, p(b)) /\ Asks(p(b).c) =>
                 /\ Good(t, e) /\ Sent(p(b), t) /\ Asks(t.c)
                 /\ Unseen(p(b), t) /\ t.h = p(b).h
      PROVE  Inv' /\ Serves
  <2> DEFINE q == p(b)
  <2>1. /\ "RAE" \notin c.cond \/ c.draes
        /\ Becomes(t) /\ UNCHANGED <<dp, done>>
    BY <1>5 DEF Datao
  <2>2. Good(q, e) /\ Sent(s, q) /\ Asks(q.c) /\ q.h = s.h /\ Unseen(s, q) BY <2>1, <1>4
  <2>3. Good(t, e) /\ Sent(q, t) /\ Asks(t.c) /\ Unseen(q, t) /\ t.h = q.h BY <2>2, <1>5
  <2> HIDE DEF q
  <2>4. Sent(s, t) BY <2>2, <2>3, SentOn
  <2>5. Books(t, e) /\ Offers(s, t)
    <3>1. Unseen(s, t) BY <2>2, <2>3, UnseenOn
    <3> QED BY <1>1, <2>2, <2>3, <3>1, Unnoticed
  <2> QED BY <2>1, <2>3, <2>4, <2>5, StepFact DEF e, s
<1>6. ASSUME NEW cmd \in Cmds, Idle, Datao(Wrreg(p(FALSE), "CSR", cmd).s) PROVE Inv' /\ Serves
  <2> DEFINE q == p(FALSE)
             t == Wrreg(q, "CSR", cmd).s
  <2>1. FALSE \in BOOLEAN /\ ("RAE" \notin c.cond \/ c.draes) BY <1>6 DEF Datao
  <2>2. Good(q, e) /\ Asks(q.c) /\ q.d = s.d BY <2>1, <1>4
  <2>3. q.d.go = FALSE /\ q.d.scmd # "MOUNT" BY <1>1, <1>6, <2>2
  <2> HIDE DEF q
  <2>4. Good(t, e) /\ Sent(q, t) /\ Asks(t.c) /\ Unseen(q, t) /\ t.h = q.h
    BY <2>2, <2>3, CmdGood
  <2>5. Datao(t) BY <1>6 DEF q
  <2> HIDE DEF t
  <2> QED BY <1>5, <2>1, <2>4, <2>5 DEF q
<1>7. ASSUME Datao(Wrreg(p(FALSE), "ATTN", 1).s) PROVE Inv' /\ Serves
  <2> DEFINE q == p(FALSE)
  <2>1. FALSE \in BOOLEAN /\ ("RAE" \notin c.cond \/ c.draes) BY <1>7 DEF Datao
  <2>2. Good(q, e) /\ Asks(q.c) BY <2>1, <1>4
  <2>3. Datao(Wrreg(q, "ATTN", 1).s) BY <1>7
  <2> HIDE DEF q
  <2>4. PICK t : /\ Wrreg(q, "ATTN", 1) = GoesOn(t)
                 /\ Good(t, e) /\ Sent(q, t) /\ (Asks(q.c) => Asks(t.c))
                 /\ Unseen(q, t) /\ t.h = q.h
    BY <2>2, AttnCmd
  <2>5. Datao(t) BY <2>3, <2>4 DEF GoesOn
  <2> QED BY <1>5, <2>1, <2>2, <2>4, <2>5 DEF q
<1>8. ASSUME NEW b \in BOOLEAN, Idle,
             Datao(IF Wrreg(p(b), "BAD", 0).ok THEN Wrreg(p(b), "BAD", 0).s
                   ELSE Rae(Wrreg(p(b), "BAD", 0).s))
      PROVE  Inv' /\ Serves
  <2> DEFINE q == p(b)
             w == Wrreg(q, "BAD", 0)
             t == IF w.ok THEN w.s ELSE Rae(w.s)
  <2>1. "RAE" \notin c.cond \/ c.draes BY <1>8 DEF Datao
  <2>2. Good(q, e) /\ Asks(q.c) /\ q.d = s.d BY <2>1, <1>4
  <2>3. q.d.go = FALSE /\ q.d.scmd # "MOUNT" BY <1>1, <1>8, <2>2
  <2>4. Datao(t) BY <1>8
  <2> HIDE DEF q
  <2>5. w = Wrreg(q, "BAD", 0) OBVIOUS
  <2> HIDE DEF w
  <2>6. t = IF w.ok THEN w.s ELSE Rae(w.s) OBVIOUS
  <2> HIDE DEF t
  <2>7. Good(t, e) /\ Sent(q, t) /\ Asks(t.c) /\ Unseen(q, t) /\ t.h = q.h
    BY <2>2, <2>3, <2>5, <2>6, BadGood
  <2> QED BY <1>5, <2>4, <2>7 DEF q
<1> QED BY <1>3, <1>6, <1>7, <1>8

\* A read of a register that does not exist.
LEMMA ReadBadInv ==
    ASSUME Inv, ReadBad
    PROVE  Inv' /\ Serves
<1> DEFINE e == Phase(dp, done)
           s == S
           t == Rae(s)
<1>1. Good(s, e) /\ Asks(s.c) /\ Books(s, e) BY Now
<1>2. Becomes(t) /\ UNCHANGED <<dp, done>> BY DEF ReadBad
<1> HIDE DEF e, s
<1>3. Good(t, e) /\ Sent(s, t) /\ (Asks(s.c) => Asks(t.c)) /\ Unseen(s, t) /\ t.h = s.h
  BY <1>1, RaeFact
<1> HIDE DEF t
<1>4. Books(t, e) /\ Offers(s, t) BY <1>1, <1>3, Unnoticed
<1> QED BY <1>1, <1>2, <1>3, <1>4, StepFact DEF e, s

\* The system's reset of its devices.
LEMMA IoResetInv ==
    ASSUME Inv, Patient, IoReset
    PROVE  Inv' /\ Serves
<1> DEFINE e == Phase(dp, done)
           s == S
           t == RhClear(s)
<1>1. /\ Good(s, e) /\ s.d = d /\ (Idle => d.go = FALSE /\ d.scmd # "MOUNT")
      /\ Active = NoReq => ~Ours(s)
  BY Now
<1>2. Idle /\ Active = NoReq /\ Becomes(t) /\ UNCHANGED <<dp, done>> BY DEF IoReset, Idle
<1> HIDE DEF e, s
<1>3. s.d.go = FALSE /\ s.d.scmd # "MOUNT" BY <1>1, <1>2
<1>4. /\ Good(t, e) /\ Sent(s, t) /\ Asks(t.c)
      /\ ~Ours(t) /\ t.c.cond = {} /\ t.h = s.h
  BY <1>1, <1>3, RhClearFact
<1> HIDE DEF t
<1>5. Books(t, e) BY <1>4 DEF Books
<1>6. Offers(s, t)
  <2>1. Act(s) = NoReq /\ Act(t) = NoReq BY <1>1, <1>2, <1>4, ActFact
  <2>2. Wait(t) = NoReq /\ Rep(t) = "none" BY <1>4 DEF Wait, Rep
  <2> QED BY <1>4, <2>1, <2>2 DEF Offers
<1> QED BY <1>2, <1>4, <1>5, <1>6, StepFact DEF e, s

\* The delay of a transfer is over.
LEMMA TimeoutInv ==
    ASSUME Inv, Timeout
    PROVE  Inv' /\ Serves
<1> DEFINE e == Phase(dp, done)
           s == S
           t == RpTimeout(s)
<1>1. Good(s, e) /\ Asks(s.c) /\ s.armed = armed /\ Books(s, e) /\ Slave(s, dp, done) BY Now
<1>2. armed /\ Becomes(t) /\ UNCHANGED <<dp, done>> BY DEF Timeout
<1> HIDE DEF e, s
<1>3. s.armed = TRUE BY <1>1, <1>2 DEF Good, Types
<1>4. Good(t, e) /\ Sent(s, t) /\ (Asks(s.c) => Asks(t.c)) /\ Launched(s, t)
  BY <1>1, <1>3, TimeoutGood
<1> HIDE DEF t
<1>5. Ours(s) /\ s.d.st = "READY" /\ s.h.moved = <<>> /\ e = "told"
  BY <1>1, <1>3 DEF Good, Carried, InPlace
<1>6. /\ "CMD" \notin s.c.cond /\ s.c.bcnt = s.c.ptcr.blocks
      /\ "SCRF" \in s.c.cond => s.c.stcr \in Request
  BY <1>1, <1>5 DEF Books
<1>7. Books(t, e) BY <1>4, <1>5, <1>6, LaunchedBooks
<1>8. Offers(s, t)
  <2>1. Wait(t) = Wait(s) /\ Rep(s) = "none" /\ Act(s) # NoReq /\ t.h.moved = s.h.moved
    BY <1>4, <1>5, <1>6, ActFact DEF Launched, Wait, Rep
  <2>2. CASE Ours(t) /\ t.c.ptcr = s.c.ptcr /\ "CMD" \notin t.c.cond
    <3>1. Act(t) = Act(s) /\ Rep(t) = Rep(s) BY <1>5, <2>1, <2>2 DEF Act, Rep
    <3> QED BY <2>1, <3>1 DEF Offers, Worked
  <2>3. CASE "PCRF" \notin t.c.cond /\ "CMD" \in t.c.cond /\ Failed(t.c)
    <3>1. Act(t) = NoReq /\ Rep(t) = "error" BY <2>3 DEF Act, Ours, Rep
    <3>2. Grown(s.h.moved, t.h.moved) BY <1>5, <2>1 DEF Grown, Service!InOrder
    <3> QED BY <2>1, <3>1, <3>2 DEF Offers, Worked
  <2> QED BY <1>4, <2>2, <2>3 DEF Launched
<1> QED BY <1>1, <1>2, <1>4, <1>7, <1>8, StepFact DEF e, s

\* The operator changes a pack.
LEMMA MountInv ==
    ASSUME Inv, Waits, Mount
    PROVE  Inv' /\ Serves
<1> DEFINE e == Phase(dp, done)
           s == S
<1>1. /\ Good(s, e) /\ Asks(s.c) /\ s.d = d /\ Books(s, e)
      /\ Idle => d.go = FALSE /\ d.scmd # "MOUNT"
      /\ Active = NoReq => ~Ours(s)
  BY Now
<1>a. Idle => Active = NoReq BY DEF Idle
<1>2. PICK pack \in {"none", "pack"} :
        Idle /\ Becomes(RpMount(s, pack)) /\ UNCHANGED <<dp, done>>
  BY DEF Mount
<1> HIDE DEF e, s
<1> DEFINE t == RpMount(s, pack)
<1>3. s.d.go = FALSE /\ s.d.scmd # "MOUNT" BY <1>1, <1>2
<1>4. Good(t, e) /\ Sent(s, t) /\ t.c = s.c /\ t.h = s.h BY <1>1, <1>3, MountGood
<1>5. Becomes(t) BY <1>2
<1> HIDE DEF t
<1>6. Asks(t.c) BY <1>1, <1>4
<1>7. Books(t, e) /\ Offers(s, t)
  <2>1. ~Ours(s) BY <1>1, <1>2, <1>a
  <2>2. Unseen(s, t) BY <1>4, <2>1 DEF Unseen
  <2> QED BY <1>1, <1>4, <2>2, Unnoticed
<1> QED BY <1>2, <1>4, <1>5, <1>6, <1>7, StepFact DEF e, s

\* The done event is handled.
LEMMA DoneEventInv ==
    ASSUME Inv, DoneEvent
    PROVE  Inv' /\ Serves
<1> DEFINE s == S
           t == RpEvhsdon(s)
<1>1. /\ Good(s, Phase(dp, done)) /\ Asks(s.c) /\ Slave(s, dp, done)
      /\ Books(s, Phase(dp, done)) /\ Dropped(s) /\ s = S
  BY Now
<1>2. done /\ done' = FALSE /\ Becomes(t) /\ dp' = dp BY DEF DoneEvent
<1> HIDE DEF s
<1>3. Phase(dp, done) = "moved" /\ s.d.st = "BUSY" /\ s.x.cmd = "none" /\ dp = "idle"
  BY <1>1, <1>2 DEF Phase, Slave
<1>4. Handled(s, t) BY <1>1, <1>3, EvhsdonGood
<1> HIDE DEF t
<1>5. /\ Good(t, "told") /\ Asks(t.c) /\ (t.d.st = "BUSY" <=> t.x.cmd # "none")
      /\ Books(t, "told") /\ Worked(s, t)
  BY <1>1, <1>4 DEF Handled
<1> DEFINE v == [c |-> c', d |-> d', armed |-> armed', x |-> x', h |-> h']
           u == Tidier(t)
<1>6. /\ Good(u, "told") /\ Asks(u.c) /\ Tidied(u)
      /\ u.d.st = t.d.st /\ u.x.cmd = t.x.cmd /\ Books(u, "told") /\ Forgets(t, u)
  BY <1>5, TidyFact
<1>7. v = u BY <1>2 DEF Becomes, Tidier
<1> HIDE DEF u
<1>8. Slave(u, "idle", FALSE) BY <1>5, <1>6 DEF Slave
<1>9. /\ Good(v, "told") /\ Slave(v, "idle", FALSE) /\ Asks(v.c) /\ Tidied(v)
      /\ Books(v, "told") /\ Dropped(v)
  BY <1>6, <1>7, <1>8 DEF Forgets
<1>10. v.c = c' /\ v.h = h' OBVIOUS
<1>11. dp' = "idle" /\ done' = FALSE BY <1>2, <1>3
<1>12. Serves
  <2>1. s.h.moved \in Seq(Int \X Int) /\ t.h.moved \in Seq(Int \X Int)
    BY <1>1, <1>5 DEF Good, Types, Parts
  <2>2. c' = u.c /\ h' = u.h /\ Offers(s, t) BY <1>5, <1>7, <1>10 DEF Offers
  <2> QED BY <1>1, <1>6, <2>1, <2>2, ServesFact
<1>13. Phase(dp', done') = "told" BY <1>11 DEF Phase
<1>14. Inv' BY <1>9, <1>10, <1>11, <1>13 DEF Inv, S
<1> QED BY <1>12, <1>14

\* The words that the subprocess writes, each from its place on the disk.
LEMMA PairsFact ==
    ASSUME NEW a \in Int, NEW m \in Nat, NEW buf \in Seq(Int), m <= Len(buf)
    PROVE  /\ Zip(Words(a, m), buf) \in Seq(Int \X Int)
           /\ Len(Zip(Words(a, m), buf)) = m
           /\ \A i \in 1..m : /\ Zip(Words(a, m), buf)[i][1] = a + i - 1
                              /\ Zip(Words(a, m), buf)[i][2] = buf[i]
<1> DEFINE w == Words(a, m)
           z == Zip(w, buf)
<1>1. w \in Seq(Int) /\ Len(w) = m /\ \A i \in 1..m : w[i] = a + i - 1 BY WordsFact
<1> HIDE DEF w
<1>2. z = [i \in 1..m |-> <<w[i], buf[i]>>] BY <1>1 DEF Zip
<1> HIDE DEF z
<1>3. \A i \in 1..m : <<w[i], buf[i]>> \in Int \X Int BY <1>1
<1>4. z \in Seq(Int \X Int) /\ Len(z) = m
  <2> DEFINE Pairs == Int \X Int
  <2>1. \A i \in 1..m : <<w[i], buf[i]>> \in Pairs BY <1>3
  <2> HIDE DEF Pairs
  <2>2. z \in Seq(Pairs) /\ Len(z) = m BY <1>2, <2>1
  <2> QED BY <2>2 DEF Pairs
<1>5. \A i \in 1..m : z[i][1] = a + i - 1 /\ z[i][2] = buf[i] BY <1>1, <1>2
<1> QED BY <1>4, <1>5 DEF z, w

\* What the subprocess leaves alone.
Executed(s, v) ==
    /\ DOMAIN v = {"c", "d", "armed", "x", "h"} /\ DOMAIN v.x = XFields /\ DOMAIN v.h = HFields
    /\ v.c = s.c /\ v.d = s.d /\ v.armed = s.armed
    /\ v.x.mol \in BOOLEAN /\ v.x.err \in BOOLEAN
    /\ v.x.cmd = s.x.cmd /\ v.x.daddr = s.x.daddr
    /\ v.h.from = s.h.from /\ v.h.taken = s.h.taken /\ v.h.panic = s.h.panic

\* The subprocess has changed the pack.
LEMMA MountedGood ==
    ASSUME NEW s, Good(s, "told"), s.d.st = "BUSY", s.x.cmd = "MOUNT", Books(s, "told"),
           NEW v, Executed(s, v), v.x.scnt = s.x.scnt, v.x.buf = s.x.buf, v.h = s.h
    PROVE  Good(v, "moved") /\ Books(v, "moved") /\ Worked(s, v)
<1>1. Types(s) /\ Parts(s) /\ Carried(s) /\ InPlace(s, "told") /\ s.h.panic = FALSE
  BY DEF Good, Types
<1>2. s.d.scmd \notin Xfers
  <2>1. s.x.cmd \in Kind(s.d.scmd) BY <1>1 DEF Carried
  <2> QED BY <2>1 DEF Kind, Xfers
<1>3. s.d.go = FALSE
  <2>1. s.c.ptcr.drv = "rp" => s.c.ptcr.cmd \in Xfers
    <3>1. s.c.ptcr \in Request \cup {NoReq} BY <1>1 DEF Types, Regs
    <3> QED BY <3>1, MonitorAssumption DEF NoReq
  <2> QED BY <1>1, <1>2, <2>1 DEF Carried, Ours, Parts
<1>4. s.armed = FALSE BY <1>1 DEF Carried, Types
<1>5. Parts(v) BY <1>1 DEF Parts, Executed
<1>6. Types(v) BY <1>1, <1>5 DEF Types, Executed
<1>7. Carried(v) BY <1>1, <1>3, <1>4 DEF Carried, Executed, Ours
<1>8. InPlace(v, "moved") BY <1>1, <1>3, <1>4 DEF InPlace, Executed
<1>9. Books(v, "moved") /\ Worked(s, v)
  <2>1. ~Ours(s) BY <1>1, <1>3 DEF Carried
  <2>2. v.c = s.c BY DEF Executed
  <2> QED BY <2>1, <2>2 DEF Books, Ours, Worked, Act, Wait, Rep
<1> QED BY <1>1, <1>6, <1>7, <1>8, <1>9 DEF Good, Executed

\* The subprocess has moved n sectors of a piece.
LEMMA PieceGood ==
    ASSUME NEW s, Good(s, "told"), s.d.st = "BUSY", s.x.cmd \notin {"MOUNT", "none"},
           NEW n \in 0..s.x.scnt, NEW v, Executed(s, v), v.x.scnt = n,
           NEW disk, disk = Words(s.x.daddr * NWds, n * NWds),
           NEW write, write = (s.x.cmd \in {"WRITE", "WRDMA"}),
           v.x.buf = IF write THEN s.x.buf ELSE disk,
           v.h.moved = IF write THEN s.h.moved \o Zip(disk, s.x.buf) ELSE s.h.moved
    PROVE  Good(v, "moved")
<1> DEFINE at == s.h.from * NWds
           from == s.x.daddr * NWds
           end == TotSecs * NWds
<1>1. /\ Types(s) /\ Parts(s) /\ Carried(s) /\ InPlace(s, "told") /\ s.h.panic = FALSE
      /\ s.x.scnt \in 0..TotSecs
  BY DEF Good, Types
<1>2. s.d.scmd \in Xfers /\ (write <=> s.d.scmd = "WRT")
  <2>1. s.x.cmd \in Kind(s.d.scmd) BY <1>1 DEF Carried
  <2> QED BY <2>1 DEF Kind, Xfers
<1>3. s.d.go = TRUE /\ s.armed = FALSE
  <2>1. s.d.go = TRUE BY <1>1, <1>2 DEF Carried, Parts, Xfers
  <2>2. s.armed = FALSE BY <1>1 DEF Carried, Types
  <2> QED BY <2>1, <2>2
<1>4. Away(s) /\ s.d.begun = TRUE BY <1>1, <1>3 DEF Carried
<1>5. /\ s.x.daddr = s.d.blkadr /\ s.d.blkadr \in 0..TotSecs
      /\ s.x.scnt \in Nat /\ s.d.blkadr + s.x.scnt <= TotSecs
  BY <1>4 DEF Away, Space
<1>6. /\ at + Len(s.h.moved) = from
      /\ s.d.scmd = "WRT" => Len(s.x.buf) = s.x.scnt * NWds
  BY <1>1, <1>3, <1>5 DEF InPlace
<1>7. /\ n \in Nat /\ n <= s.x.scnt /\ n * NWds \in Nat /\ n * NWds <= s.x.scnt * NWds
      /\ s.x.daddr + n \in Nat /\ (s.x.daddr + n) * NWds = from + n * NWds
      /\ (s.x.daddr + n) * NWds <= end
      /\ (s.d.blkadr + n) * NWds <= (s.d.blkadr + s.x.scnt) * NWds
  <2>1. n \in Nat /\ n <= s.x.scnt /\ s.x.daddr \in Int /\ s.x.daddr \in Nat BY <1>5
  <2>2. n * NWds \in Nat /\ n * NWds <= s.x.scnt * NWds BY <1>5, <2>1, Prod
  <2>3. (s.x.daddr + n) * NWds = from + n * NWds
    <3>1. n \in Int BY <2>1
    <3> QED BY <2>1, <3>1, Distr
  <2>4. s.x.daddr + n \in Nat /\ s.x.daddr + n <= TotSecs /\ TotSecs \in Nat
    BY <1>5, <2>1, DriveAssumption
  <2>5. (s.x.daddr + n) * NWds <= end BY <2>4, Prod
  <2>6. s.d.blkadr + n \in Nat /\ s.d.blkadr + s.x.scnt \in Nat
        /\ s.d.blkadr + n <= s.d.blkadr + s.x.scnt
    BY <1>5, <2>1
  <2>7. (s.d.blkadr + n) * NWds <= (s.d.blkadr + s.x.scnt) * NWds BY <2>6, Prod
  <2> QED BY <2>1, <2>2, <2>3, <2>4, <2>5, <2>7
<1>8. at \in Int /\ from \in Int /\ end \in Int BY <1>1, <1>5, DriveAssumption DEF Parts
<1>9. disk \in Seq(Int) BY <1>7, <1>8, WordsFact
<1>10. Placed(v.h) /\ v.h.moved \in Seq(Int \X Int)
       /\ (write => at + Len(v.h.moved) = (s.d.blkadr + n) * NWds)
  <2>1. CASE ~write
    <3>1. v.h.moved = s.h.moved BY <2>1
    <3> QED BY <1>1, <2>1, <3>1 DEF InPlace, Placed, Executed, Parts
  <2>2. CASE write
    <3> DEFINE old == s.h.moved
               new == Zip(disk, s.x.buf)
    <3>1. n * NWds <= Len(s.x.buf) /\ s.x.buf \in Seq(Int)
      BY <1>1, <1>2, <1>6, <1>7, <2>2 DEF Parts
    <3>2. /\ new \in Seq(Int \X Int) /\ Len(new) = n * NWds
          /\ \A i \in 1..n * NWds : new[i][1] = from + i - 1
      <4> DEFINE words == n * NWds
             buf == s.x.buf
      <4>1. /\ from \in Int /\ words \in Nat /\ buf \in Seq(Int) /\ words <= Len(buf)
            /\ disk = Words(from, words)
        BY <1>7, <1>8, <3>1
      <4> HIDE DEF words, from, buf
      <4>2. new = Zip(Words(from, words), buf) BY <4>1 DEF buf
      <4> HIDE DEF new
      <4>3. /\ new \in Seq(Int \X Int) /\ Len(new) = words
            /\ \A i \in 1..words : new[i][1] = from + i - 1
        <5>1. Zip(Words(from, words), buf) \in Seq(Int \X Int) BY <4>1, PairsFact
        <5>2. Len(Zip(Words(from, words), buf)) = words BY <4>1, PairsFact
        <5>3. \A i \in 1..words : Zip(Words(from, words), buf)[i][1] = from + i - 1
          BY <4>1, PairsFact
        <5> QED BY <4>2, <5>1, <5>2, <5>3
      <4> QED BY <4>3 DEF words
    <3>3. old \in Seq(Int \X Int) BY <1>1 DEF Parts
    <3>4. InRow(old, at, end) BY <1>1 DEF InPlace, Placed, InRow
    <3>5. v.h.moved = old \o new BY <2>2
    <3>6. at + Len(old) = from BY <1>6
    <3> HIDE DEF old, new, at, from, end
    <3>7. InRow(new, at + Len(old), end)
      <4>1. \A i \in 1..n * NWds : new[i][1] = from + i - 1 /\ from + i - 1 < end
        BY <1>7, <1>8, <3>2
      <4> QED BY <3>2, <3>6, <4>1 DEF InRow
    <3>8. InRow(old \o new, at, end) /\ Len(old \o new) = Len(old) + n * NWds
      BY <1>8, <3>2, <3>3, <3>4, <3>7, LaidOn
    <3>9. at + Len(old \o new) = (s.d.blkadr + n) * NWds
      <4>1. Len(old) \in Nat BY <3>3
      <4> QED BY <1>5, <1>7, <1>8, <3>6, <3>8, <4>1
    <3>10. old \o new \in Seq(Int \X Int)
      <4> DEFINE Moves == Int \X Int
      <4>1. old \in Seq(Moves) /\ new \in Seq(Moves) BY <3>2, <3>3
      <4> HIDE DEF Moves
      <4>2. old \o new \in Seq(Moves) BY <4>1
      <4> QED BY <4>2 DEF Moves
    <3>11. v.h.from * NWds = at BY DEF Executed, at
    <3>12. Placed(v.h) BY <3>5, <3>8, <3>11 DEF Placed, InRow, end
    <3> QED BY <3>5, <3>9, <3>10, <3>12
  <2> QED BY <2>1, <2>2
<1>11. Parts(v)
  <2>1. v.x.buf \in Seq(Int) BY <1>1, <1>9 DEF Parts
  <2> QED BY <1>1, <1>10, <2>1 DEF Parts, Executed
<1>12. Types(v)
  <2>1. v.x.scnt \in 0..TotSecs BY <1>1, <1>7, DriveAssumption
  <2> QED BY <1>1, <1>11, <2>1 DEF Types, Executed
<1>13. Away(v)
  <2>1. /\ Space(v.d) /\ v.x.scnt \in Nat /\ v.x.daddr = v.d.blkadr
        /\ v.d.blkadr + v.x.scnt <= TotSecs
    BY <1>4, <1>5, <1>7, DriveAssumption DEF Away, Executed
  <2>2. v.d.direct \in BOOLEAN /\ (v.d.direct => v.x.scnt * NWds <= v.c.wcnt)
    <3>1. s.c.wcnt \in Nat BY <1>1 DEF Parts, Ctl
    <3>2. s.d.direct => s.x.scnt * NWds <= s.c.wcnt BY <1>4 DEF Away
    <3>3. s.x.scnt * NWds \in Int BY <1>5, DriveAssumption
    <3>4. s.d.direct => n * NWds <= s.c.wcnt BY <1>7, <3>1, <3>2, <3>3
    <3> QED BY <1>4, <3>4 DEF Away, Executed
  <2>3. v.d.direct \/ v.d.scmd = "RED" => v.x.scnt * NWds <= v.d.blklim /\ Fits(v.d)
    <3>1. s.d.blklim \in Nat BY <1>4 DEF Away, Space
    <3>2. s.d.direct \/ s.d.scmd = "RED" => s.x.scnt * NWds <= s.d.blklim /\ Fits(s.d)
      BY <1>4 DEF Away
    <3>3. s.x.scnt * NWds \in Int BY <1>5, DriveAssumption
    <3>4. s.d.direct \/ s.d.scmd = "RED" => n * NWds <= s.d.blklim BY <1>7, <3>1, <3>2, <3>3
    <3> QED BY <3>2, <3>4 DEF Executed
  <2>4. ~v.d.direct /\ v.d.scmd = "WRT" =>
            (v.d.blkadr + v.x.scnt) * NWds + v.d.blklim <= TotSecs * NWds \/ v.c.wcnt = 0
    <3>1. s.d.blklim \in Nat BY <1>4 DEF Away, Space
    <3>2. ~s.d.direct /\ s.d.scmd = "WRT" =>
             (s.d.blkadr + s.x.scnt) * NWds + s.d.blklim <= TotSecs * NWds \/ s.c.wcnt = 0
      BY <1>4 DEF Away
    <3>3. (s.d.blkadr + s.x.scnt) * NWds \in Int /\ (s.d.blkadr + n) * NWds \in Int
          /\ TotSecs * NWds \in Int
      BY <1>5, <1>7, DriveAssumption
    <3>4. ~s.d.direct /\ s.d.scmd = "WRT" =>
             (s.d.blkadr + n) * NWds + s.d.blklim <= TotSecs * NWds \/ s.c.wcnt = 0
      BY <1>7, <3>1, <3>2, <3>3
    <3> QED BY <3>4 DEF Executed
  <2>5. v.d.scmd = "WRT" => Whole(v.d) \/ v.c.wcnt = 0 BY <1>4 DEF Away, Executed
  <2> QED BY <2>1, <2>2, <2>3, <2>4, <2>5 DEF Away
<1>14. Carried(v) BY <1>1, <1>3, <1>4, <1>13 DEF Carried, Executed, Ours
<1>15. InPlace(v, "moved")
  <2>1. CASE write
    <3>1. v.h.from * NWds + Len(v.h.moved) = (v.d.blkadr + v.x.scnt) * NWds
      BY <1>10, <2>1 DEF Executed
    <3>2. v.d.scmd = "WRT" /\ v.armed = FALSE BY <1>2, <1>3, <2>1 DEF Executed
    <3> QED BY <1>10, <3>1, <3>2 DEF InPlace
  <2>2. CASE ~write
    <3>1. v.h.from * NWds + Len(v.h.moved) = v.d.blkadr * NWds
      BY <1>5, <1>6, <2>2 DEF Executed
    <3>2. v.x.buf = Words(v.x.daddr * NWds, v.x.scnt * NWds) BY <2>2 DEF Executed
    <3>3. v.d.scmd # "WRT" /\ v.armed = FALSE BY <1>2, <1>3, <2>2 DEF Executed
    <3> QED BY <1>10, <3>1, <3>2, <3>3 DEF InPlace
  <2> QED BY <2>1, <2>2
<1> QED BY <1>1, <1>12, <1>14, <1>15 DEF Good, Executed

\* And what it has moved is what the books say.
LEMMA PieceBooks ==
    ASSUME NEW s, Good(s, "told"), s.d.st = "BUSY", s.x.cmd \notin {"MOUNT", "none"},
           NEW n \in 0..s.x.scnt, NEW v, Executed(s, v), v.x.scnt = n,
           NEW disk, disk = Words(s.x.daddr * NWds, n * NWds),
           NEW write, write = (s.x.cmd \in {"WRITE", "WRDMA"}),
           v.x.buf = IF write THEN s.x.buf ELSE disk,
           v.h.moved = IF write THEN s.h.moved \o Zip(disk, s.x.buf) ELSE s.h.moved,
           Good(v, "moved"), Books(s, "told"), v.x.err \/ n = s.x.scnt
    PROVE  Books(v, "moved") /\ Worked(s, v)
<1> DEFINE from == s.x.daddr * NWds
           words == n * NWds
           old == s.h.moved
           new == Zip(disk, s.x.buf)
           buf == s.x.buf
           Moves == Int \X Int
<1>1. /\ Types(s) /\ Parts(s) /\ Carried(s) /\ InPlace(s, "told")
      /\ s.x.scnt \in Nat /\ s.x.daddr \in Nat
  <2>1. s.x.scnt \in 0..TotSecs /\ s.x.daddr \in 0..TotSecs BY DEF Good, Types
  <2> QED BY <2>1, DriveAssumption DEF Good, Types
<1>2. s.d.scmd \in Xfers /\ (write <=> s.d.scmd = "WRT")
  <2>1. s.x.cmd \in Kind(s.d.scmd) BY <1>1 DEF Carried
  <2> QED BY <2>1 DEF Kind, Xfers
<1>3. s.d.go = TRUE /\ s.armed = FALSE /\ Ours(s)
  <2>1. s.d.go = TRUE /\ Ours(s) BY <1>1, <1>2 DEF Carried, Parts, Xfers
  <2>2. s.armed = FALSE BY <1>1 DEF Carried, Types
  <2> QED BY <2>1, <2>2
<1>4. v.c = s.c /\ v.d = s.d /\ v.armed = s.armed /\ v.h.taken = s.h.taken /\ v.h.from = s.h.from
  BY DEF Executed
<1>5. /\ Act(v) = Act(s) /\ Wait(v) = Wait(s) /\ Rep(v) = Rep(s) /\ Act(s) # NoReq
      /\ Ours(v) /\ Short(v) = Short(s)
  BY <1>3, <1>4, ActFact DEF Act, Wait, Rep, Ours, Short
<1>6. /\ "CMD" \notin s.c.cond /\ s.c.bcnt = s.c.ptcr.blocks
      /\ s.h.taken + s.d.blkwds = SizeOf(s.c.ptcr) /\ Straight(old) /\ Continues(s, Len(old))
  BY <1>3 DEF Books, Accounts
<1>7. ASSUME Accounts(v, "moved") PROVE Books(v, "moved")
  BY <1>3, <1>4, <1>5, <1>6, <1>7 DEF Books
<1>8. CASE ~write
  <2>1. v.h.moved = old BY <1>8
  <2>2. s.d.scmd # "WRT" BY <1>2, <1>8
  <2>3. Accounts(v, "moved") BY <1>3, <1>4, <1>6, <2>1, <2>2 DEF Accounts, Continues
  <2> QED BY <1>5, <1>7, <2>1, <2>3 DEF Worked
<1>9. CASE write
  <2>1. /\ v.h.moved = old \o new /\ s.d.scmd = "WRT"
        /\ old \in Seq(Moves) /\ buf \in Seq(Int) /\ s.h.from \in Nat
    BY <1>1, <1>2, <1>9 DEF Parts
  <2>2. /\ words \in Nat /\ words <= Len(buf) /\ Len(buf) = s.x.scnt * NWds
        /\ from \in Int /\ (n = s.x.scnt => words = Len(buf))
    <3>1. Len(buf) = s.x.scnt * NWds BY <1>1, <1>3, <2>1 DEF InPlace
    <3>2. n \in Nat /\ n <= s.x.scnt BY <1>1
    <3>3. words \in Nat /\ words <= s.x.scnt * NWds BY <1>1, <3>2, Prod
    <3>4. from \in Int BY <1>1, DriveAssumption
    <3> QED BY <3>1, <3>3, <3>4
  <2>3. /\ new \in Seq(Moves) /\ Len(new) = words
        /\ \A i \in 1..words : new[i][2] = buf[i]
    <3>1. disk = Words(from, words) OBVIOUS
    <3> HIDE DEF words, from
    <3>2. new = Zip(Words(from, words), buf) BY <3>1
    <3> HIDE DEF new, buf
    <3>3. Zip(Words(from, words), buf) \in Seq(Moves) BY <2>1, <2>2, PairsFact
    <3>4. Len(Zip(Words(from, words), buf)) = words BY <2>1, <2>2, PairsFact
    <3>5. \A i \in 1..words : Zip(Words(from, words), buf)[i][2] = buf[i]
      BY <2>1, <2>2, PairsFact
    <3> QED BY <3>2, <3>3, <3>4, <3>5
  <2>4. PICK q \in 0..Len(buf) :
            /\ \A i \in 1..Len(buf) : buf[i] = IF i <= q THEN Len(old) + i ELSE 0
            /\ q = Len(buf) \/ Short(s)
            /\ s.h.taken = IF s.d.direct THEN Len(old) ELSE Len(old) + q
    BY <1>6, <2>1 DEF Continues, Filled
  <2>5. Base(v) = IF s.d.direct THEN s.h.taken + words ELSE s.h.taken BY <1>4 DEF Base
  <2> DEFINE all == v.h.moved
             p == IF q <= words THEN q ELSE words
  <2> HIDE DEF old, new, buf, words, from, Moves
  <2>6. /\ Len(old) \in Nat /\ Len(buf) \in Nat /\ p \in 0..words
        /\ \A i \in 1..words : i <= p <=> i <= q
    BY <2>1, <2>2, <2>4
  <2>7. \A i \in 1..Len(new) : new[i][2] = IF i <= p THEN Len(old) + i ELSE 0
    <3>1. \A i \in 1..words : i \in 1..Len(buf) BY <2>2, <2>6
    <3> HIDE DEF p
    <3> QED BY <2>3, <2>4, <2>6, <3>1
  <2>8. /\ Padded(all) /\ (p = Len(new) => Straight(all))
        /\ Len(all) = Len(old) + words /\ SubSeq(all, 1, Len(old)) = old
    <3> HIDE DEF p
    <3>1. p \in 0..Len(new) /\ Straight(old) BY <1>6, <2>3, <2>6 DEF old
    <3>2. /\ Padded(old \o new) /\ (p = Len(new) => Straight(old \o new))
          /\ Len(old \o new) = Len(old) + Len(new) /\ SubSeq(old \o new, 1, Len(old)) = old
      BY <2>1, <2>3, <2>7, <3>1, PaddedOn
    <3> QED BY <2>1, <2>3, <3>2
  <2>9. v.x.err \/ Short(v) \/ (Straight(all) /\ Len(all) = Base(v))
    <3>1. SUFFICES ASSUME ~v.x.err, ~Short(v) PROVE Straight(all) /\ Len(all) = Base(v)
      OBVIOUS
    <3>2. q = words /\ Len(buf) = words BY <1>5, <2>2, <2>4, <3>1
    <3>3. Straight(all) BY <2>2, <2>3, <2>8, <3>2
    <3>4. Base(v) = Len(old) + words BY <2>4, <2>5, <3>2
    <3> QED BY <2>8, <3>3, <3>4
  <2>10. Accounts(v, "moved") BY <1>3, <1>4, <1>6, <2>1, <2>8, <2>9 DEF Accounts
  <2>11. Grown(old, all)
    <3>1. Placed(v.h) /\ all \in Seq(Int \X Int) /\ v.h.from \in Nat
      BY DEF Good, InPlace, Types, Parts
    <3>2. Service!InOrder(all) BY <2>8, <3>1, OrderFact
    <3>3. words \in Nat /\ Len(old) \in Nat /\ Len(all) = Len(old) + words BY <2>2, <2>6, <2>8
    <3> HIDE DEF p, all
    <3>4. Len(all) >= Len(old) BY <3>3
    <3> QED BY <2>8, <3>2, <3>4 DEF Grown
  <2> QED BY <1>5, <1>7, <2>10, <2>11 DEF Worked, old
<1> QED BY <1>8, <1>9

\* What a step of the subprocess comes to.
LEMMA SubprocessFact ==
    ASSUME Inv, NEW v, v = [c |-> c', d |-> d', armed |-> armed', x |-> x', h |-> h'],
           NEW e, e = Phase(dp', done'), Good(v, e), Slave(v, dp', done'), Asks(v.c), Tidied(v),
           Books(v, e), Worked(S, v)
    PROVE  Inv' /\ Serves
<1>1. v.c = c' /\ v.h = h' OBVIOUS
<1>2. Dropped(S) /\ S.h.moved \in Seq(Int \X Int) BY DEF Inv, Good, Types, Parts
<1>3. v.h.moved \in Seq(Int \X Int) BY DEF Good, Types, Parts
<1>4. Forgets(v, v) BY <1>2, WorkedForgets
<1>5. Dropped(v) BY <1>4 DEF Forgets
<1>6. Inv' BY <1>1, <1>5 DEF Inv, S
<1>7. Serves BY <1>1, <1>2, <1>3, <1>4, ServesFact DEF Offers
<1> QED BY <1>6, <1>7

\* The subprocess carries out its command.
LEMMA ExecuteInv ==
    ASSUME Inv, Execute
    PROVE  Inv' /\ Serves
<1> DEFINE s == S
           v == [c |-> c', d |-> d', armed |-> armed', x |-> x', h |-> h']
<1>1. /\ Good(s, Phase(dp, done)) /\ Asks(s.c) /\ Slave(s, dp, done) /\ Tidied(s)
      /\ s.c = c /\ s.d = d /\ s.armed = armed /\ s.x = x /\ s.h = h
      /\ Books(s, Phase(dp, done))
  BY Now
<1>2. /\ dp = "idle" /\ x.cmd # "none" /\ dp' = "did"
      /\ c' = c /\ d' = d /\ armed' = armed /\ done' = done
      /\ \/ x.cmd = "MOUNT" /\ Devmount
         \/ x.cmd # "MOUNT" /\ Devio
  BY DEF Execute
<1> HIDE DEF s
<1>3. /\ DOMAIN v = {"c", "d", "armed", "x", "h"}
      /\ v.c = s.c /\ v.d = s.d /\ v.armed = s.armed /\ v.x = x' /\ v.h = h' /\ v.c = c'
  BY <1>1, <1>2
<1> HIDE DEF v
<1>4. Good(s, "told") /\ s.d.st = "BUSY" /\ ~done /\ Books(s, "told")
  BY <1>1, <1>2 DEF Slave, Phase
<1>5. DOMAIN x = XFields /\ DOMAIN h = HFields /\ x.mol \in BOOLEAN /\ x.scnt \in Nat
  <2>1. s.x.scnt \in 0..TotSecs /\ Parts(s) BY <1>4 DEF Good, Types
  <2> QED BY <1>1, <2>1, DriveAssumption DEF Parts
<1>6. Good(v, "moved") /\ v.x.cmd = s.x.cmd /\ Books(v, "moved") /\ Worked(s, v)
  <2>1. CASE x.cmd = "MOUNT" /\ Devmount
    <3>1. PICK works \in BOOLEAN :
            x' = [x EXCEPT !.err = FALSE, !.mol = works /\ x.pack # "none"] /\ h' = h
      BY <2>1 DEF Devmount
    <3>2. /\ DOMAIN v.x = XFields /\ v.x.mol \in BOOLEAN /\ v.x.err \in BOOLEAN
          /\ v.x.cmd = s.x.cmd /\ v.x.daddr = s.x.daddr /\ v.x.scnt = s.x.scnt
          /\ v.x.buf = s.x.buf
      BY <1>1, <1>3, <1>5, <3>1 DEF XFields
    <3>3. v.h = s.h /\ DOMAIN v.h = HFields BY <1>1, <1>3, <1>5, <3>1
    <3>4. Executed(s, v) BY <1>3, <3>2, <3>3 DEF Executed
    <3>5. s.x.cmd = "MOUNT" BY <1>1, <2>1
    <3> QED BY <1>4, <3>2, <3>3, <3>4, <3>5, MountedGood
  <2>2. CASE x.cmd # "MOUNT" /\ Devio
    <3> DEFINE write == x.cmd \in {"WRITE", "WRDMA"}
    <3>1. PICK n \in (IF x.mol THEN 0..x.scnt ELSE {0}) :
            /\ x' = [x EXCEPT !.err = (n < x.scnt \/ ~x.mol), !.scnt = n,
                              !.buf = IF write THEN @ ELSE Words(x.daddr * NWds, n * NWds)]
            /\ h' = IF write
                    THEN [h EXCEPT !.moved = @ \o Zip(Words(x.daddr * NWds, n * NWds), x.buf)]
                    ELSE h
      BY <2>2 DEF Devio
    <3> DEFINE disk == Words(s.x.daddr * NWds, n * NWds)
    <3>2. n \in 0..s.x.scnt BY <1>1, <1>5, <3>1
    <3>3. x' = [x EXCEPT !.err = (n < x.scnt \/ ~x.mol), !.scnt = n,
                         !.buf = IF write THEN @ ELSE disk]
          /\ h' = IF write THEN [h EXCEPT !.moved = @ \o Zip(disk, x.buf)] ELSE h
      BY <1>1, <3>1
    <3>4. disk = Words(s.x.daddr * NWds, n * NWds) OBVIOUS
    <3>5. write = (s.x.cmd \in {"WRITE", "WRDMA"}) BY <1>1
    <3> HIDE DEF disk, write
    <3>6. /\ DOMAIN v.x = XFields /\ v.x.mol \in BOOLEAN /\ v.x.err \in BOOLEAN
          /\ v.x.cmd = s.x.cmd /\ v.x.daddr = s.x.daddr /\ v.x.scnt = n
          /\ v.x.buf = IF write THEN s.x.buf ELSE disk
      BY <1>1, <1>3, <1>5, <3>3 DEF XFields
    <3>a. v.x.err \/ n = s.x.scnt
      <4> DEFINE bad == n < x.scnt \/ ~x.mol
      <4>1. v.x.err = bad BY <1>3, <1>5, <3>3 DEF XFields
      <4>2. bad \/ n = s.x.scnt BY <1>1, <1>5, <3>2
      <4> HIDE DEF bad
      <4> QED BY <4>1, <4>2
    <3>7. /\ DOMAIN v.h = HFields
          /\ v.h.from = s.h.from /\ v.h.taken = s.h.taken /\ v.h.panic = s.h.panic
          /\ v.h.moved = IF write THEN s.h.moved \o Zip(disk, s.x.buf) ELSE s.h.moved
      BY <1>1, <1>3, <1>5, <3>3 DEF HFields
    <3>8. Executed(s, v) BY <1>3, <3>6, <3>7 DEF Executed
    <3>9. s.x.cmd \notin {"MOUNT", "none"} BY <1>1, <1>2, <2>2
    <3>10. v.x.scnt = n /\ (v.x.buf = IF write THEN s.x.buf ELSE disk) BY <3>6
    <3>11. v.h.moved = IF write THEN s.h.moved \o Zip(disk, s.x.buf) ELSE s.h.moved BY <3>7
    <3>12. Good(v, "moved")
      BY <1>4, <3>2, <3>4, <3>5, <3>8, <3>9, <3>10, <3>11, PieceGood
    <3>13. Books(v, "moved") /\ Worked(s, v)
      BY <1>4, <3>2, <3>4, <3>5, <3>8, <3>9, <3>10, <3>11, <3>12, <3>a, PieceBooks
    <3> QED BY <3>6, <3>12, <3>13
  <2> QED BY <1>2, <2>1, <2>2
<1>7. Slave(v, dp', done') BY <1>1, <1>2, <1>3, <1>4, <1>6 DEF Slave
<1>8. Asks(v.c) /\ Tidied(v) BY <1>1, <1>3 DEF Tidied
<1>9. Phase(dp', done') = "moved" BY <1>2 DEF Phase
<1>10. v = [c |-> c', d |-> d', armed |-> armed', x |-> x', h |-> h'] BY DEF v
<1> QED BY <1>6, <1>7, <1>8, <1>9, <1>10, SubprocessFact DEF s

\* It acknowledges the command.
LEMMA AcknowledgeInv ==
    ASSUME Inv, Acknowledge
    PROVE  Inv' /\ Serves
<1> DEFINE s == S
           v == [c |-> c', d |-> d', armed |-> armed', x |-> x', h |-> h']
<1>1. /\ Good(s, Phase(dp, done)) /\ Asks(s.c) /\ Slave(s, dp, done) /\ Tidied(s)
      /\ s.c = c /\ s.d = d /\ s.armed = armed /\ s.x = x /\ s.h = h
      /\ Books(s, Phase(dp, done))
  BY Now
<1>2. /\ dp = "did" /\ dp' = "acked" /\ x' = [x EXCEPT !.cmd = "none"]
      /\ c' = c /\ d' = d /\ armed' = armed /\ h' = h /\ done' = done
  BY DEF Acknowledge
<1> HIDE DEF s
<1>3. /\ DOMAIN v = {"c", "d", "armed", "x", "h"}
      /\ v.c = s.c /\ v.d = s.d /\ v.armed = s.armed /\ v.x = x' /\ v.h = s.h /\ v.c = c'
  BY <1>1, <1>2
<1> HIDE DEF v
<1>4. Good(s, "moved") /\ s.d.st = "BUSY" /\ s.x.cmd # "none" /\ ~done /\ Books(s, "moved")
  BY <1>1, <1>2 DEF Slave, Phase
<1>5. DOMAIN x = XFields BY <1>1, <1>4 DEF Good, Types, Parts
<1>6. DOMAIN v.x = XFields /\ v.x.cmd = "none" /\ \A f \in XFields \ {"cmd"} : v.x[f] = s.x[f]
  BY <1>1, <1>2, <1>3, <1>5 DEF XFields
<1>7. /\ v.x.mol = s.x.mol /\ v.x.err = s.x.err /\ v.x.scnt = s.x.scnt
      /\ v.x.daddr = s.x.daddr /\ v.x.buf = s.x.buf
  BY <1>6 DEF XFields
<1>8. Types(v)
  <2>1. Parts(v) BY <1>3, <1>4, <1>6, <1>7 DEF Good, Types, Parts
  <2> QED BY <1>3, <1>4, <1>6, <1>7, <2>1 DEF Good, Types
<1>9. Carried(v)
  <2>1. ASSUME s.d.go, ~s.armed PROVE Away(v)
    <3>1. Away(s) BY <1>4, <2>1 DEF Good, Carried
    <3> QED BY <1>3, <1>7, <3>1 DEF Away
  <2> QED BY <1>3, <1>4, <1>6, <2>1 DEF Good, Carried, Ours
<1>10. InPlace(v, "moved") BY <1>3, <1>4, <1>7 DEF Good, InPlace
<1>11. Good(v, "moved") BY <1>3, <1>4, <1>8, <1>9, <1>10 DEF Good
<1>12. Slave(v, dp', done') BY <1>1, <1>2, <1>3, <1>4, <1>6 DEF Slave
<1>13. Asks(v.c) /\ Tidied(v) BY <1>1, <1>3 DEF Tidied
<1>14. Books(v, "moved") /\ Worked(s, v)
  <2>1. Unseen(s, v) BY <1>3, <1>7 DEF Unseen, Steady
  <2> QED BY <1>3, <1>4, <2>1, UnseenFact DEF Worked
<1>15. Phase(dp', done') = "moved" BY <1>2 DEF Phase
<1>16. v = [c |-> c', d |-> d', armed |-> armed', x |-> x', h |-> h'] BY DEF v
<1> QED BY <1>11, <1>12, <1>13, <1>14, <1>15, <1>16, SubprocessFact DEF s

\* It reports that it is done.
LEMMA ReportInv ==
    ASSUME Inv, Report
    PROVE  Inv' /\ Serves
<1> DEFINE s == S
           v == [c |-> c', d |-> d', armed |-> armed', x |-> x', h |-> h']
<1>1. /\ Good(s, Phase(dp, done)) /\ Asks(s.c) /\ Slave(s, dp, done) /\ Tidied(s)
      /\ Books(s, Phase(dp, done))
  BY Now
<1>2. /\ dp = "acked" /\ dp' = "idle" /\ done' = TRUE
      /\ c' = c /\ d' = d /\ armed' = armed /\ x' = x /\ h' = h
  BY DEF Report
<1>3. v = s BY <1>2 DEF S
<1> HIDE DEF s
<1>5. Good(s, "moved") /\ Books(s, "moved") BY <1>1, <1>2 DEF Phase
<1>6. Slave(s, dp', done') BY <1>1, <1>2 DEF Slave
<1>7. /\ Good(v, "moved") /\ Slave(v, dp', done') /\ Asks(v.c) /\ Tidied(v)
      /\ Books(v, "moved") /\ Worked(s, v)
  BY <1>1, <1>3, <1>5, <1>6 DEF Worked
<1>8. Phase(dp', done') = "moved" BY <1>2 DEF Phase
<1>9. v = [c |-> c', d |-> d', armed |-> armed', x |-> x', h |-> h'] OBVIOUS
<1> HIDE DEF v
<1> QED BY <1>7, <1>8, <1>9, SubprocessFact DEF s

\* The invariant is inductive, and every step is one of Transfers, for a monitor and an operator
\* who are patient.
LEMMA NextInv ==
    ASSUME Inv, Patient, Waits, [Next]_vars
    PROVE  Inv' /\ Serves
<1>1. CASE Next
  BY <1>1, ConoInv, LoadTransferInv, LoadSbarInv, WriteDriveInv, ReadBadInv, IoResetInv,
     TimeoutInv, DoneEventInv, MountInv, ExecuteInv, AcknowledgeInv, ReportInv DEF Next
<1>2. CASE UNCHANGED vars
  <2> DEFINE s == S
             v == [c |-> c', d |-> d', armed |-> armed', x |-> x', h |-> h']
             e == Phase(dp', done')
  <2>1. /\ Good(s, Phase(dp, done)) /\ Asks(s.c) /\ Slave(s, dp, done) /\ Tidied(s)
        /\ Books(s, Phase(dp, done))
    BY Now
  <2>2. v = s /\ dp' = dp /\ done' = done BY <1>2 DEF S, vars
  <2>3. v = [c |-> c', d |-> d', armed |-> armed', x |-> x', h |-> h'] /\ e = Phase(dp', done')
    OBVIOUS
  <2> HIDE DEF v, s
  <2>4. /\ Good(v, e) /\ Slave(v, dp', done') /\ Asks(v.c) /\ Tidied(v)
        /\ Books(v, e) /\ Worked(s, v)
    BY <2>1, <2>2 DEF Worked
  <2> HIDE DEF e
  <2> QED BY <2>3, <2>4, SubprocessFact DEF s
<1> QED BY <1>1, <1>2

\* In every state that can be reached.
LEMMA InvAlways ==
    ASSUME Patient, Waits
    PROVE  Spec => []Inv
<1>1. Init => Inv BY InitInv
<1>2. Inv /\ [Next]_vars => Inv' BY NextInv
<1> QED BY <1>1, <1>2, PTL DEF Spec

-----------------------------------------------------------------------------
(* Theorems                                                                *)

\* Every variable keeps its type; in particular the block address of the transfer under way
\* stays on the pack and its counts stay natural numbers (dvrpxx.c, rp_updxfr).
THEOREM TypeCorrect ==
    ASSUME Patient, Waits
    PROVE  Spec => []TypeOK
<1>1. ASSUME Inv PROVE TypeOK
  <2> DEFINE s == S
  <2>1. /\ Good(s, Phase(dp, done)) /\ Slave(s, dp, done) /\ Tidied(s)
        /\ s.c = c /\ s.d = d /\ s.armed = armed /\ s.x = x
    BY <1>1, Now
  <2> HIDE DEF s
  <2>2. Types(s) /\ Parts(s) /\ Regs(s.c) /\ Ctl(s.c) /\ Carried(s)
    BY <2>1 DEF Good, Types, Parts
  <2>3. Space(d)
    <3>1. CASE s.d.go /\ ~s.armed BY <2>1, <2>2, <3>1 DEF Carried, Away
    <3>2. CASE ~(s.d.go /\ ~s.armed)
      <4>1. d.blkadr = 0 /\ d.blkwds = 0 /\ d.blklim = 0 BY <2>1, <3>2 DEF Tidied
      <4> QED BY <4>1, DriveAssumption DEF Space
    <3> QED BY <3>1, <3>2
  <2> QED BY <2>1, <2>2, <2>3 DEF TypeOK, Types, Regs, Ctl, Slave, Space
<1> QED BY <1>1, InvAlways, PTL

\* "Slave is known to be quiescent at this point" (rp_dpcmddon, dvrpxx.c): while a done event
\* waits, the subprocess has no command and does nothing.
THEOREM QuietBeforeResults ==
    ASSUME Patient, Waits
    PROVE  Spec => []SlaveQuiescent
<1>1. ASSUME Inv PROVE SlaveQuiescent
  <2>1. Slave(S, dp, done) /\ S.x = x BY <1>1, Now
  <2> QED BY <2>1 DEF Slave, SlaveQuiescent
<1> QED BY <1>1, InvAlways, PTL

\* The disk code never stops the emulator: rp_dpcmd never finds the subprocess busy, and
\* rh20_iobuf is never told of more words than the channel had.
THEOREM NeverPanics ==
    ASSUME Patient, Waits
    PROVE  Spec => []NoPanic
<1>1. ASSUME Inv PROVE NoPanic
  <2>1. Good(S, Phase(dp, done)) /\ S.h = h BY <1>1, Now
  <2> QED BY <2>1 DEF Good, NoPanic
<1> QED BY <1>1, InvAlways, PTL

\* A transfer that rh_xfrbeg has begun is with the delay timer, the subprocess or its report
\* until rh20_ioend: nothing that happens meanwhile leaves it with nobody.
THEOREM NoTransferLost ==
    ASSUME Patient, Waits
    PROVE  Spec => []TransferCarried
<1>1. ASSUME Inv PROVE TransferCarried
  <2> DEFINE s == S
  <2>1. /\ Good(s, Phase(dp, done)) /\ Slave(s, dp, done)
        /\ s.c = c /\ s.d = d /\ s.armed = armed /\ s.x = x
    BY <1>1, Now
  <2>2. SUFFICES ASSUME Active # NoReq
                 PROVE  d.go /\ d.scmd = Active.cmd
                        /\ (armed \/ x.cmd # "none" \/ dp # "idle" \/ done)
    BY DEF TransferCarried
  <2>3. Ours(s) /\ Active = c.ptcr BY <2>1, <2>2 DEF Active, Ours
  <2> HIDE DEF s
  <2>4. Carried(s) BY <2>1 DEF Good
  <2>5. d.go /\ d.scmd = c.ptcr.cmd BY <2>1, <2>3, <2>4 DEF Carried
  <2>6. ASSUME ~armed PROVE x.cmd # "none" \/ dp # "idle" \/ done
    <3>1. s.d.st = "BUSY" BY <2>1, <2>4, <2>5, <2>6 DEF Carried
    <3> QED BY <2>1, <3>1 DEF Slave
  <2> QED BY <2>3, <2>5, <2>6
<1> QED BY <1>1, InvAlways, PTL

\* However the drive cuts a transfer into pieces, and wherever the subprocess stops in one,
\* the words moved are those that lie on the pack from the sector asked for on.
THEOREM WordsInPlace ==
    ASSUME Patient, Waits
    PROVE  Spec => []RightPlace
<1>1. ASSUME Inv PROVE RightPlace
  <2>1. Good(S, Phase(dp, done)) /\ S.h = h BY <1>1, Now
  <2> QED BY <2>1 DEF Good, InPlace, Placed, RightPlace
<1> QED BY <1>1, InvAlways, PTL

\* The controller's interrupt request (dv_pireq) is on when command done or an enabled
\* attention is, and only as long as rh_picheck finds a reason.
THEOREM AsksWhenItMust ==
    ASSUME Patient, Waits
    PROVE  Spec => []Announced
<1>1. ASSUME Inv PROVE Announced
  <2>1. Good(S, Phase(dp, done)) /\ Asks(S.c) /\ S.c = c /\ S.d = d BY <1>1, Now
  <2>2. Parts(S) BY <2>1 DEF Good, Types
  <2>3. d.atn = c.attn /\ Ctl(c) BY <2>1, <2>2 DEF Parts
  <2>4. c.attn = ("MBA" \in c.cond) /\ c.attn = d.atn BY <2>3 DEF Ctl
  <2> QED BY <2>1, <2>4 DEF Asks, Announced
<1> QED BY <1>1, InvAlways, PTL

\* The controller and the drive implement Transfers: every step of the program that the monitor
\* gives, of the CPU's callouts and handlers and of the subprocess is a step of it or one that
\* the monitor does not see.  So a transfer that the monitor loads has one report and no more, the
\* next one begins when that has been acknowledged (rh20_cono, rh_xfrbeg), words move only while a
\* transfer is under way and in order, and a report without an error (rh20_ioend) means that all
\* of them have been moved, the program's own and no padding.
THEOREM PromiseKept ==
    ASSUME Patient, Waits
    PROVE  Spec => KeepsPromise
<1>1. ASSUME Init PROVE Service!Init
  <2>1. PICK u \in Setups : c.cond = {} BY <1>1 DEF Init
  <2>2. h.moved = <<>> BY <1>1 DEF Init
  <2> QED BY <2>1, <2>2 DEF Service!Init, Active, Waiting, ReportOf
<1>2. ASSUME Inv, [Next]_vars
      PROVE  Service!Next \/ UNCHANGED <<Active, Waiting, ReportOf, h.moved>>
  BY <1>2, NextInv DEF Serves
<1> QED BY <1>1, <1>2, InvAlways, PTL DEF Spec, KeepsPromise, Service!Spec
=============================================================================
