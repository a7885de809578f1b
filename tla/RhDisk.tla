------------------------------- MODULE RhDisk -------------------------------
(***************************************************************************)
(* An RH20 with one RP drive, the drive's subprocess, the monitor that     *)
(* programs the controller and the operator who mounts packs.              *)
(*                                                                         *)
(* An instruction of the monitor, a clock callout, an event handler and an *)
(* operator command are one step each: all run on the CPU's thread.  The   *)
(* subprocess takes three: do the command, acknowledge it, report done.    *)
(* (The subprocess never sends anything by itself: sscattn has no caller,  *)
(* so rpxx_evhrwak is never entered and is left out.)                      *)
(*                                                                         *)
(* Patient describes a monitor that gives a command to a drive without an  *)
(* error, loads one waiting transfer at most, acknowledges an error by     *)
(* discarding what waits, and clears what is idle.  Waits describes an     *)
(* operator who changes packs only on an idle drive, and a monitor that    *)
(* then leaves the drive alone until its attention.                        *)
(***************************************************************************)
EXTENDS RpDrive

CONSTANTS
    Setups,      \* channel command list in memory, and configuration: [list, dma, dly]
    Addresses,   \* sector numbers the monitor uses, TotSecs and more being illegal
    Request,     \* transfers it asks for: drive, command, blocks, and whether the list restarts
    Cmds,        \* drive commands that are not transfers
    Conos,       \* sets of CONO bits given together
    Patient, Waits

ASSUME MonitorAssumption ==
    /\ Addresses \subseteq Nat /\ Patient \in BOOLEAN /\ Waits \in BOOLEAN
    /\ \A u \in Setups : u.list \in Seq(CcwWord) /\ u.dma \in BOOLEAN /\ u.dly \in BOOLEAN
    /\ Cmds \cap Xfers = {}
    /\ \A r \in Request : /\ r.drv \in {"rp", "none"} /\ r.cmd \in Xfers
                          /\ r.blocks \in Nat \ {0} /\ r.rclp \in BOOLEAN

NoReq   == [drv |-> "none", cmd |-> "NOP", blocks |-> 0, rclp |-> FALSE]

VARIABLES
    c, d, armed, x, h,  \* see RpDrive
    dp,          \* the subprocess: "idle", "did" (not yet acknowledged), "acked"
    done         \* its done event, raised and not yet handled

vars == <<c, d, armed, x, h, dp, done>>
S == [c |-> c, d |-> d, armed |-> armed, x |-> x, h |-> h]

\* What is left in the variables of a transfer that is over.  The code leaves the last
\* values there and sets all of them again before it reads them, so they are dropped.
Tidy(s) ==
    [c |-> IF "PCRF" \in s.c.cond THEN s.c
           ELSE [s.c EXCEPT !.ptcr = NoReq, !.bcnt = 0, !.wcnt = 0, !.hlt = TRUE, !.rev = FALSE,
                            !.skip = TRUE, !.write = FALSE, !.sbar = IF s.c.sbarf THEN @ ELSE 0],
     d |-> IF s.d.go /\ ~s.armed THEN s.d
           ELSE [s.d EXCEPT !.blkadr = 0, !.blkwds = 0, !.blklim = 0, !.begun = FALSE,
                            !.direct = FALSE],
     x |-> IF (s.d.go /\ ~s.armed) \/ s.x.cmd # "none" THEN s.x
           ELSE [s.x EXCEPT !.scnt = 0, !.daddr = 0, !.buf = <<>>, !.pack = "none"],
     h |-> IF "CMD" \in s.c.cond \/ s.d.go THEN s.h
           ELSE [s.h EXCEPT !.from = 0, !.taken = 0, !.moved = <<>>]]
Becomes(s) == LET t == Tidy(s) IN c' = t.c /\ d' = t.d /\ armed' = s.armed /\ x' = t.x /\ h' = t.h

\* The channel's list is in memory from the start; rh20_init, rpxx_init without a path.
Init ==
    /\ \E u \in Setups :
       /\ c = [cond |-> {}, req |-> FALSE, pilev |-> FALSE, draes |-> FALSE, attn |-> FALSE,
               ptcr |-> NoReq, stcr |-> NoReq, sbar |-> 0, sbarf |-> FALSE, bcnt |-> 0,
               list |-> u.list, clp |-> 1, wcnt |-> 0, hlt |-> TRUE, rev |-> FALSE,
               skip |-> TRUE, write |-> FALSE]
       /\ d = [go |-> FALSE, serr |-> FALSE, atn |-> FALSE, mol |-> FALSE, dry |-> FALSE,
               adr |-> 0, st |-> "OFF", scmd |-> "none",
               blkadr |-> 0, blkwds |-> 0, blklim |-> 0, begun |-> FALSE, direct |-> FALSE,
               dma |-> u.dma, dly |-> u.dly]
    /\ x = [mol |-> FALSE, err |-> FALSE, scnt |-> 0, daddr |-> 0, buf |-> <<>>,
            cmd |-> "none", pack |-> "none"]
    /\ h = [from |-> 0, taken |-> 0, moved |-> <<>>, panic |-> FALSE]
    /\ armed = FALSE /\ dp = "idle" /\ done = FALSE

-----------------------------------------------------------------------------
(* The controller                                                          *)

\* rh_clear: conditions, registers and drives; not a transfer that the subprocess has.
RhClear(s) ==
    RpClear([s EXCEPT !.c = [@ EXCEPT !.req = FALSE, !.cond = {}, !.draes = FALSE,
                             !.ptcr = NoReq, !.stcr = NoReq, !.sbar = 0, !.sbarf = FALSE]])

\* History: what a transfer that begins has been asked for.
Fresh(s) == [from |-> IF s.c.sbarf THEN s.c.sbar ELSE s.d.adr, taken |-> 0, moved |-> <<>>,
             panic |-> s.h.panic]

\* Mutant: the block address of the waiting transfer is not passed on.
Xfrbeg_NoBar(s) ==
    LET r == s.c.stcr
        k == [s EXCEPT !.c = [@ EXCEPT !.cond = (@ \ {"SCRF"}) \cup {"PCRF"}, !.ptcr = r,
                              !.stcr = NoReq, !.sbar = 0, !.sbarf = FALSE, !.bcnt = r.blocks],
                         !.h = Fresh(s)]
    IN Wrreg(IF r.rclp THEN [k EXCEPT !.c = RhdcClear(@)] ELSE k, "CSR", r.cmd).s
\* rh_xfrbeg: what is in the secondary registers becomes the transfer under way.
Xfrbeg(s) ==
    LET r == s.c.stcr
        k == [s EXCEPT !.c.cond = (@ \ {"SCRF"}) \cup {"PCRF"}, !.c.ptcr = r,
                       !.c.stcr = NoReq, !.c.sbar = 0, !.c.sbarf = FALSE]
        l == IF r.rclp THEN [k EXCEPT !.c = RhdcClear(@)] ELSE k
        a == IF s.c.sbarf THEN Wrreg(l, "ADR", s.c.sbar).s ELSE l
    IN IF r.drv = "none" THEN [l EXCEPT !.c = RhPi([l.c EXCEPT !.cond = @ \cup {"DR", "CMD"}])]
       ELSE Wrreg([a EXCEPT !.c.bcnt = r.blocks, !.h = Fresh(s)], "CSR", r.cmd).s

\* Acknowledging command done starts the waiting transfer, if there is one.
RhCcmd(s) ==
    LET t == [s EXCEPT !.c.cond = @ \ {"CMD"}]
    IN IF s.c.cond \cap {"CMD", "PCRF", "SCRF"} = {"CMD", "SCRF"} THEN Xfrbeg(t) ELSE t

\* rh20_cono, one operator for each bit, in the order of the code.
Less(s, g) == [s EXCEPT !.c.cond = @ \ g]
ConoCrae(s, bits) == IF "CRAE" \in bits THEN Less(s, {"RAE"}) ELSE s
ConoCmc(s, bits)  == IF "CMC" \in bits THEN RhClear(s) ELSE s
ConoTec(s, bits)  == IF "TEC" \in bits THEN Less(s, Errors) ELSE s
ConoRclp(s, bits) == IF "RCLP" \in bits THEN [s EXCEPT !.c = RhdcClear(@)] ELSE s
ConoDscrf(s, bits) ==
    IF "DSCRF" \in bits THEN [Less(s, {"SCRF", "PCRF"}) EXCEPT !.c.sbarf = FALSE] ELSE s
ConoMeae(s, bits) ==
    IF "MEAE" \in bits THEN [s EXCEPT !.c.cond = @ \cup {"MBAE"}] ELSE Less(s, {"MBAE"})
ConoCcmd(s, bits) == IF "CCMD" \in bits THEN RhCcmd(s) ELSE s
\* A PIA is nonzero or zero (on); a request at the other level is flushed.
ConoPia(s, on) == [s EXCEPT !.c.pilev = on, !.c.req = @ /\ (s.c.pilev = on)]
RhCono(s, bits) ==
    LET s1 == ConoCrae(s, bits)
        s2 == ConoCmc(s1, bits)
        s3 == ConoTec(s2, bits)
        s4 == ConoRclp(s3, bits)
        s5 == ConoDscrf(s4, bits)
        s6 == ConoMeae(s5, bits)
        s7 == ConoCcmd(s6, bits)
        s8 == ConoPia(s7, "PIA" \in bits)
    IN [s8 EXCEPT !.c = RhPicheck(@)]

\* A register access that the drive refused, or no drive.
Rae(s) ==
    LET e == [s.c EXCEPT !.cond = @ \cup {"RAE"}]
    IN [s EXCEPT !.c = IF e.draes THEN e ELSE RhPi(e)]

\* Mutant: a transfer loaded while command done is still on begins at once.
LoadStcr_Eager(s, r) ==
    LET t == [s EXCEPT !.c.stcr = r]
    IN IF "PCRF" \in s.c.cond THEN [t EXCEPT !.c.cond = @ \cup {"SCRF"}] ELSE Xfrbeg(t)
\* Mutant: a transfer under way does not keep the next one waiting.
LoadStcr_Over(s, r) ==
    LET t == [s EXCEPT !.c.stcr = r]
    IN IF "CMD" \in s.c.cond THEN [t EXCEPT !.c.cond = @ \cup {"SCRF"}] ELSE Xfrbeg(t)
\* STCR: begin, or wait behind the transfer under way or its unacknowledged report.
LoadStcr(s, r) ==
    LET t == [s EXCEPT !.c.stcr = r]
    IN IF s.c.cond \cap {"PCRF", "CMD"} # {} THEN [t EXCEPT !.c.cond = @ \cup {"SCRF"}]
       ELSE Xfrbeg(t)

\* rh20_datao: nothing while RAE is on, unless DRAES has been set before.
Datao(s) ==
    /\ "RAE" \notin c.cond \/ c.draes
    /\ Becomes(s) /\ UNCHANGED <<dp, done>>
Prep(draes) == [S EXCEPT !.c.draes = draes]

-----------------------------------------------------------------------------
(* The monitor                                                             *)

Active == IF "PCRF" \in c.cond /\ c.ptcr.drv = "rp" THEN c.ptcr ELSE NoReq
Idle   == Active = NoReq /\ ~d.go /\ d.scmd # "MOUNT"
Alone  == Waits => d.scmd # "MOUNT"    \* no pack is being changed

Cono ==
    \E b \in Conos :
        /\ Patient =>
              /\ "CMC" \in b => Idle
              /\ "DSCRF" \in b => Active = NoReq
              /\ "TEC" \in b => {"CCMD", "DSCRF"} \subseteq b
              /\ "RCLP" \in b => Active = NoReq
              /\ "CCMD" \in b /\ c.cond \cap Errors # {} => {"TEC", "DSCRF"} \subseteq b
              /\ "CCMD" \in b /\ "SCRF" \in c.cond => "DSCRF" \in b \/ (~d.serr /\ Alone)
        /\ Becomes(RhCono(S, b)) /\ UNCHANGED <<dp, done>>

LoadTransfer ==
    \E r \in Request :
        /\ Patient => "SCRF" \notin c.cond /\ ~d.serr /\ c.cond \cap Errors = {} /\ Alone
                      /\ (r.rclp => c.cond \cap {"PCRF", "CMD"} = {})
        /\ Datao(LoadStcr(Prep(FALSE), r))

LoadSbar ==
    \E a \in Addresses :
        /\ Patient => ~c.sbarf /\ "SCRF" \notin c.cond
        /\ Datao([Prep(FALSE) EXCEPT !.c.sbar = a, !.c.sbarf = TRUE])

\* A drive command or register that is not a transfer; a register that does not exist.
WriteDrive ==
    \/ \E cmd \in Cmds :
          /\ Patient => Idle /\ Alone /\ (d.serr => cmd = "CLR")
          /\ Datao(Wrreg(Prep(FALSE), "CSR", cmd).s)
    \/ (Patient => d.atn) /\ Datao(Wrreg(Prep(FALSE), "ATTN", 1).s)
    \/ \E draes \in BOOLEAN :
          /\ Patient => Idle
          /\ LET w == Wrreg(Prep(draes), "BAD", 0) IN Datao(IF w.ok THEN w.s ELSE Rae(w.s))

\* DATAI from a register that does not exist; other reads change nothing.
ReadBad == (Patient => Idle) /\ Becomes(Rae(S)) /\ UNCHANGED <<dp, done>>

\* The system's I/O reset (rh20_reset).
IoReset == (Patient => Idle) /\ Becomes(RhClear(S)) /\ UNCHANGED <<dp, done>>

-----------------------------------------------------------------------------
(* The KLH10's events, the operator and the subprocess                     *)

Timeout   == armed /\ Becomes(RpTimeout(S)) /\ UNCHANGED <<dp, done>>
DoneEvent == done /\ done' = FALSE /\ Becomes(RpEvhsdon(S)) /\ UNCHANGED dp

Mount ==
    \E pack \in {"none", "pack"} :
        /\ Waits => Idle /\ ~armed /\ c.cond \cap {"SCRF"} = {}
        /\ Becomes(RpMount(S, pack)) /\ UNCHANGED <<dp, done>>

\* The old pack goes; the new one, if there is one, may fail to open.
Devmount ==
    \E works \in BOOLEAN :
        x' = [x EXCEPT !.err = FALSE, !.mol = works /\ x.pack # "none"] /\ h' = h

\* A piece, of which some sectors may be done before an error; none without a pack.
Devio ==
    \E n \in IF x.mol THEN 0..x.scnt ELSE {0} :
        LET disk  == Words(x.daddr * NWds, n * NWds)
            write == x.cmd \in {"WRITE", "WRDMA"}
        IN /\ x' = [x EXCEPT !.err = (n < x.scnt \/ ~x.mol), !.scnt = n,
                             !.buf = IF write THEN @ ELSE disk]
           /\ h' = IF write THEN [h EXCEPT !.moved = @ \o Zip(disk, x.buf)] ELSE h

\* tentorp: what the command asks for, its result left in the shared memory.
Execute ==
    /\ dp = "idle" /\ x.cmd # "none" /\ dp' = "did"
    /\ \/ x.cmd = "MOUNT" /\ Devmount
       \/ x.cmd # "MOUNT" /\ Devio
    /\ UNCHANGED <<c, d, armed, done>>

\* Mutant: the event is raised before the command is acknowledged.
Acknowledge_Late ==
    dp = "did" /\ dp' = "acked" /\ done' = TRUE /\ UNCHANGED <<c, d, armed, x, h>>
\* dp_xrdoack: acknowledge, then raise the event.
Acknowledge == dp = "did" /\ dp' = "acked" /\ x' = [x EXCEPT !.cmd = "none"] /\ UNCHANGED <<c, d, armed, h, done>>
Report      == dp = "acked" /\ dp' = "idle" /\ done' = TRUE /\ UNCHANGED <<c, d, armed, x, h>>

Next ==
    \/ Cono \/ LoadTransfer \/ LoadSbar \/ WriteDrive \/ ReadBad \/ IoReset
    \/ Timeout \/ DoneEvent \/ Mount
    \/ Execute \/ Acknowledge \/ Report

Spec == Init /\ [][Next]_vars

\* An armed timer does not stay armed, a raised event is handled, and the subprocess,
\* when it has something to do, does it.  (Each is the fairness of the one action that
\* makes the change, said of the change alone.)
Subprocess ==
    \/ dp = "idle" /\ x.cmd # "none" /\ dp' = "did"
    \/ dp = "did" /\ dp' = "acked"
    \/ dp = "acked" /\ dp' = "idle"
FairSpec ==
    /\ Spec
    /\ WF_armed(armed /\ armed' = FALSE) /\ WF_done(done /\ done' = FALSE) /\ WF_dp(Subprocess)

-----------------------------------------------------------------------------
(* Properties                                                              *)

TypeOK ==
    /\ c.cond \subseteq CondBits /\ c.req \in BOOLEAN /\ c.pilev \in BOOLEAN
    /\ c.draes \in BOOLEAN /\ c.attn \in BOOLEAN /\ c.sbarf \in BOOLEAN
    /\ c.ptcr \in Request \cup {NoReq} /\ c.stcr \in Request \cup {NoReq}
    /\ c.wcnt \in Nat /\ c.bcnt \in Nat
    /\ d.st \in {"OFF", "READY", "BUSY"} /\ d.scmd \in Xfers \cup {"MOUNT", "none"}
    /\ d.adr \in 0..TotSecs \cup Addresses /\ d.blkadr \in 0..TotSecs
    /\ d.blkwds \in Nat /\ d.blklim \in Nat
    /\ x.cmd \in {"none", "MOUNT", "READ", "WRITE", "RDDMA", "WRDMA"}
    /\ x.scnt \in 0..TotSecs /\ x.daddr \in 0..TotSecs
    /\ dp \in {"idle", "did", "acked"} /\ done \in BOOLEAN

\* "Slave is known to be quiescent at this point" (rp_dpcmddon): while a done event is
\* waiting, the subprocess has no command, so that the result the handler picks up is the
\* result of the command it takes it for.
SlaveQuiescent == done => x.cmd = "none" /\ dp = "idle"

\* The disk code never stops the emulator: no command is sent to a busy subprocess
\* (rp_dpcmd), the subprocess never moves more words than the channel has (rh20_iobuf).
NoPanic == ~h.panic

\* A transfer that the controller has begun is always carried by something: the delay
\* timer, a command with the subprocess, or its report.  Nobody else would ever end it.
TransferCarried ==
    Active # NoReq => /\ d.go /\ d.scmd = Active.cmd
                      /\ armed \/ x.cmd # "none" \/ dp # "idle" \/ done

\* Words are moved at the place on the disk that the program asked for when it loaded the
\* transfer, in whatever pieces the drive cuts it, and never past the end of the pack.
RightPlace ==
    \A i \in 1..Len(h.moved) :
        h.moved[i][1] = h.from * NWds + i - 1 /\ h.moved[i][1] < TotSecs * NWds

\* The controller asks for an interrupt if command done or an enabled attention is on, and
\* for no longer than something of the kind is.
Announced ==
    /\ c.pilev /\ ("CMD" \in c.cond \/ {"MBA", "MBAE"} \subseteq c.cond) => c.req
    /\ c.req => Interrupting(c)
    /\ c.attn = d.atn /\ c.attn = ("MBA" \in c.cond)

\* A transfer that has begun ends, whatever the channel list and the subprocess do.
TransferEnds == Active # NoReq ~> Active = NoReq

\* The whole promises the program what Transfers says.
Waiting  == IF "SCRF" \in c.cond THEN c.stcr ELSE NoReq
ReportOf == IF "CMD" \notin c.cond THEN "none"
            ELSE IF c.cond \cap Errors = {} THEN "ok" ELSE "error"
SizeOf(r) == r.blocks * NWds
Service == INSTANCE Transfers
             WITH Size <- SizeOf, Nobody <- NoReq, active <- Active, waiting <- Waiting,
                  report <- ReportOf, moved <- h.moved
KeepsPromise == Service!Spec
=============================================================================
