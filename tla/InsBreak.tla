------------------------------ MODULE InsBreak ------------------------------
(***************************************************************************)
(* The asynchronous part of the KL10 instruction loop.                     *)
(*                                                                         *)
(* Everything that happens outside the instruction stream (a device        *)
(* subprocess completing, a clock tick, console input, the operator's      *)
(* interrupt character) reaches the CPU through flag words: the OS signal  *)
(* handler stores 1 in a flag of its own and then in cpu.mr_insbreak, the  *)
(* "sum" of all flags.  apr_hop tests that sum before each instruction and *)
(* calls apr_check, which visits every flag with the INTF macros:          *)
(*                                                                         *)
(*     INTF_ACTBEG(f)   do { f = 2;                                        *)
(*         ... handle what f announces ...                                 *)
(*     INTF_ACTEND(f)   } while (os_swap(&f, 0) != 2);                     *)
(*                                                                         *)
(* A handler that runs in the middle changes the 2 into a 1 and the body   *)
(* is run again, provided os_swap is indivisible.  In C it is a load and a *)
(* store: AtomicSwap says which of the two a run is about.                 *)
(*                                                                         *)
(* The flags are visited at the grain of one load or store, because a      *)
(* signal can be delivered between any two of them.  A signal handler is   *)
(* one step: it runs on the CPU's own thread, to its end.                  *)
(***************************************************************************)
EXTENDS Integers, Sequences

CONSTANTS
    Dev,         \* event registrations (struct dvevreg_s): one per device event
    Sig,         \* the signals device subprocesses send
    SigOf,       \* SigOf[d]: the signal registration d is hung on
    SigList,     \* evsiglist, as a sequence
    RegList,     \* RegList[s]: the registrations of signal s, as a sequence
    Polled,      \* the plain flags apr_check visits after evsig, in order
    AtomicSwap   \* TRUE: os_swap is indivisible; FALSE: as osdsup.c codes it

Source == {"fecty", "evsig"} \cup {Polled[i] : i \in 1..Len(Polled)}
Flag   == {"insbreak"} \cup Source \cup Sig

ASSUME ListAssumption ==
    /\ SigOf \in [Dev -> Sig]
    /\ SigList \in Seq(Sig)
    /\ RegList \in [Sig -> Seq(Dev)]
    /\ \A s \in Sig : \E i \in 1..Len(SigList) : SigList[i] = s
    /\ \A d \in Dev : \E i \in 1..Len(RegList[SigOf[d]]) : RegList[SigOf[d]][i] = d
ASSUME NameAssumption ==
    /\ Polled \in Seq(STRING)
    /\ \A i \in 1..Len(Polled) : Polled[i] \notin {"insbreak", "fecty", "evsig"} \cup Sig
    /\ \A i, j \in 1..Len(Polled) : Polled[i] = Polled[j] => i = j
    /\ Sig \cap {"insbreak", "fecty", "evsig"} = {}
ASSUME SwapAssumption == AtomicSwap \in BOOLEAN

VARIABLES
    pc,       \* where the CPU thread is in apr_hop / apr_check / dev_evcheck
    flag,     \* the osintf_t words: 0 clear, 1 raised, 2 being handled
    tmp,      \* the local of os_swap between its load and its store
    pol, si, di,  \* cursors over Polled, SigList and RegList
    piWant,   \* pi_check() would return a level
    trap,     \* PCF_TR1 or PCF_TR2 is on
    evFlag,   \* the wakflg/donflg word each registration points at (shared memory)
    unseen,   \* what the subprocess has published and the device not yet looked at
    dpc,      \* where each subprocess is in publish / raise flag / kill()
    pending   \* signals sent and not yet delivered

cpuVars  == <<tmp, pol, si, di>>
dpVars   == <<evFlag, unseen, dpc, pending>>
vars     == <<pc, flag, cpuVars, piWant, trap, dpVars>>

NoTmp == -1
Label == {"test", "xct", "beg", "fecty", "fecty.act", "fecty.end", "halt",
          "evsig", "evsig.act", "evs", "evs.act", "evr", "evr.call", "evs.end",
          "evs.next", "evsig.end", "pol", "pol.act", "pol.work", "pol.end",
          "pol.next", "pi", "insend", "trap", "trapped"}

Init ==
    /\ pc = "test"
    /\ flag = [f \in Flag |-> 0]
    /\ tmp = NoTmp
    /\ pol = 1 /\ si = 1 /\ di = 1
    /\ piWant = FALSE /\ trap = FALSE
    /\ evFlag = [d \in Dev |-> FALSE]
    /\ unseen = [d \in Dev |-> FALSE]
    /\ dpc = [d \in Dev |-> "idle"]
    /\ pending = {}

-----------------------------------------------------------------------------
(* The INTF macros of osdsup.h, and os_swap.                               *)

Goto(l) == pc' = l

INTF_TEST(f) == flag[f] # 0
\* Mutant: the handler counts instead of storing 1.
INTF_SET_Count(fs) == flag' = [f \in Flag |-> IF f \in fs THEN flag[f] + 1 ELSE flag[f]]
INTF_SET(fs) == flag' = [f \in Flag |-> IF f \in fs THEN 1 ELSE flag[f]]

INTF_ACTBEG(f, next) ==
    /\ flag' = [flag EXCEPT ![f] = 2]
    /\ Goto(next)
    /\ UNCHANGED <<tmp, piWant, trap>>

\* Mutant: the flag is cleared without asking whether it changed meanwhile.
INTF_ACTEND_NoLoop(f, again, done) ==
    /\ flag' = [flag EXCEPT ![f] = 0]
    /\ Goto(done)
    /\ UNCHANGED <<tmp, piWant, trap>>
\* `again' is the label of the loop body's ACTBEG, `done' of what follows ACTEND.
INTF_ACTEND(f, again, done) ==
    /\ \/ /\ AtomicSwap
          /\ flag' = [flag EXCEPT ![f] = 0]
          /\ Goto(IF flag[f] # 2 THEN again ELSE done)
          /\ UNCHANGED tmp
       \/ /\ ~AtomicSwap /\ tmp = NoTmp
          /\ tmp' = flag[f]
          /\ UNCHANGED <<flag, pc>>
       \/ /\ ~AtomicSwap /\ tmp # NoTmp
          /\ flag' = [flag EXCEPT ![f] = 0]
          /\ Goto(IF tmp # 2 THEN again ELSE done)
          /\ tmp' = NoTmp
    /\ UNCHANGED <<piWant, trap>>

-----------------------------------------------------------------------------
(* apr_hop                                                                 *)

\* What an instruction, or a callback apr_check makes, can do that matters here:
\* raise or drop the PI condition (pi_devupd, io_wrpi, pi_dismiss set mr_insbreak
\* when they leave an interrupt to take), or set a trap flag (PCFTRAPSET).
Effect ==
    \/ UNCHANGED <<flag, piWant, trap>>
    \/ piWant' = FALSE /\ UNCHANGED <<flag, trap>>
    \/ piWant' = TRUE /\ INTF_SET({"insbreak"}) /\ UNCHANGED trap
    \/ trap' = TRUE /\ INTF_SET({"insbreak"}) /\ UNCHANGED piWant

Test ==
    /\ pc = "test"
    /\ Goto(IF INTF_TEST("insbreak") THEN "beg" ELSE "xct")
    /\ UNCHANGED <<flag, cpuVars, piWant, trap, dpVars>>

\* One instruction, or one aborted by a page fault (apr_int longjmps to the loop).
Xct ==
    /\ pc = "xct"
    /\ Effect
    /\ Goto("test")
    /\ UNCHANGED <<cpuVars, dpVars>>

-----------------------------------------------------------------------------
(* apr_check: the inner loop over the flags                                *)

Beg ==
    /\ pc = "beg"
    /\ INTF_ACTBEG("insbreak", "fecty")
    /\ UNCHANGED <<pol, si, di, dpVars>>

Fecty ==
    /\ pc = "fecty"
    /\ Goto(IF INTF_TEST("fecty") THEN "fecty.act" ELSE "evsig")
    /\ UNCHANGED <<flag, cpuVars, piWant, trap, dpVars>>

FectyAct ==
    /\ pc = "fecty.act"
    /\ INTF_ACTBEG("fecty", "fecty.end")
    /\ UNCHANGED <<pol, si, di, dpVars>>

\* apr_halt longjmps out of apr_check: mr_insbreak keeps whatever value it has.
FectyEnd ==
    /\ pc = "fecty.end"
    /\ INTF_ACTEND("fecty", "fecty.act", "halt")
    /\ UNCHANGED <<pol, si, di, dpVars>>

\* The operator continues: apr_run re-enters the loop at its test.
Continue ==
    /\ pc = "halt"
    /\ Goto("test")
    /\ UNCHANGED <<flag, cpuVars, piWant, trap, dpVars>>

Evsig ==
    /\ pc = "evsig"
    /\ Goto(IF INTF_TEST("evsig") THEN "evsig.act" ELSE "pol")
    /\ pol' = 1
    /\ UNCHANGED <<flag, tmp, si, di, piWant, trap, dpVars>>

EvsigAct ==
    /\ pc = "evsig.act"
    /\ INTF_ACTBEG("evsig", "evs")
    /\ si' = 1
    /\ UNCHANGED <<pol, di, dpVars>>

EvsigEnd ==
    /\ pc = "evsig.end"
    /\ INTF_ACTEND("evsig", "evsig.act", "pol")
    /\ UNCHANGED <<pol, si, di, dpVars>>

-----------------------------------------------------------------------------
(* dev_evcheck: every signal that went off, every registration it has      *)

Evs ==
    /\ pc = "evs"
    /\ IF si > Len(SigList) THEN Goto("evsig.end")
       ELSE Goto(IF INTF_TEST(SigList[si]) THEN "evs.act" ELSE "evs.next")
    /\ UNCHANGED <<flag, cpuVars, piWant, trap, dpVars>>

EvsAct ==
    /\ pc = "evs.act"
    /\ INTF_ACTBEG(SigList[si], "evr")
    /\ di' = 1
    /\ UNCHANGED <<pol, si, dpVars>>

\* The registration's flag is cleared before its handler is called.
Evr ==
    /\ pc = "evr"
    /\ IF di > Len(RegList[SigList[si]])
       THEN Goto("evs.end") /\ UNCHANGED <<di, evFlag>>
       ELSE LET d == RegList[SigList[si]][di] IN
            IF evFlag[d]
            THEN Goto("evr.call") /\ evFlag' = [evFlag EXCEPT ![d] = FALSE] /\ UNCHANGED di
            ELSE Goto("evr") /\ di' = di + 1 /\ UNCHANGED evFlag
    /\ UNCHANGED <<flag, tmp, pol, si, piWant, trap, unseen, dpc, pending>>

EvrCall ==
    /\ pc = "evr.call"
    /\ unseen' = [unseen EXCEPT ![RegList[SigList[si]][di]] = FALSE]
    /\ Effect
    /\ di' = di + 1
    /\ Goto("evr")
    /\ UNCHANGED <<tmp, pol, si, evFlag, dpc, pending>>

\* Mutant: the signal's flag is cleared after the walk whatever arrived during it.
EvsEnd_Clear ==
    /\ pc = "evs.end"
    /\ flag' = [flag EXCEPT ![SigList[si]] = 0]
    /\ Goto("evs.next")
    /\ UNCHANGED <<cpuVars, piWant, trap, dpVars>>
EvsEnd ==
    /\ pc = "evs.end"
    /\ INTF_ACTEND(SigList[si], "evs.act", "evs.next")
    /\ UNCHANGED <<pol, si, di, dpVars>>

EvsNext ==
    /\ pc = "evs.next"
    /\ si' = si + 1
    /\ Goto("evs")
    /\ UNCHANGED <<flag, tmp, pol, di, piWant, trap, dpVars>>

-----------------------------------------------------------------------------
(* apr_check: console and clock flags, PI, and the end of the loop         *)

Pol ==
    /\ pc = "pol"
    /\ IF pol > Len(Polled) THEN Goto("pi")
       ELSE Goto(IF INTF_TEST(Polled[pol]) THEN "pol.act" ELSE "pol.next")
    /\ UNCHANGED <<flag, cpuVars, piWant, trap, dpVars>>

PolAct ==
    /\ pc = "pol.act"
    /\ INTF_ACTBEG(Polled[pol], "pol.work")
    /\ UNCHANGED <<pol, si, di, dpVars>>

\* cty_incheck or clk_synctimeout; either may feed a device that asks for a PI.
PolWork ==
    /\ pc = "pol.work"
    /\ Effect
    /\ Goto("pol.end")
    /\ UNCHANGED <<cpuVars, dpVars>>

PolEnd ==
    /\ pc = "pol.end"
    /\ INTF_ACTEND(Polled[pol], "pol.act", "pol.next")
    /\ UNCHANGED <<pol, si, di, dpVars>>

PolNext ==
    /\ pc = "pol.next"
    /\ pol' = pol + 1
    /\ Goto("pol")
    /\ UNCHANGED <<flag, tmp, si, di, piWant, trap, dpVars>>

\* pi_xct takes the highest level, which leaves none above the one in progress; the
\* new flags of an XPCW may bring a trap with them (apr_pcfcheck).  A page fault on
\* the interrupt instruction aborts to the loop with the request still there.
Pi ==
    /\ pc = "pi"
    /\ \/ /\ ~piWant
          /\ Goto("insend") /\ UNCHANGED <<flag, piWant, trap>>
       \/ /\ piWant /\ piWant' = FALSE
          /\ \/ UNCHANGED <<flag, trap>>
             \/ trap' = TRUE /\ INTF_SET({"insbreak"})
          /\ Goto("insend")
       \/ /\ piWant
          /\ Goto("test") /\ UNCHANGED <<flag, piWant, trap>>
    /\ UNCHANGED <<cpuVars, dpVars>>

InsEnd ==
    /\ pc = "insend"
    /\ INTF_ACTEND("insbreak", "beg", "trap")
    /\ UNCHANGED <<pol, si, di, dpVars>>

\* trap_xct clears the flags and executes the trap instruction.  Aborted, trap_undo
\* puts them back and asks for attention.
Trap ==
    /\ pc = "trap"
    /\ \/ ~trap /\ Goto("xct") /\ UNCHANGED <<flag, piWant, trap>>
       \/ /\ trap
          /\ trap' = FALSE
          /\ \/ UNCHANGED <<flag, piWant>>
             \/ piWant' = TRUE /\ INTF_SET({"insbreak"})
          /\ Goto("trapped")
       \/ trap /\ INTF_SET({"insbreak"}) /\ Goto("test") /\ UNCHANGED <<piWant, trap>>
    /\ UNCHANGED <<cpuVars, dpVars>>

Trapped ==
    /\ pc = "trapped"
    /\ Goto(IF INTF_TEST("insbreak") THEN "beg" ELSE "xct")
    /\ UNCHANGED <<flag, cpuVars, piWant, trap, dpVars>>

Cpu == \/ Test \/ Xct \/ Beg \/ Fecty \/ FectyAct \/ FectyEnd
       \/ Evsig \/ EvsigAct \/ EvsigEnd
       \/ Evs \/ EvsAct \/ Evr \/ EvrCall \/ EvsEnd \/ EvsNext
       \/ Pol \/ PolAct \/ PolWork \/ PolEnd \/ PolNext
       \/ Pi \/ InsEnd \/ Trap \/ Trapped

-----------------------------------------------------------------------------
(* Signals and subprocesses                                                *)

\* int_fecty, fe_iosig, clk_osint.  The interval timer is stopped while halted.
AsyncSignal ==
    /\ \E f \in Source \ {"evsig"} :
          /\ f = "clk" => pc # "halt"
          /\ INTF_SET({f, "insbreak"})
    /\ UNCHANGED <<pc, cpuVars, piWant, trap, dpVars>>

\* Mutant: the handler does not raise the sum of all signals.
DevSignal_NoSum(s) ==
    /\ s \in pending
    /\ pending' = pending \ {s}
    /\ INTF_SET({s, "insbreak"})
    /\ UNCHANGED <<pc, cpuVars, piWant, trap, evFlag, unseen, dpc>>
\* dev_sighan
DevSignal(s) ==
    /\ s \in pending
    /\ pending' = pending \ {s}
    /\ INTF_SET({s, "evsig", "insbreak"})
    /\ UNCHANGED <<pc, cpuVars, piWant, trap, evFlag, unseen, dpc>>

\* dp_xswake and dp_xrdone: publish, raise the peer's flag, kill() the peer.
DpPublish(d) ==
    /\ dpc[d] = "idle" /\ ~unseen[d]
    /\ unseen' = [unseen EXCEPT ![d] = TRUE]
    /\ dpc' = [dpc EXCEPT ![d] = "flag"]
    /\ UNCHANGED <<pc, flag, cpuVars, piWant, trap, evFlag, pending>>

DpFlag(d) ==
    /\ dpc[d] = "flag"
    /\ evFlag' = [evFlag EXCEPT ![d] = TRUE]
    /\ dpc' = [dpc EXCEPT ![d] = "kill"]
    /\ UNCHANGED <<pc, flag, cpuVars, piWant, trap, unseen, pending>>

DpKill(d) ==
    /\ dpc[d] = "kill"
    /\ pending' = pending \cup {SigOf[d]}
    /\ dpc' = [dpc EXCEPT ![d] = "idle"]
    /\ UNCHANGED <<pc, flag, cpuVars, piWant, trap, evFlag, unseen>>

Dp(d) == DpPublish(d) \/ DpFlag(d) \/ DpKill(d)

Next == \/ Cpu \/ Continue \/ AsyncSignal
        \/ \E s \in Sig : DevSignal(s)
        \/ \E d \in Dev : Dp(d)

Spec == Init /\ [][Next]_vars

\* The CPU thread keeps running, the host delivers the signals it was asked to
\* deliver, and a subprocess that has begun to report finishes.  Nothing is assumed
\* of the operator (Continue) or of when a subprocess has something to report.
Fairness == /\ WF_vars(Cpu)
            /\ \A s \in Sig : WF_vars(DevSignal(s))
            /\ \A d \in Dev : WF_vars(DpFlag(d)) /\ WF_vars(DpKill(d))
FairSpec == Spec /\ Fairness

-----------------------------------------------------------------------------
(* Properties                                                              *)

\* Every word and cursor stays in range: a flag is clear, raised or being handled.
TypeOK ==
    /\ pc \in Label
    /\ flag \in [Flag -> 0..2]
    /\ tmp \in {NoTmp} \cup 0..2
    /\ pol \in 1..(Len(Polled) + 1)
    /\ si \in 1..(Len(SigList) + 1)
    /\ di \in Nat
    /\ piWant \in BOOLEAN /\ trap \in BOOLEAN
    /\ evFlag \in [Dev -> BOOLEAN] /\ unseen \in [Dev -> BOOLEAN]
    /\ dpc \in [Dev -> {"idle", "flag", "kill"}]
    /\ pending \in SUBSET Sig

\* Between instructions, and while halted, nothing waits unannounced: if any source's
\* flag is raised, a PI level wants service or a trap flag is on, mr_insbreak is not
\* clear, so the loop will visit apr_check before it executes another instruction.
Boundary == pc \in {"test", "xct", "trapped", "halt"}
BreakPending ==
    Boundary /\ ((\E f \in Source : flag[f] # 0) \/ piWant \/ trap)
        => flag["insbreak"] # 0

\* Inside dev_evcheck's walk of signal s, with registration d still ahead of the cursor.
Ahead(d) ==
    /\ pc \in {"evr", "evr.call"}
    /\ SigList[si] = SigOf[d]
    /\ \E i \in 1..Len(RegList[SigOf[d]]) :
          /\ RegList[SigOf[d]][i] = d
          /\ IF pc = "evr" THEN di <= i ELSE di < i

\* A subprocess's raised event word is always carried by something that will bring the
\* CPU to it: the kill() it is about to do, the undelivered signal, the signal's own
\* flag, or the walk in progress; and a raised signal flag by evsig or by the walk.
EventCarried ==
    /\ \A d \in Dev : evFlag[d] =>
          \/ dpc[d] = "kill" \/ SigOf[d] \in pending
          \/ flag[SigOf[d]] = 1 \/ Ahead(d)
          \/ pc = "evs.act" /\ SigList[si] = SigOf[d]
    /\ \A s \in Sig : flag[s] = 1 =>
          \/ flag["evsig"] = 1
          \/ pc = "evsig.act"
          \/ /\ pc \in {"evs", "evs.act", "evr", "evr.call", "evs.end", "evs.next"}
             /\ \E i \in 1..Len(SigList) :
                   /\ SigList[i] = s
                   /\ IF pc = "evs.next" THEN si < i ELSE si <= i

\* Whatever a subprocess publishes is looked at by its device's handler, unless the
\* CPU is halted first.  The do-while of the INTF macros repeats for as long as a
\* signal falls into every one of its passes; Leaves says that this does not go on for
\* ever (a pass takes microseconds, the clock's period is milliseconds).
Leaves == []<>(pc \in {"xct", "halt"})
EventHandled == Leaves => \A d \in Dev : unseen[d] ~> (~unseen[d] \/ pc = "halt")
=============================================================================
