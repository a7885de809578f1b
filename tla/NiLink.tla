------------------------------- MODULE NiLink -------------------------------
(***************************************************************************)
(* The NI20 network port and its subprocess dpni20, over the two buffers   *)
(* of the device-process link (dpsup).                                     *)
(*                                                                         *)
(* Three processes share the buffers.  The KLH10 itself runs one KL        *)
(* instruction, one device event or one clock callout at a time.  W, the   *)
(* process dp_start makes, executes the commands found in the "to" buffer; *)
(* R, which W forks, brings packets in through the "fr" buffer.            *)
(*                                                                         *)
(*     sender:    wait until rdyf = 0; cmd := c; rdyf := 1; wakflg := 1;   *)
(*                kill(receiver)                                           *)
(*     receiver:  wait until rdyf = 1; ...; rdyf := 0; donflg := 1;        *)
(*                kill(sender)                                             *)
(*                                                                         *)
(* W and R wait with the signal masked except inside sigsuspend.  The      *)
(* KLH10 keeps it unmasked: its handler runs at once and leaves evsig for  *)
(* the event walk that precedes the next instruction (module InsBreak).    *)
(* A signal is delivered in the step that sends it; everything later that  *)
(* depends on it is a step of its own.                                     *)
(***************************************************************************)
EXTENDS Naturals, Sequences

CONSTANTS
    Adr,          \* Ethernet addresses
    Cmds,         \* what the monitor queues: "SND" a packet, "WSI" an address change
    MaxQ,         \* bound: commands in the monitor's queue
    MaxStarts,    \* bound: times the monitor starts the port
    Locks,        \* queues whose interlock the monitor may hold: "cmd", "free", "resp"
    Patient       \* TRUE: the monitor enables and stops the port only with nothing
                  \* queued or in the "to" buffer, and queues only to an enabled port

ASSUME NiAssumption ==
    /\ Cmds \subseteq {"SND", "WSI"} /\ Locks \subseteq {"cmd", "free", "resp"}
    /\ MaxQ \in Nat /\ MaxStarts \in Nat /\ Patient \in BOOLEAN

VARIABLES
    box,          \* the dpx_s of each direction: rdyf, cmd, and a tag that tells a message
                  \* from one put over it (0 while the buffer is free)
    don, wak,     \* todp.donflg and frdp.wakflg, the words the KLH10's events watch
    evsig,        \* a signal from the subprocess was seen since the last event walk
    ctl,          \* what the KLH10 still has to do before its next instruction, first first
    state,        \* ni_state: HALT (or uninitialized), RUN (disabled), ENA
    dpstate,      \* ni_dpstate: INIT was received from this subprocess
    wantEna,      \* the CONO enable bit without "enable complete"
    pktinf, cmdqf, docheck,  \* ni_pktinf, ni_cmdqf, ni_docheck (the check timer runs)
    relink,       \* ni_qhpa: the queue an entry (ni_qepa) waits to be linked to
    limbo,        \* queue entries taken off one queue and not yet on another
    locked,       \* interlocks held by the monitor since the last instruction
    want,         \* the command queue in the monitor's memory
    ethadr,       \* ni_ethadr, the address incoming packets are filtered by
    dpeth, rqeth, \* dpni_eth and dpni_rqeth: the interface's address, and the one asked for
    W, R,         \* where the two subprocesses are
    sigW, sigR,   \* signals pending for them
    rinit,        \* R has sent its INIT
    starts        \* history: how often the port was started

linkVars == <<box, don, wak, evsig>>
queVars  == <<relink, limbo, want>>
adrVars  == <<ethadr, dpeth, rqeth>>
niVars   == <<state, dpstate, wantEna, pktinf, cmdqf, docheck>>
dpVars   == <<W, R, sigW, sigR, rinit>>
vars     == <<linkVars, ctl, niVars, queVars, locked, adrVars, dpVars, starts>>

NoQueue == "none"
Command == {"none", "SPKT", "SETETH", "SETMCAT", "QUIT", "INIT", "RPKT"}

Init ==
    /\ box = [b \in {"to", "fr"} |-> [rdy |-> FALSE, cmd |-> "none", tag |-> 0]]
    /\ don = FALSE /\ wak = FALSE /\ evsig = FALSE
    /\ ctl = <<>>
    /\ state = "HALT" /\ dpstate = FALSE /\ wantEna = FALSE
    /\ pktinf = FALSE /\ cmdqf = FALSE /\ docheck = FALSE
    /\ relink = NoQueue /\ limbo = 0 /\ locked = {} /\ want = <<>>
    /\ \E a \in Adr : ethadr = a /\ dpeth = a /\ rqeth = a
    /\ W = "gone" /\ R = "gone" /\ sigW = FALSE /\ sigR = FALSE /\ rinit = FALSE
    /\ starts = 0

-----------------------------------------------------------------------------
(* The KLH10's control: the steps left to do, and the interlocks it finds. *)

Idle      == ctl = <<>>
\* Whatever interlocks the monitor holds when it is interrupted stay held meanwhile.
Leave(ls) == Idle /\ ctl' = ls /\ locked' \in SUBSET Locks
Begin(ls) == Idle /\ ctl' = ls /\ UNCHANGED locked
At(l)     == ctl # <<>> /\ ctl[1] = l
Then(ls)  == LET next == ls \o Tail(ctl) IN
             ctl' = next /\ locked' = IF next = <<>> THEN {} ELSE locked

-----------------------------------------------------------------------------
(* dpsup                                                                   *)

dp_xsend(b, c) == box' = [box EXCEPT ![b] = [rdy |-> TRUE, cmd |-> c, tag |-> 1 - @.tag]]
dp_xrdone(b)   == box' = [box EXCEPT ![b].rdy = FALSE, ![b].tag = 0]

Listening(p) == p \notin {"gone", "boot"}

\* Mutant: the signal goes to the other subprocess.
RingW_Other ==
    /\ At("ringW")
    /\ sigR' = (sigR \/ Listening(R))
    /\ Then(<<>>)
    /\ UNCHANGED <<linkVars, niVars, queVars, adrVars, W, R, sigW, rinit, starts>>
\* kill() from the KLH10.  A process that is not there, or has not yet announced its
\* pid, gets nothing.
RingW ==
    /\ At("ringW")
    /\ sigW' = (sigW \/ Listening(W))
    /\ Then(<<>>)
    /\ UNCHANGED <<linkVars, niVars, queVars, adrVars, W, R, sigR, rinit, starts>>

RingR ==
    /\ At("ringR")
    /\ sigR' = (sigR \/ Listening(R))
    /\ Then(<<>>)
    /\ UNCHANGED <<linkVars, niVars, queVars, adrVars, W, R, sigW, rinit, starts>>

\* The signal handler of the KLH10; it also ends a sigsuspend.
Signalled ==
    /\ evsig' = TRUE
    /\ ctl' = IF ctl # <<>> /\ ctl[1] = "nap" THEN <<"xswait">> \o Tail(ctl) ELSE ctl

-----------------------------------------------------------------------------
(* W: dpni20's start-up and tentoeth                                       *)

wStep(from, to) == W = from /\ W' = to
wFrame == UNCHANGED <<wak, niVars, queVars, locked, ethadr, rqeth, starts>>

\* dp_main, net_init and the fork of R, up to R storing its pid as the one to ring.
WBoot ==
    /\ wStep("boot", "test")
    /\ R' = "test" /\ rinit' = FALSE
    /\ UNCHANGED <<box, don, evsig, ctl, dpeth, sigW, sigR>> /\ wFrame

\* dp_xrwait
WTest ==
    /\ wStep("test", IF box["to"].rdy THEN "exec" ELSE "sleep")
    /\ UNCHANGED <<box, don, evsig, ctl, dpeth, R, sigW, sigR, rinit>> /\ wFrame

WWake ==
    /\ wStep("sleep", "test") /\ sigW /\ sigW' = FALSE
    /\ UNCHANGED <<box, don, evsig, ctl, dpeth, R, sigR, rinit>> /\ wFrame

\* eth_adrset may refuse the new address.
WExec ==
    /\ wStep("exec", "done")
    /\ dpeth' \in IF box["to"].cmd = "SETETH" THEN {dpeth, rqeth} ELSE {dpeth}
    /\ UNCHANGED <<box, don, evsig, ctl, R, sigW, sigR, rinit>> /\ wFrame

\* osn_pfwrite fails or sends part of the packet: W starts over without acknowledging it,
\* or, its retries used up (50, counting all but interrupted calls), exits (efatal).
\* That count is left out: any failure may be the one too many.
WFail ==
    /\ box["to"].cmd = "SPKT"
    /\ wStep("exec", "test") \/ wStep("exec", "gone")
    /\ UNCHANGED <<box, don, evsig, ctl, dpeth, R, sigW, sigR, rinit>> /\ wFrame

WDone ==
    /\ wStep("done", "flag") /\ dp_xrdone("to")
    /\ UNCHANGED <<don, evsig, ctl, dpeth, R, sigW, sigR, rinit>> /\ wFrame

WFlag ==
    /\ wStep("flag", "kill") /\ don' = TRUE
    /\ UNCHANGED <<box, evsig, ctl, dpeth, R, sigW, sigR, rinit>> /\ wFrame

\* After QUIT the process exits.
WKill ==
    /\ wStep("kill", IF box["to"].cmd = "QUIT" THEN "gone" ELSE "test")
    /\ Signalled
    /\ UNCHANGED <<box, don, dpeth, R, sigW, sigR, rinit>> /\ wFrame

-----------------------------------------------------------------------------
(* R: ethtoten                                                             *)

rStep(from, to) == R = from /\ R' = to
rFrame == UNCHANGED <<don, niVars, queVars, locked, adrVars, W, sigW, starts>>

\* Mutant: the wait ends without looking at the buffer.
RTest_NoWait ==
    /\ rStep("test", "fill")
    /\ UNCHANGED <<box, wak, evsig, ctl, sigR, rinit>> /\ rFrame
\* dp_xswait
RTest ==
    /\ rStep("test", IF box["fr"].rdy THEN "sleep" ELSE "fill")
    /\ UNCHANGED <<box, wak, evsig, ctl, sigR, rinit>> /\ rFrame

RWake ==
    /\ rStep("sleep", "test") /\ sigR /\ sigR' = FALSE
    /\ UNCHANGED <<box, wak, evsig, ctl, rinit>> /\ rFrame

\* First INIT, then whatever the network brings (it may bring nothing).
RSendInit ==
    /\ ~rinit /\ rinit' = TRUE
    /\ rStep("fill", "flag") /\ dp_xsend("fr", "INIT")
    /\ UNCHANGED <<wak, evsig, ctl, sigR>> /\ rFrame

RPacket ==
    /\ rinit
    /\ rStep("fill", "flag") /\ dp_xsend("fr", "RPKT")
    /\ UNCHANGED <<wak, evsig, ctl, sigR, rinit>> /\ rFrame

\* osn_pfread has failed too often: R exits.  (Until then it reads again.)
RGiveUp ==
    /\ rinit
    /\ rStep("fill", "gone")
    /\ UNCHANGED <<box, wak, evsig, ctl, sigR, rinit>> /\ rFrame

RFlag ==
    /\ rStep("flag", "kill") /\ wak' = TRUE
    /\ UNCHANGED <<box, evsig, ctl, sigR, rinit>> /\ rFrame

RKill ==
    /\ rStep("kill", "test")
    /\ Signalled
    /\ UNCHANGED <<box, wak, sigR, rinit>> /\ rFrame

WSteps == WBoot \/ WTest \/ WWake \/ WExec \/ WFail \/ WDone \/ WFlag \/ WKill
RSteps == RTest \/ RWake \/ RSendInit \/ RFlag \/ RKill

-----------------------------------------------------------------------------
(* The KLH10 between instructions                                          *)

\* dev_evcheck: the wakeup registration was added last and is visited first.
EvBegin ==
    /\ evsig /\ evsig' = FALSE
    /\ Leave(<<"wak", "don">>)
    /\ UNCHANGED <<box, don, wak, niVars, queVars, adrVars, dpVars, starts>>

\* ni20_runclk
RunClk ==
    /\ docheck
    /\ Leave(<<"run">>)
    /\ UNCHANGED <<linkVars, niVars, queVars, adrVars, dpVars, starts>>

\* Mutant: a packet that comes while the port is not enabled is not acknowledged.
EvHrwak_NoFlush ==
    /\ At("wak")
    /\ wak' = FALSE
    /\ IF ~wak \/ ~box["fr"].rdy
       THEN Then(<<>>) /\ UNCHANGED <<dpstate, pktinf, ethadr>>
       ELSE IF box["fr"].cmd = "INIT"
       THEN /\ dpstate' = TRUE /\ ethadr' = dpeth
            /\ Then(IF state = "RUN" /\ wantEna THEN <<"enable", "ack">> ELSE <<"ack">>)
            /\ UNCHANGED pktinf
       ELSE /\ pktinf' = (state = "ENA")
            /\ Then(IF state = "ENA" THEN <<"run">> ELSE <<>>)
            /\ UNCHANGED <<dpstate, ethadr>>
    /\ UNCHANGED <<box, don, evsig, state, wantEna, cmdqf, docheck, queVars,
                   dpeth, rqeth, dpVars, starts>>
\* ni20_evhrwak, with ni20_iniable.
EvHrwak ==
    /\ At("wak")
    /\ wak' = FALSE
    /\ IF ~wak \/ ~box["fr"].rdy
       THEN Then(<<>>) /\ UNCHANGED <<dpstate, pktinf, ethadr>>
       ELSE IF box["fr"].cmd = "INIT"
       THEN /\ dpstate' = TRUE /\ ethadr' = dpeth
            /\ Then(IF state = "RUN" /\ wantEna THEN <<"enable", "ack">> ELSE <<"ack">>)
            /\ UNCHANGED pktinf
       ELSE /\ pktinf' = (state = "ENA")
            /\ Then(IF state = "ENA" THEN <<"run">> ELSE <<"ack">>)
            /\ UNCHANGED <<dpstate, ethadr>>
    /\ UNCHANGED <<box, don, evsig, state, wantEna, cmdqf, docheck, queVars,
                   dpeth, rqeth, dpVars, starts>>

\* Mutant: the sender is not told.
Ack_Silent ==
    /\ At("ack")
    /\ dp_xrdone("fr") /\ Then(<<>>)
    /\ UNCHANGED <<don, wak, evsig, niVars, queVars, adrVars, dpVars, starts>>
Ack ==
    /\ At("ack")
    /\ dp_xrdone("fr") /\ Then(<<"ringR">>)
    /\ UNCHANGED <<don, wak, evsig, niVars, queVars, adrVars, dpVars, starts>>

\* ni20_evhsdon: post-processing depends on the command now in the buffer.
EvHsdon ==
    /\ At("don")
    /\ don' = FALSE
    /\ IF don
       THEN /\ ethadr' = IF box["to"].cmd = "SETETH" THEN dpeth ELSE ethadr
            /\ Then(<<"run">>)
       ELSE Then(<<>>) /\ UNCHANGED ethadr
    /\ UNCHANGED <<box, wak, evsig, niVars, queVars, dpeth, rqeth, dpVars, starts>>

-----------------------------------------------------------------------------
(* ni20_run                                                                *)

\* The entry at hand goes onto its queue, or waits in ni_qepa (ni_qeput).
ni_qeput(q) ==
    IF q \in locked
    THEN relink' = q /\ limbo' = limbo + 1 /\ docheck' = TRUE
    ELSE UNCHANGED <<relink, limbo, docheck>>

\* Waiting to relink and still locked: come back later.
RunBlocked ==
    /\ At("run") /\ relink \in locked
    /\ docheck' = TRUE
    /\ Then(<<>>)
    /\ UNCHANGED <<linkVars, state, dpstate, wantEna, pktinf, cmdqf, queVars,
                   adrVars, dpVars, starts>>

\* Mutant: the entry is linked and still waits.
RunRelink_Keep ==
    /\ At("run") /\ relink \notin locked \cup {NoQueue}
    /\ limbo' = limbo - 1
    /\ UNCHANGED <<linkVars, ctl, niVars, relink, want, locked, adrVars, dpVars, starts>>
RunRelink ==
    /\ At("run") /\ relink \notin locked \cup {NoQueue}
    /\ relink' = NoQueue /\ limbo' = limbo - 1
    /\ UNCHANGED <<linkVars, ctl, niVars, want, locked, adrVars, dpVars, starts>>

\* nicmd_dgrcv: keep the packet (free queue locked), or take it or drop it and say so
\* to R; a packet taken moves an entry from the free to the response queue.
RunPacket ==
    /\ At("run") /\ relink = NoQueue /\ pktinf
    /\ \/ /\ "free" \in locked
          /\ Then(<<"cmd">>)
          /\ UNCHANGED <<box, pktinf, docheck, relink, limbo>>
       \/ /\ pktinf' = FALSE /\ dp_xrdone("fr") /\ Then(<<"ringR", "cmd">>)
          /\ \/ "free" \notin locked /\ ni_qeput("resp")
             \/ UNCHANGED <<relink, limbo, docheck>>
    /\ UNCHANGED <<don, wak, evsig, state, dpstate, wantEna, cmdqf, want,
                   adrVars, dpVars, starts>>

RunNoPacket ==
    /\ At("run") /\ relink = NoQueue /\ ~pktinf
    /\ Then(<<"cmd">>)
    /\ UNCHANGED <<linkVars, niVars, queVars, adrVars, dpVars, starts>>

\* Nothing left to do: the timer is let go.
RunDone ==
    /\ At("cmd") /\ ~cmdqf
    /\ docheck' = FALSE
    /\ Then(<<>>)
    /\ UNCHANGED <<linkVars, state, dpstate, wantEna, pktinf, cmdqf, queVars,
                   adrVars, dpVars, starts>>

\* The "to" buffer is in use, or the command queue is locked.
RunResched ==
    /\ At("cmd") /\ cmdqf /\ (box["to"].rdy \/ "cmd" \in locked)
    /\ docheck' = TRUE
    /\ Then(<<>>)
    /\ UNCHANGED <<linkVars, state, dpstate, wantEna, pktinf, cmdqf, queVars,
                   adrVars, dpVars, starts>>

\* Mutant: commands are taken without asking whether the buffer is free.
CmdReady_Any == At("cmd") /\ cmdqf /\ "cmd" \notin locked
CmdReady == At("cmd") /\ cmdqf /\ ~box["to"].rdy /\ "cmd" \notin locked

RunEmpty ==
    /\ CmdReady /\ want = <<>>
    /\ cmdqf' = FALSE
    /\ Then(<<"run">>)
    /\ UNCHANGED <<linkVars, state, dpstate, wantEna, pktinf, docheck, queVars,
                   adrVars, dpVars, starts>>

\* The rest of ni20_cmdchk: the entry goes to the response queue or to a free queue,
\* and if that is locked the run stops there.
CmdBack(ls) ==
    /\ \E q \in {"resp", "free"} :
          ni_qeput(q) /\ Then(IF q \in locked THEN ls ELSE ls \o <<"run">>)
    /\ UNCHANGED <<don, wak, evsig, state, dpstate, wantEna, pktinf, cmdqf,
                   ethadr, dpeth, dpVars, starts>>

\* nicmd_snddg
RunSnddg ==
    /\ CmdReady /\ want # <<>> /\ Head(want) = "SND"
    /\ want' = Tail(want)
    /\ dp_xsend("to", "SPKT")
    /\ UNCHANGED rqeth
    /\ CmdBack(<<"ringW">>)

\* nicmd_wrtnsa, to an address that may be the present one.
RunWrtnsa ==
    /\ CmdReady /\ want # <<>> /\ Head(want) = "WSI"
    /\ want' = Tail(want)
    /\ \E a \in Adr :
          IF a = ethadr THEN UNCHANGED <<box, rqeth>> /\ CmdBack(<<>>)
          ELSE dp_xsend("to", "SETETH") /\ rqeth' = a /\ CmdBack(<<"ringW">>)

-----------------------------------------------------------------------------
(* CONO                                                                    *)

\* ni20_enable once INIT is in: ni20_ldmcat sends SETMCAT, whatever the buffer holds.
Enable ==
    /\ At("enable")
    /\ dp_xsend("to", "SETMCAT")
    /\ state' = "ENA" /\ wantEna' = FALSE
    /\ Then(<<"ringW">>)
    /\ UNCHANGED <<don, wak, evsig, dpstate, pktinf, cmdqf, docheck, queVars,
                   adrVars, dpVars, starts>>

\* ni20_start
ConoStart ==
    /\ Idle /\ state = "HALT" /\ starts < MaxStarts
    /\ starts' = starts + 1
    /\ state' = "RUN" /\ wantEna' = FALSE
    /\ W' = "boot" /\ sigW' = FALSE
    /\ UNCHANGED <<linkVars, ctl, dpstate, pktinf, cmdqf, docheck, queVars, locked,
                   adrVars, R, sigR, rinit>>

ConoEnable ==
    /\ state = "RUN"
    /\ Patient => ~box["to"].rdy
    /\ IF dpstate THEN Begin(<<"enable">>) /\ UNCHANGED wantEna
       ELSE Begin(<<>>) /\ wantEna' = TRUE
    /\ UNCHANGED <<linkVars, state, dpstate, pktinf, cmdqf, docheck, queVars, adrVars,
                   dpVars, starts>>

\* ni20_disable: finish the command queue, no longer accept packets.
ConoDisable ==
    /\ state = "ENA"
    /\ state' = "RUN"
    /\ cmdqf' \in {cmdqf, TRUE}
    /\ Leave(<<"run">>)
    /\ UNCHANGED <<linkVars, dpstate, wantEna, pktinf, docheck, queVars, adrVars,
                   dpVars, starts>>

\* The monitor queues commands and says so.
ConoQueue ==
    /\ state \in {"RUN", "ENA"}
    /\ Patient => state = "ENA"
    /\ \E c \in Cmds : Len(want) < MaxQ /\ want' = Append(want, c)
    /\ cmdqf' = TRUE
    /\ Leave(<<"run">>)
    /\ UNCHANGED <<linkVars, state, dpstate, wantEna, pktinf, docheck, relink, limbo,
                   adrVars, dpVars, starts>>

\* ni20_stop: ask W to quit if it is known to listen, then kill both.
StopSteps == IF dpstate THEN <<"xswait", "quit", "ringW", "xswait", "stop">> ELSE <<"stop">>

\* CONO without the run bit.
ConoStop ==
    /\ state # "HALT"
    /\ Patient => ~cmdqf /\ ~box["to"].rdy
    /\ state' = "HALT" /\ wantEna' = FALSE
    /\ Begin(StopSteps)
    /\ UNCHANGED <<linkVars, dpstate, pktinf, cmdqf, docheck, queVars, adrVars, dpVars,
                   starts>>

\* ni20_clear, by CONO or a reset of the machine.
ConoClear ==
    /\ Begin(IF state = "HALT" THEN <<"clear">> ELSE StopSteps \o <<"clear">>)
    /\ state' = "HALT" /\ wantEna' = FALSE
    /\ UNCHANGED <<linkVars, dpstate, pktinf, cmdqf, docheck, queVars, adrVars, dpVars,
                   starts>>

\* dp_xswait in ni20_quit: the test, and the sigsuspend after it, with nothing masked.
QuitTest ==
    /\ At("xswait")
    /\ Then(IF box["to"].rdy THEN <<"suspend">> ELSE <<>>)
    /\ UNCHANGED <<linkVars, niVars, queVars, adrVars, dpVars, starts>>

QuitSuspend ==
    /\ At("suspend")
    /\ Then(<<"nap">>)
    /\ UNCHANGED <<linkVars, niVars, queVars, adrVars, dpVars, starts>>

\* Any other signal: the console, another device.
OtherSignal ==
    /\ At("nap")
    /\ Then(<<"xswait">>)
    /\ UNCHANGED <<linkVars, niVars, queVars, adrVars, dpVars, starts>>

Quit ==
    /\ At("quit")
    /\ dp_xsend("to", "QUIT") /\ Then(<<>>)
    /\ UNCHANGED <<don, wak, evsig, niVars, queVars, adrVars, dpVars, starts>>

\* dp_stop
Stop ==
    /\ At("stop")
    /\ W' = "gone" /\ R' = "gone" /\ sigW' = FALSE /\ sigR' = FALSE
    /\ dpstate' = FALSE
    /\ Then(<<>>)
    /\ UNCHANGED <<linkVars, state, wantEna, pktinf, cmdqf, docheck, queVars,
                   adrVars, rinit, starts>>

Clear ==
    /\ At("clear")
    /\ pktinf' = FALSE /\ cmdqf' = FALSE /\ docheck' = FALSE
    /\ relink' = NoQueue /\ limbo' = 0
    /\ Then(<<>>)
    /\ UNCHANGED <<linkVars, state, dpstate, wantEna, want, adrVars, dpVars, starts>>

Main == \/ RingW \/ RingR \/ EvHrwak \/ Ack \/ EvHsdon
        \/ RunBlocked \/ RunRelink \/ RunPacket \/ RunNoPacket \/ RunDone \/ RunResched
        \/ RunEmpty \/ RunSnddg \/ RunWrtnsa
        \/ Enable \/ QuitTest \/ QuitSuspend \/ Quit \/ Stop \/ Clear
Cono == ConoStart \/ ConoEnable \/ ConoDisable \/ ConoQueue \/ ConoStop \/ ConoClear

Next == Main \/ EvBegin \/ RunClk \/ Cono \/ WSteps \/ RSteps \/ RPacket \/ RGiveUp \/ OtherSignal

Spec == Init /\ [][Next]_vars

\* The KLH10 keeps executing, so it comes to pending events and to the check timer
\* between instructions; the host runs both subprocesses.  A write tried over and over
\* succeeds at last, if W has not given up: only interrupted calls are uncounted.
\* Nothing is assumed of the monitor, of incoming packets, or of other signals.
Fairness == /\ WF_vars(Main) /\ SF_vars(EvBegin) /\ SF_vars(RunClk)
            /\ WF_vars(WSteps) /\ WF_vars(RSteps) /\ SF_vars(WExec)
FairSpec == Spec /\ Fairness

-----------------------------------------------------------------------------
(* Properties                                                              *)

Pending(l) == \E i \in DOMAIN ctl : ctl[i] = l

\* Everything stays in range: the entries waiting to be linked are counted, commands in
\* the buffers are ones this link has, addresses are of the interface.
TypeOK ==
    /\ box \in [{"to", "fr"} -> [rdy : BOOLEAN, cmd : Command, tag : {0, 1}]]
    /\ {don, wak, evsig, dpstate, wantEna, pktinf, cmdqf, docheck, sigW, sigR, rinit}
           \subseteq BOOLEAN
    /\ \A i \in DOMAIN ctl : ctl[i] \in
          {"ringW", "ringR", "wak", "don", "run", "cmd", "ack", "enable", "xswait",
           "suspend", "nap", "quit", "stop", "clear"}
    /\ state \in {"HALT", "RUN", "ENA"}
    /\ relink \in {NoQueue, "resp", "free"} /\ limbo \in Nat
    /\ locked \subseteq Locks
    /\ want \in Seq(Cmds) /\ Len(want) <= MaxQ
    /\ {ethadr, dpeth, rqeth} \subseteq Adr
    /\ W \in {"gone", "boot", "test", "sleep", "exec", "done", "flag", "kill"}
    /\ R \in {"gone", "test", "sleep", "fill", "flag", "kill"}
    /\ starts \in 0..MaxStarts

\* Each buffer has one owner at a time: no command or packet is overwritten before its
\* receiver has let go of it, and none is executed twice.
ToBox == INSTANCE Mailbox WITH
            Message <- Command \X {0, 1},
            full <- box["to"].rdy, msg <- <<box["to"].cmd, box["to"].tag>>,
            open <- W = "done"
FrBox == INSTANCE Mailbox WITH
            Message <- Command \X {0, 1},
            full <- box["fr"].rdy, msg <- <<box["fr"].cmd, box["fr"].tag>>,
            open <- pktinf \/ Pending("ack")
ToOwned == ToBox!Spec
FrOwned == FrBox!Spec

\* A subprocess sleeps only if there is nothing for it, or the signal that will wake it
\* is pending or about to be sent: the ready flag is the state, the signal only wakes.
SleepersWake ==
    /\ W = "sleep" /\ box["to"].rdy => sigW \/ Pending("ringW")
    /\ R = "sleep" /\ ~box["fr"].rdy => sigR \/ Pending("ringR")

\* What R has put into its buffer is remembered by the KLH10 until it lets go of it:
\* by the event word with an event walk under way or to come, or as ni_pktinf.  (Said
\* of a port that runs and was not restarted: see StartCompletes.)
PacketRemembered ==
    box["fr"].rdy /\ starts = 1 /\ state # "HALT" =>
        \/ R = "flag"
        \/ wak /\ (R = "kill" \/ evsig \/ Pending("wak"))
        \/ pktinf \/ Pending("ack")

\* The subprocess takes every command it is sent while the port runs, unless it gives
\* the network up.
CommandServed ==
    (box["to"].rdy /\ state # "HALT") ~> (~box["to"].rdy \/ state = "HALT" \/ W = "gone")

\* dvni20.c on a queue entry taken off its queue: "Have to be sure that --nothing--
\* prevents us from either linking it back in, or setting it up in ni_qep and ni_qhp".
EntryRemembered == limbo = IF relink = NoQueue THEN 0 ELSE 1

\* dvni20.c of the done event: "Ethernet addr maybe changed!", "Get true addr".  With
\* no command or event outstanding the port filters by the interface's address.
AdrKnown ==
    Idle /\ dpstate /\ ~don /\ ~evsig /\ W \in {"test", "sleep"} /\ ~box["to"].rdy
        => ethadr = dpeth

\* dvni20.c of ni20_enable: "When DPNI_INIT is received, ni20_able() will be invoked
\* to carry out state change".  A port that is started and not stopped hears INIT.
StartCompletes ==
    (state # "HALT" /\ ~dpstate) ~> (dpstate \/ state = "HALT")
=============================================================================
