------------------------------ MODULE PiSystem ------------------------------
(***************************************************************************)
(* The KL10 priority interrupt system: the PI half of kn10cpu.c, and the   *)
(* request logic every I/O bus device shares (rh20pifun/dte20pifun in      *)
(* kn10dev.c, and the xx_pi/xx_picheck/xx_cono triplet that dvrh20.c,      *)
(* dvdte.c and dvni20.c repeat).                                           *)
(*                                                                         *)
(* A request travels through caches: a device's condition, its own request *)
(* dv_pireq, its group's level mask (pilev_rhreq, pilev_dtereq), the sum   *)
(* pilev_dreq, and at last mr_insbreak, which alone makes the instruction  *)
(* loop look.  Each is updated only by the code that believes it has       *)
(* changed the one below.                                                  *)
(*                                                                         *)
(* Level 1 is the highest priority.  A level mask is a set of levels; the  *)
(* C compares masks as integers with level 1 as the most significant bit.  *)
(* An instruction, a device callback and a pass of apr_check are one step  *)
(* each; how they interleave with signals is the subject of InsBreak.      *)
(***************************************************************************)
EXTENDS Integers

CONSTANTS
    NLev,        \* number of levels (PILEVS is 7 of them)
    Rh, Dte,     \* RH20-slot devices (RH20s and the NI20) and DTE20s
    Rh20,        \* the RH20s of Rh, which report register access errors
    PIA,         \* channels the monitor assigns to each device; 0 is none
    CpuPIA,      \* ... and to the APR and the interval timer
    Selections,  \* the level selections of the monitor's CONO PI,
    DiagSkip     \* the EPT may hold the diagnostics' AOSE/SKIPE interrupt words

Level == 1..NLev
Ctl   == Rh \cup Dte

ASSUME LevelAssumption == NLev \in Nat \ {0}
ASSUME DeviceAssumption == Rh \cap Dte = {} /\ Rh20 \subseteq Rh
ASSUME PiaAssumption == PIA \in [Ctl -> SUBSET (0..NLev)] /\ CpuPIA \subseteq 0..NLev
ASSUME SelectionAssumption == Selections \subseteq SUBSET Level
ASSUME DiagAssumption == DiagSkip \in BOOLEAN

VARIABLES
    on,          \* pisys_on
    lon,         \* pilev_on: levels enabled
    preq,        \* pilev_preq: programmed requests
    pip,         \* pilev_pip: interrupts in progress
    dreq,        \* pilev_dreq: levels some device requests, as last summed
    apr,         \* [want, lev, req]: an enabled APR flag is set; aprf_lev; pilev_aprreq
    tim,         \* [lev, req]: tim_lev; pilev_timreq
    dev,         \* per device [cond, rae, draes, lev, req]: a condition that always
                 \* interrupts; register access error; DRAES, which masks it; PIA; dv_pireq
    grp,         \* [rh, dte]: pilev_rhreq and pilev_dtereq
    insbreak     \* cpu.mr_insbreak is set

pivars == <<on, lon, preq, pip>>
vars   == <<pivars, dreq, apr, tim, dev, grp, insbreak>>

Bit(l)   == IF l = 0 THEN {} ELSE {l}       \* pilev_bits
TopOf(s) == CHOOSE l \in s : \A m \in s : l <= m    \* pilev_nums

\* pi_init, and devices and clocks as their init routines leave them
Init ==
    /\ on = FALSE
    /\ lon = {} /\ preq = {} /\ pip = {} /\ dreq = {}
    /\ apr = [want |-> FALSE, lev |-> 0, req |-> 0]
    /\ tim = [lev |-> 0, req |-> {}]
    /\ dev = [d \in Ctl |-> [cond |-> FALSE, rae |-> FALSE, draes |-> FALSE,
                             lev |-> 0, req |-> 0]]
    /\ grp = [rh |-> {}, dte |-> {}]
    /\ insbreak = FALSE

-----------------------------------------------------------------------------
(* pi_check and pi_devupd                                                  *)

\* a > b for two masks with no level in common: a's most significant bit wins.
Outranks(a, b) == a # {} /\ \A m \in b : TopOf(a) < m

\* pi_check over given register values: the levels that should interrupt now.
PiCheckOf(o, l, p, i, r) ==
    LET levs == ((r \cap l) \cup p) \ i
    IN  IF o /\ Outranks(levs, i) THEN levs ELSE {}
PiCheck == PiCheckOf(on, lon, preq, pip, dreq)

ReqSum(a, t, g) == Bit(a.req) \cup t.req \cup g.rh \cup g.dte

\* Mutant: a request is not announced when the sum already contained something.
PiDevupd_Edge(a, t, g) ==
    /\ dreq' = ReqSum(a, t, g)
    /\ insbreak' = (insbreak \/ (dreq' # {} /\ dreq = {}))
\* pi_devupd, after the request registers became a, t and g.
PiDevupd(a, t, g) ==
    /\ dreq' = ReqSum(a, t, g)
    /\ insbreak' = (insbreak \/ dreq' # {})

NoDevupd == UNCHANGED <<dreq, insbreak>>

-----------------------------------------------------------------------------
(* Instructions on the PI system.  The loop runs one only when mr_insbreak *)
(* is clear.                                                               *)

\* One OFF/ON pair of selections applied to a mask; both given is the same as ON,
\* because the code does the OFF case first.
Select(how, mask, levs) ==
    CASE how = "on" -> mask \cup levs [] how = "off" -> mask \ levs [] OTHER -> mask

\* io_wrpi (CONO PI,): clear; turn the system off or on; drop or initiate programmed
\* requests; disable or enable levels; then see whether something wants to interrupt.
WrPi(clr, sys, rq, en, levs) ==
    /\ ~insbreak
    /\ pip'  = IF clr THEN {} ELSE pip
    /\ on'   = IF sys = "keep" THEN on /\ ~clr ELSE sys = "on"
    /\ preq' = Select(rq, IF clr THEN {} ELSE preq, levs)
    /\ lon'  = Select(en, IF clr THEN {} ELSE lon, levs)
    /\ insbreak' = (PiCheckOf(on', lon', preq', pip', dreq) # {})
    /\ UNCHANGED <<dreq, apr, tim, dev, grp>>

\* Mutant: the dismissed level is the lowest in progress.
Dismiss_Lowest ==
    /\ ~insbreak
    /\ pip # {}
    /\ pip' = pip \ {CHOOSE l \in pip : \A m \in pip : m <= l}
    /\ insbreak' = (PiCheckOf(on, lon, preq, pip', dreq) # {})
    /\ UNCHANGED <<on, lon, preq, dreq, apr, tim, dev, grp>>
\* pi_dismiss (JEN, XJEN, JRST 10,): a no-op when nothing is in progress.
Dismiss ==
    /\ ~insbreak
    /\ pip # {}
    /\ pip' = pip \ {TopOf(pip)}
    /\ insbreak' = (PiCheckOf(on, lon, preq, pip', dreq) # {})
    /\ UNCHANGED <<on, lon, preq, dreq, apr, tim, dev, grp>>

-----------------------------------------------------------------------------
(* APR flags (io_wrapr, and the flags the pager and memory set)            *)

\* apr_picheck, with the flags and the channel assignment already stored in a.
AprPicheck(a) ==
    LET req == IF a.want THEN a.lev ELSE 0
        b   == [a EXCEPT !.req = req]
    IN  /\ apr' = b
        /\ IF req # a.req THEN PiDevupd(b, tim, grp) ELSE NoDevupd

WrApr(w, l) ==
    /\ ~insbreak
    /\ AprPicheck([apr EXCEPT !.want = w, !.lev = l])
    /\ UNCHANGED <<pivars, tim, dev, grp>>

AprFlag ==
    /\ ~insbreak
    /\ AprPicheck([apr EXCEPT !.want = TRUE])
    /\ UNCHANGED <<pivars, tim, dev, grp>>

-----------------------------------------------------------------------------
(* Interval timer (its Done flag itself interrupts nothing and is left out) *)

\* tim_klupdate: one interval is done (TIM_ON is set).
TimTick ==
    LET t == [tim EXCEPT !.req = @ \cup Bit(tim.lev)]
    IN  /\ tim' = t
        /\ IF t.req # {} THEN PiDevupd(apr, t, grp) ELSE NoDevupd
        /\ UNCHANGED <<pivars, apr, dev, grp>>

\* Mutant: clearing the Done flag forgets to tell the PI system.
CoTim_NoUpd ==
    /\ ~insbreak
    /\ tim' = [tim EXCEPT !.req = {}]
    /\ NoDevupd
    /\ UNCHANGED <<pivars, apr, dev, grp>>
\* io_co_tim with TIM_WFCLR: clears Done and the request.
CoTim ==
    LET t == [tim EXCEPT !.req = {}]
    IN  /\ ~insbreak
        /\ tim' = t
        /\ IF tim.req # {} THEN PiDevupd(apr, t, grp) ELSE NoDevupd
        /\ UNCHANGED <<pivars, apr, dev, grp>>

\* io_wrtime (CONO MTR,): the timer's channel; a request that is up moves with it.
WrTime(l) ==
    LET t == [tim EXCEPT !.lev = l, !.req = IF @ # {} THEN Bit(l) ELSE {}]
    IN  /\ ~insbreak
        /\ tim' = t
        /\ IF tim.req # {} THEN PiDevupd(apr, t, grp) ELSE NoDevupd
        /\ UNCHANGED <<pivars, apr, dev, grp>>

-----------------------------------------------------------------------------
(* I/O bus devices                                                         *)

GroupOf(d) == IF d \in Rh THEN "rh" ELSE "dte"
Peers(d)   == IF d \in Rh THEN Rh ELSE Dte

\* Mutant: the group mask is re-summed from every device, idle ones (level 0) included.
PifunOff_Zero(s, d) ==
    LET dv == [s.dev EXCEPT ![d].req = 0]
    IN  IF s.dev[d].req = 0 THEN s
        ELSE [dev |-> dv, upd |-> TRUE,
              grp |-> [s.grp EXCEPT ![GroupOf(d)] = {dv[c].req : c \in Peers(d)}]]
\* Mutant: the group mask keeps the level the device no longer asks for.
PifunOff_NoSum(s, d) ==
    IF s.dev[d].req = 0 THEN s ELSE [s EXCEPT !.dev[d].req = 0, !.upd = TRUE]
\* rh20pifun / dte20pifun with level 0, on s = [dev, grp, upd]: the group mask is
\* re-summed from the devices; upd says that pi_devupd is called.
PifunOff(s, d) ==
    LET lev == s.dev[d].req
        dv  == [s.dev EXCEPT ![d].req = 0]
        sum == {dv[c].req : c \in Peers(d)} \ {0}
    IN  IF lev = 0 THEN s
        ELSE IF lev \notin s.grp[GroupOf(d)] THEN [s EXCEPT !.dev = dv]
        ELSE [dev |-> dv, grp |-> [s.grp EXCEPT ![GroupOf(d)] = sum], upd |-> TRUE]

\* ... and with the device's level: no second call when the group already asks there.
PifunOn(s, d, lev) ==
    LET dv == [s.dev EXCEPT ![d].req = lev]
    IN  IF lev \in s.grp[GroupOf(d)] THEN [s EXCEPT !.dev = dv]
        ELSE [dev |-> dv, grp |-> [s.grp EXCEPT ![GroupOf(d)] = @ \cup {lev}], upd |-> TRUE]

\* rh_pi, dte_pi, ni20_pi
DevPi(s, d) ==
    IF s.dev[d].lev # 0 /\ s.dev[d].req = 0 THEN PifunOn(s, d, s.dev[d].lev) ELSE s

\* What rh_picheck asks about: command done or enabled attention; or a register
\* access error that is not masked.
Wants(v) == v.cond \/ (v.rae /\ ~v.draes)

\* rh_picheck, dte_picheck, ni20_picheck
DevPicheck(s, d) ==
    IF Wants(s.dev[d]) THEN DevPi(s, d)
    ELSE IF s.dev[d].req # 0 THEN PifunOff(s, d) ELSE s

\* Changed PIA while PI outstanding: flush it.
Flush(s, d) ==
    IF s.dev[d].req # 0 /\ s.dev[d].req # s.dev[d].lev THEN PifunOff(s, d) ELSE s

\* What the request logic is given: the masks as they are, d's registers already stored.
Touched(d, v) == [dev |-> [dev EXCEPT ![d] = v], grp |-> grp, upd |-> FALSE]
Store(s) ==
    /\ dev' = s.dev
    /\ grp' = s.grp
    /\ IF s.upd THEN PiDevupd(apr, tim, s.grp) ELSE NoDevupd
    /\ UNCHANGED <<pivars, apr, tim>>

\* CONO to the device (rh20_cono, dt_cono, ni20_cono): new channel, conditions cleared,
\* kept or enabled; an RH20 may also clear its access error or the whole controller.
DevCono(d, c, how, l) ==
    /\ ~insbreak
    /\ how = "clear" => ~c
    /\ LET v == [dev[d] EXCEPT !.cond = c, !.lev = l, !.rae = @ /\ how = "keep",
                               !.draes = @ /\ how # "clear"]
       IN  Store(DevPicheck(Flush(Touched(d, v), d), d))

\* With d's registers being v: something to report (rh20_ioend, rh20_attn, dte_10db ...);
\* a condition that goes away (rh20_attn off, for the last drive), where only a device
\* that asks looks again; a register access that fails.
Raised(d, v) == DevPi(Touched(d, [v EXCEPT !.cond = TRUE]), d)
Lowered(d, v) ==
    LET s == Touched(d, [v EXCEPT !.cond = FALSE])
    IN  IF v.req # 0 THEN DevPicheck(s, d) ELSE s
\* Mutant: the error is recorded and nobody is asked.
Failed_Silent(d, v) == Touched(d, [v EXCEPT !.rae = TRUE])
Failed(d, v) ==
    LET s == Touched(d, [v EXCEPT !.rae = TRUE])
    IN  IF v.draes THEN s ELSE DevPi(s, d)

\* The device's own events.
DevRaise(d) == Store(Raised(d, dev[d]))
DevLower(d) == dev[d].cond /\ Store(Lowered(d, dev[d]))

\* rh20_datai from an external register that fails.
Datai(d) == ~insbreak /\ Store(Failed(d, dev[d]))

\* rh20_datao: ignored while an unmasked error stands; else DRAES becomes m, and the
\* register written, if any, fails, drops an attention or starts a transfer that may end
\* at once.  Nothing asks about an error that stood masked.
Datao(d, m) ==
    /\ ~insbreak
    /\ ~(dev[d].rae /\ ~dev[d].draes)
    /\ LET v == [dev[d] EXCEPT !.draes = m]
       IN  \/ Store(Touched(d, v))
           \/ Store(Failed(d, v))
           \/ dev[d].cond /\ Store(Lowered(d, v))
           \/ Store(Raised(d, v))

-----------------------------------------------------------------------------
(* pi_xct                                                                  *)

\* Where pi_xct finds the source of an interrupt on level l, in its order of search.
\* "panic" is one of its "spurious" panics.
SourceOf(l) ==
    IF l \in tim.req /\ l \in lon           THEN "timer"
    ELSE IF l \in preq \/ l = apr.req        THEN "prog/apr"
    ELSE IF l \in dreq /\ l \in grp.rh       THEN
            IF \E d \in Rh : dev[d].req = l  THEN "rh20" ELSE "panic"
    ELSE IF l \in dreq /\ l \in grp.dte      THEN
            IF \E d \in Dte : dev[d].req = l THEN "dte20" ELSE "panic"
    ELSE "panic"

\* The highest requesting level is entered, by a JSR or an XPCW; or not, by a
\* diagnostic's SKIPE that skips, which returns before pip is set.  What else
\* is pending ranks below, so INSBRK_ACTEND leaves mr_insbreak clear.
PiXct ==
    /\ insbreak /\ PiCheck # {}
    /\ SourceOf(TopOf(PiCheck)) # "panic"
    /\ \/ pip' = pip \cup {TopOf(PiCheck)}
       \/ DiagSkip /\ UNCHANGED pip
    /\ insbreak' = FALSE
    /\ UNCHANGED <<on, lon, preq, dreq, apr, tim, dev, grp>>

\* apr_check with nothing to take.
NothingToTake ==
    /\ insbreak /\ PiCheck = {}
    /\ insbreak' = FALSE
    /\ UNCHANGED <<pivars, dreq, apr, tim, dev, grp>>

Next ==
    \/ \E sys, rq, en \in {"keep", "off", "on"}, levs \in Selections :
          WrPi(FALSE, sys, rq, en, levs)
    \/ \E sys, rq, en \in {"keep", "on"}, levs \in Selections :  \* all is off already
          WrPi(TRUE, sys, rq, en, levs)
    \/ Dismiss
    \/ \E w \in BOOLEAN, l \in CpuPIA : WrApr(w, l)
    \/ AprFlag
    \/ TimTick \/ CoTim
    \/ \E l \in CpuPIA : WrTime(l)
    \/ \E d \in Ctl : \/ \E c \in BOOLEAN, how \in {"keep", "crae", "clear"}, l \in PIA[d] :
                            DevCono(d, c, how, l)
                      \/ DevRaise(d)
                      \/ DevLower(d)
    \/ \E d \in Rh20 : Datai(d) \/ \E m \in BOOLEAN : Datao(d, m)
    \/ PiXct \/ NothingToTake

Spec == Init /\ [][Next]_vars

-----------------------------------------------------------------------------
(* Properties                                                              *)

\* Masks hold levels only, a device asks on one level or none: no mask ever gets the
\* bit of level 0, which pilev_bits keeps empty.
TypeOK ==
    /\ on \in BOOLEAN /\ insbreak \in BOOLEAN
    /\ lon \in SUBSET Level /\ preq \in SUBSET Level
    /\ pip \in SUBSET Level /\ dreq \in SUBSET Level
    /\ apr \in [want : BOOLEAN, lev : 0..NLev, req : 0..NLev]
    /\ tim \in [lev : 0..NLev, req : SUBSET Level]
    /\ dev \in [Ctl -> [cond : BOOLEAN, rae : BOOLEAN, draes : BOOLEAN,
                       lev : 0..NLev, req : 0..NLev]]
    /\ grp \in [rh : SUBSET Level, dte : SUBSET Level]

\* An unmasked register access error that nobody is told of, though there is a channel.
Unheard(v) == v.rae /\ ~v.draes /\ ~v.cond /\ v.lev # 0 /\ v.req = 0

\* The caches agree all the way down: the group masks are exactly what their devices
\* ask for, the sum is exactly the group masks, APR and timer requests, and a device
\* that wants to interrupt and has a channel is asking on that channel, and no other
\* asks; save an RH20 with an error unmasked behind rh_picheck's back.
RequestsAgree ==
    /\ grp.rh  = {dev[d].req : d \in Rh} \ {0}
    /\ grp.dte = {dev[d].req : d \in Dte} \ {0}
    /\ dreq = ReqSum(apr, tim, grp)
    /\ apr.req = IF apr.want THEN apr.lev ELSE 0
    /\ \A d \in Ctl : \/ dev[d].req = IF Wants(dev[d]) THEN dev[d].lev ELSE 0
                     \/ Unheard(dev[d])

\* The one way a register access error comes to stand unmasked and unannounced: a DATAO
\* unmasks an error that stood masked.  No error is lost as it happens, nor by a CONO, an
\* attention or the end of a transfer.
OnlyUnmasking ==
    [][\A d \in Ctl :
          Unheard(dev[d])' /\ ~Unheard(dev[d]) =>
              dev[d].rae /\ dev[d].draes /\ ~dev'[d].draes]_vars

\* An interrupt that should be taken now is never forgotten: mr_insbreak is set, so the
\* loop comes to pi_check before it executes another instruction.
NoLostInterrupt == PiCheck # {} => insbreak

\* pi_xct always finds the device behind a request: its "spurious" panics are dead code.
NoSpuriousPanic == PiCheck # {} => SourceOf(TopOf(PiCheck)) # "panic"

\* Interrupts nest strictly upwards: a level is entered only above every level in
\* progress, one at a time, and the one dismissed is the last one entered.
Nests ==
    [][\/ pip' = pip
       \/ pip' = {}
       \/ \E l \in Level \ pip : pip' = pip \cup {l} /\ \A m \in pip : l < m
       \/ \E l \in pip : pip' = pip \ {l} /\ \A m \in pip : l <= m]_vars
=============================================================================
