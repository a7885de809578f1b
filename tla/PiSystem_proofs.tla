--------------------------- MODULE PiSystem_proofs ---------------------------
(***************************************************************************)
(* Proofs about PiSystem, for any number of levels and any devices.        *)
(*                                                                         *)
(* The inductive invariant is the type invariant, the agreement of the     *)
(* request caches, and NoLostInterrupt itself.  The agreement is what      *)
(* makes pi_devupd's "set mr_insbreak if anything is requested" enough:    *)
(* whoever leaves mr_insbreak clear after a change leaves dreq empty, and  *)
(* then only programmed requests count, which were visible before.         *)
(***************************************************************************)
EXTENDS PiSystem, FiniteSetTheorems, TLAPS

-----------------------------------------------------------------------------
(* Level masks                                                             *)

\* A mask that is not empty has a most significant bit: the find-first-one of
\* pi_xct and pi_dismiss (pilev_nums) always has an answer.
LEMMA HasTop ==
    ASSUME NEW S \in SUBSET Level, S # {}
    PROVE  \E x \in S : \A y \in S : x <= y
<1> USE LevelAssumption
<1> DEFINE I(x) == 1..x
           T == {I(x) : x \in S}
<1>1. IsWellFoundedOn(StrictSubsetOrdering(Level), FiniteSubsetsOf(Level))
  BY FS_StrictSubsetOrderingWellFounded
<1>2. T \subseteq FiniteSubsetsOf(Level) /\ T # {}
  <2>1. ASSUME NEW x \in S PROVE I(x) \in FiniteSubsetsOf(Level)
    BY FS_Interval DEF FiniteSubsetsOf, Level
  <2> QED BY <2>1
<1>3. \E t \in T : \A u \in T : ~(<<u, t>> \in StrictSubsetOrdering(Level))
  <2> HIDE DEF T
  <2> QED BY <1>1, <1>2, WFMin
<1>4. PICK x \in S : \A y \in S : ~(<<I(y), I(x)>> \in StrictSubsetOrdering(Level))
  BY <1>3
<1>5. ASSUME NEW y \in S, y < x PROVE FALSE
  <2>1. I(y) \in SUBSET Level /\ I(x) \in SUBSET Level /\ I(y) \subseteq I(x)
    BY <1>5 DEF Level
  <2>2. x \in I(x) /\ x \notin I(y)
    BY <1>5 DEF Level
  <2>3. <<I(y), I(x)>> \in StrictSubsetOrdering(Level)
    <3> HIDE DEF I
    <3> QED BY <2>1, <2>2 DEF StrictSubsetOrdering
  <2> QED BY <2>3, <1>4
<1>6. QED BY <1>5 DEF Level

LEMMA TopOfFact ==
    ASSUME NEW S \in SUBSET Level, S # {}
    PROVE  TopOf(S) \in S /\ \A m \in S : TopOf(S) <= m
BY HasTop DEF TopOf

\* What pi_check returns, without the find-first-one.
LEMMA PiCheckFact ==
    ASSUME NEW o \in BOOLEAN, NEW l \in SUBSET Level, NEW p \in SUBSET Level,
           NEW i \in SUBSET Level, NEW r \in SUBSET Level
    PROVE  LET levs == ((r \cap l) \cup p) \ i
           IN  /\ PiCheckOf(o, l, p, i, r) \in SUBSET Level
               /\ PiCheckOf(o, l, p, i, r) # {} <=>
                    /\ o
                    /\ \E x \in levs : \A m \in i : x < m
               /\ PiCheckOf(o, l, p, i, r) # {} => PiCheckOf(o, l, p, i, r) = levs
<1> DEFINE levs == ((r \cap l) \cup p) \ i
<1>1. levs \in SUBSET Level /\ levs \subseteq Int /\ i \subseteq Int
  BY LevelAssumption DEF Level
<1>2. levs # {} => TopOf(levs) \in levs /\ \A m \in levs : TopOf(levs) <= m
  <2> HIDE DEF levs
  <2> QED BY <1>1, TopOfFact
<1>3. PiCheckOf(o, l, p, i, r) = IF o /\ levs # {} /\ \A m \in i : TopOf(levs) < m
                                THEN levs ELSE {}
  BY DEF PiCheckOf, Outranks
<1>4. (levs # {} /\ \A m \in i : TopOf(levs) < m) <=> \E x \in levs : \A m \in i : x < m
  <2> HIDE DEF levs
  <2>1. ASSUME NEW x \in levs, \A m \in i : x < m, NEW m \in i PROVE TopOf(levs) < m
    <3>1. TopOf(levs) \in Int /\ x \in Int /\ m \in Int /\ TopOf(levs) <= x /\ x < m
      BY <1>1, <1>2, <2>1
    <3> QED BY <3>1
  <2> QED BY <1>2, <2>1
<1> HIDE DEF levs
<1>5. /\ PiCheckOf(o, l, p, i, r) \in SUBSET Level
      /\ PiCheckOf(o, l, p, i, r) # {} <=> o /\ \E x \in levs : \A m \in i : x < m
      /\ PiCheckOf(o, l, p, i, r) # {} => PiCheckOf(o, l, p, i, r) = levs
  BY <1>1, <1>3, <1>4
<1> QED BY <1>5 DEF levs

\* With no request summed, only programmed requests count, and these count with any sum.
LEMMA PiCheckMonotone ==
    ASSUME NEW o \in BOOLEAN, NEW l \in SUBSET Level, NEW p \in SUBSET Level,
           NEW i \in SUBSET Level, NEW r \in SUBSET Level,
           PiCheckOf(o, l, p, i, r) = {}
    PROVE  PiCheckOf(o, l, p, i, {}) = {}
BY PiCheckFact

-----------------------------------------------------------------------------
(* The request caches                                                      *)

RegState == [cond : BOOLEAN, rae : BOOLEAN, draes : BOOLEAN, lev : 0..NLev, req : 0..NLev]
DevState == [Ctl -> RegState]
AprState == [want : BOOLEAN, lev : 0..NLev, req : 0..NLev]
TimState == [lev : 0..NLev, req : SUBSET Level]
GrpState == [rh : SUBSET Level, dte : SUBSET Level]
Passed   == [dev : DevState, grp : GrpState, upd : BOOLEAN]

\* The group masks g are the levels the devices dv request.
Summed(dv, g) ==
    \A l \in Level : /\ l \in g.rh  <=> \E d \in Rh : dv[d].req = l
                     /\ l \in g.dte <=> \E d \in Dte : dv[d].req = l

\* A device asks on its channel exactly while it wants to interrupt, or is not heard.
Heard(v) == v.req = (IF Wants(v) THEN v.lev ELSE 0) \/ Unheard(v)
Asks(dv) == \A d \in Ctl : Heard(dv[d])

\* A diagnostic's SKIPE that skips leaves the interrupt it looked at unannounced.
Kept == DiagSkip \/ NoLostInterrupt

\* A step leaves no register access error unheard but one it unmasks.
NoneLost ==
    \A d \in Ctl : Unheard(dev'[d]) /\ ~Unheard(dev[d]) =>
        dev[d].rae /\ dev[d].draes /\ ~dev'[d].draes

\* What holds of the registers between two steps.
IInv == TypeOK /\ RequestsAgree /\ Kept

LEMMA SummedFact ==
    ASSUME NEW dv \in DevState, NEW g \in GrpState
    PROVE  Summed(dv, g) <=> /\ g.rh  = {dv[d].req : d \in Rh} \ {0}
                             /\ g.dte = {dv[d].req : d \in Dte} \ {0}
<1>1. Rh \subseteq Ctl /\ Dte \subseteq Ctl /\ 0 \notin Level /\ 0..NLev = {0} \cup Level
  BY LevelAssumption DEF Ctl, Level
<1>2. \A d \in Ctl : dv[d].req \in {0} \cup Level
  BY <1>1 DEF DevState, RegState
<1>3. g.rh \subseteq Level /\ g.dte \subseteq Level
  BY DEF GrpState
<1> HIDE DEF Level
<1> QED BY <1>1, <1>2, <1>3 DEF Summed

LEMMA ReqSumType ==
    ASSUME NEW a \in AprState, NEW t \in TimState, NEW g \in GrpState
    PROVE  ReqSum(a, t, g) \in SUBSET Level
BY LevelAssumption DEF AprState, TimState, GrpState, ReqSum, Bit, Level

\* pi_devupd, or leaving it out when no mask changed, keeps every interrupt announced.
LEMMA DevupdFact ==
    ASSUME IInv, UNCHANGED pivars,
           NEW a \in AprState, NEW t \in TimState, NEW g \in GrpState,
           \/ PiDevupd(a, t, g)
           \/ NoDevupd /\ ReqSum(a, t, g) = ReqSum(apr, tim, grp)
    PROVE  /\ dreq' = ReqSum(a, t, g) /\ dreq' \in SUBSET Level
           /\ insbreak' \in BOOLEAN
           /\ Kept'
<1>1. /\ on \in BOOLEAN /\ lon \in SUBSET Level /\ preq \in SUBSET Level
      /\ pip \in SUBSET Level /\ dreq \in SUBSET Level /\ insbreak \in BOOLEAN
  BY DEF IInv, TypeOK
<1>2. dreq' = ReqSum(a, t, g) /\ dreq' \in SUBSET Level
  BY ReqSumType DEF PiDevupd, NoDevupd, IInv, RequestsAgree
<1>3. insbreak' \in BOOLEAN
  BY <1>1 DEF PiDevupd, NoDevupd
<1>4. CASE NoDevupd
  BY <1>2, <1>3, <1>4 DEF NoDevupd, IInv, Kept, NoLostInterrupt, PiCheck, pivars
<1>5. CASE PiDevupd(a, t, g)
  <2>1. CASE insbreak'
    BY <1>2, <1>3, <2>1 DEF Kept, NoLostInterrupt
  <2>2. CASE ~insbreak'
    <3>1. ~insbreak /\ dreq' = {}
      BY <1>5, <2>2 DEF PiDevupd
    <3>2. CASE DiagSkip
      BY <1>2, <1>3, <3>2 DEF Kept
    <3>3. CASE ~DiagSkip
      <4>1. PiCheckOf(on, lon, preq, pip, dreq) = {}
        BY <3>1, <3>3 DEF IInv, Kept, NoLostInterrupt, PiCheck
      <4>2. PiCheckOf(on, lon, preq, pip, {}) = {}
        BY <1>1, <4>1, PiCheckMonotone
      <4>3. PiCheck' = PiCheckOf(on, lon, preq, pip, {})
        BY <3>1 DEF PiCheck, pivars
      <4> QED BY <1>2, <1>3, <4>2, <4>3 DEF Kept, NoLostInterrupt
    <3> QED BY <3>2, <3>3
  <2> QED BY <2>1, <2>2
<1> QED BY <1>4, <1>5

\* rh20pifun and dte20pifun keep the group mask the sum of the group's requests, and
\* leave out the call of pi_devupd only when the mask is what it was.
LEMMA PifunOffFact ==
    ASSUME NEW s \in Passed, Summed(s.dev, s.grp), NEW d \in Ctl
    PROVE  LET t == PifunOff(s, d)
           IN  /\ t \in Passed /\ Summed(t.dev, t.grp)
               /\ t.dev = [s.dev EXCEPT ![d].req = 0]
               /\ t.upd \/ (t.grp = s.grp /\ t.upd = s.upd)
<1> DEFINE lev == s.dev[d].req
           dv  == [s.dev EXCEPT ![d].req = 0]
           sum == {dv[c].req : c \in Peers(d)} \ {0}
           g   == [s.grp EXCEPT ![GroupOf(d)] = sum]
<1>1. /\ s.dev \in DevState /\ s.grp \in GrpState /\ s.upd \in BOOLEAN
      /\ lev \in 0..NLev
  BY DEF Passed, DevState, RegState
<1>2. dv \in DevState /\ \A c \in Ctl : dv[c].req = IF c = d THEN 0 ELSE s.dev[c].req
  BY <1>1, LevelAssumption DEF DevState, RegState
<1>3. CASE lev = 0
  <2>1. dv = s.dev
    BY <1>1, <1>3 DEF DevState, RegState
  <2> QED BY <2>1, <1>3 DEF PifunOff
<1>4. CASE lev # 0
  <2>1. lev \in s.grp[GroupOf(d)]
    BY <1>1, <1>4, DeviceAssumption DEF Summed, GroupOf, Ctl, Level, GrpState
  <2>2. PifunOff(s, d) = [dev |-> dv, grp |-> g, upd |-> TRUE]
    BY <1>4, <2>1 DEF PifunOff
  <2>3. sum \in SUBSET Level
    BY <1>2, LevelAssumption DEF Peers, Ctl, DevState, RegState, Level
  <2>4. g \in GrpState
    <3> HIDE DEF sum
    <3> QED BY <1>1, <2>3 DEF GroupOf, GrpState
  <2>5. Summed(dv, g)
    <3>1. CASE d \in Rh
      <4>1. g.rh = {dv[c].req : c \in Rh} \ {0} /\ g.dte = s.grp.dte
        BY <1>1, <3>1 DEF GroupOf, Peers, GrpState
      <4>2. \A c \in Dte : dv[c].req = s.dev[c].req
        BY <1>2, <3>1, DeviceAssumption DEF Ctl
      <4> QED BY <4>1, <4>2 DEF Summed, Level
    <3>2. CASE d \notin Rh
      <4>1. g.dte = {dv[c].req : c \in Dte} \ {0} /\ g.rh = s.grp.rh
        BY <1>1, <3>2 DEF GroupOf, Peers, GrpState
      <4>2. \A c \in Rh : dv[c].req = s.dev[c].req
        BY <1>2, <3>2 DEF Ctl
      <4> QED BY <4>1, <4>2 DEF Summed, Level
    <3> QED BY <3>1, <3>2
  <2> HIDE DEF dv, g
  <2> QED BY <1>2, <2>2, <2>4, <2>5 DEF Passed, dv
<1> QED BY <1>1, <1>3, <1>4

LEMMA PifunOnFact ==
    ASSUME NEW s \in Passed, Summed(s.dev, s.grp), NEW d \in Ctl,
           s.dev[d].req = 0, NEW lev \in Level
    PROVE  LET t == PifunOn(s, d, lev)
           IN  /\ t \in Passed /\ Summed(t.dev, t.grp)
               /\ t.dev = [s.dev EXCEPT ![d].req = lev]
               /\ t.upd \/ (t.grp = s.grp /\ t.upd = s.upd)
<1> DEFINE dv == [s.dev EXCEPT ![d].req = lev]
           g  == [s.grp EXCEPT ![GroupOf(d)] = @ \cup {lev}]
           t  == PifunOn(s, d, lev)
<1>1. s.dev \in DevState /\ s.grp \in GrpState /\ s.upd \in BOOLEAN
  BY DEF Passed
<1>2. dv \in DevState /\ \A c \in Ctl : dv[c].req = IF c = d THEN lev ELSE s.dev[c].req
  BY <1>1, LevelAssumption DEF DevState, RegState, Level
<1>3. g \in GrpState
  BY <1>1 DEF GroupOf, GrpState
<1>4. /\ g.rh  = IF d \in Rh THEN s.grp.rh \cup {lev} ELSE s.grp.rh
      /\ g.dte = IF d \in Rh THEN s.grp.dte ELSE s.grp.dte \cup {lev}
  BY <1>1 DEF GroupOf, GrpState
<1>5. Summed(dv, g)
  <2> HIDE DEF dv, g
  <2>1. \A l \in Level : l # 0
    BY DEF Level
  <2>2. \A l \in Level : l \in g.rh <=> \E c \in Rh : dv[c].req = l
    BY <1>2, <1>4, <2>1, DeviceAssumption DEF Summed, Ctl
  <2>3. \A l \in Level : l \in g.dte <=> \E c \in Dte : dv[c].req = l
    BY <1>2, <1>4, <2>1, DeviceAssumption DEF Summed, Ctl
  <2> QED BY <2>2, <2>3 DEF Summed
<1>6. CASE lev \in s.grp[GroupOf(d)]
  <2>1. t.dev = dv /\ t.grp = s.grp /\ t.upd = s.upd /\ t \in Passed
    BY <1>1, <1>2, <1>6 DEF PifunOn, Passed
  <2>2. g = s.grp
    BY <1>1, <1>6 DEF GroupOf, GrpState
  <2> QED BY <1>5, <2>1, <2>2
<1>7. CASE lev \notin s.grp[GroupOf(d)]
  <2>1. t = [dev |-> dv, grp |-> g, upd |-> TRUE]
    BY <1>7 DEF PifunOn
  <2> HIDE DEF dv, g, t
  <2> QED BY <1>2, <1>3, <1>5, <2>1 DEF Passed, dv, t
<1> QED BY <1>6, <1>7

\* What the request logic of a device leaves behind: only d's request changed, to r.
Left(s, t, d, r) ==
    /\ t \in Passed /\ Summed(t.dev, t.grp)
    /\ t.dev = [s.dev EXCEPT ![d].req = r]
    /\ t.upd \/ (t.grp = s.grp /\ t.upd = s.upd)

LEMMA DevPiFact ==
    ASSUME NEW s \in Passed, Summed(s.dev, s.grp), NEW d \in Ctl
    PROVE  Left(s, DevPi(s, d), d, IF s.dev[d].req = 0 THEN s.dev[d].lev ELSE s.dev[d].req)
<1>1. /\ s.dev[d] \in RegState
      /\ s.dev \in DevState
  BY DEF Passed, DevState
<1>2. CASE s.dev[d].lev # 0 /\ s.dev[d].req = 0
  <2>1. s.dev[d].lev \in Level
    BY <1>1, <1>2, LevelAssumption DEF RegState, Level
  <2>2. DevPi(s, d) = PifunOn(s, d, s.dev[d].lev)
    BY <1>2 DEF DevPi
  <2>3. Left(s, PifunOn(s, d, s.dev[d].lev), d, s.dev[d].lev)
    BY <1>2, <2>1, PifunOnFact DEF Left
  <2> QED BY <1>2, <2>2, <2>3
<1>3. CASE ~(s.dev[d].lev # 0 /\ s.dev[d].req = 0)
  <2> DEFINE r == IF s.dev[d].req = 0 THEN s.dev[d].lev ELSE s.dev[d].req
  <2>1. r = s.dev[d].req
    BY <1>3
  <2>2. [s.dev EXCEPT ![d].req = s.dev[d].req] = s.dev
    BY <1>1 DEF DevState, RegState
  <2> QED BY <1>3, <2>1, <2>2 DEF DevPi, Left
<1> QED BY <1>2, <1>3

LEMMA DevPicheckFact ==
    ASSUME NEW s \in Passed, Summed(s.dev, s.grp), NEW d \in Ctl
    PROVE  Left(s, DevPicheck(s, d), d,
                IF ~Wants(s.dev[d]) THEN 0
                ELSE IF s.dev[d].req = 0 THEN s.dev[d].lev ELSE s.dev[d].req)
<1>1. /\ s.dev[d] \in RegState
      /\ s.dev \in DevState
  BY DEF Passed, DevState
<1>2. CASE Wants(s.dev[d])
  BY <1>2, DevPiFact DEF DevPicheck
<1>3. CASE ~Wants(s.dev[d]) /\ s.dev[d].req # 0
  BY <1>3, PifunOffFact DEF DevPicheck, Left
<1>4. CASE ~Wants(s.dev[d]) /\ s.dev[d].req = 0
  <2>1. [s.dev EXCEPT ![d].req = 0] = s.dev
    BY <1>1, <1>4 DEF DevState, RegState
  <2> QED BY <1>4, <2>1 DEF DevPicheck, Left
<1> QED BY <1>2, <1>3, <1>4

LEMMA FlushFact ==
    ASSUME NEW s \in Passed, Summed(s.dev, s.grp), NEW d \in Ctl
    PROVE  Left(s, Flush(s, d), d,
                IF s.dev[d].req = s.dev[d].lev THEN s.dev[d].req ELSE 0)
<1>1. /\ s.dev[d] \in RegState
      /\ s.dev \in DevState
  BY DEF Passed, DevState
<1>2. CASE s.dev[d].req # 0 /\ s.dev[d].req # s.dev[d].lev
  BY <1>2, PifunOffFact DEF Flush, Left
<1>3. CASE ~(s.dev[d].req # 0 /\ s.dev[d].req # s.dev[d].lev)
  <2>1. (IF s.dev[d].req = s.dev[d].lev THEN s.dev[d].req ELSE 0) = s.dev[d].req
    BY <1>3
  <2>2. [s.dev EXCEPT ![d].req = s.dev[d].req] = s.dev
    BY <1>1 DEF DevState, RegState
  <2> QED BY <1>3, <2>1, <2>2 DEF Flush, Left
<1> QED BY <1>2, <1>3

\* Storing what the request logic left behind re-establishes the invariant.
LEMMA StoreFact ==
    ASSUME IInv, NEW t \in Passed, Summed(t.dev, t.grp), Asks(t.dev),
           t.upd \/ t.grp = grp,
           Store(t)
    PROVE  IInv'
<1>1. apr \in AprState /\ tim \in TimState /\ t.grp \in GrpState /\ t.dev \in DevState
  BY DEF IInv, TypeOK, AprState, TimState, Passed
<1>2. UNCHANGED pivars /\ UNCHANGED <<apr, tim>> /\ dev' = t.dev /\ grp' = t.grp
  BY DEF Store
<1>3. \/ PiDevupd(apr, tim, t.grp)
      \/ NoDevupd /\ ReqSum(apr, tim, t.grp) = ReqSum(apr, tim, grp)
  BY DEF Store
<1>4. /\ dreq' = ReqSum(apr, tim, t.grp) /\ dreq' \in SUBSET Level
      /\ insbreak' \in BOOLEAN /\ Kept'
  BY <1>1, <1>2, <1>3, DevupdFact
<1>5. TypeOK'
  BY <1>1, <1>2, <1>4 DEF IInv, TypeOK, pivars, DevState, RegState, GrpState
<1>6. RequestsAgree'
  <2>1. grp'.rh = {dev'[d].req : d \in Rh} \ {0} /\ grp'.dte = {dev'[d].req : d \in Dte} \ {0}
    BY <1>1, <1>2, SummedFact
  <2> QED BY <1>2, <1>4, <2>1 DEF IInv, RequestsAgree, ReqSum, Asks, Heard
<1> QED BY <1>4, <1>5, <1>6 DEF IInv

-----------------------------------------------------------------------------
(* The steps                                                               *)

LEMMA InitInv == Init => IInv
<1> SUFFICES ASSUME Init PROVE IInv
  OBVIOUS
<1>1. TypeOK
  <2>1. 0 \in 0..NLev
    BY LevelAssumption
  <2>2. dev \in DevState
    BY <2>1 DEF Init, DevState, RegState
  <2>3. apr \in AprState /\ tim \in TimState /\ grp \in GrpState
    BY <2>1 DEF Init, AprState, TimState, GrpState
  <2> QED BY <2>2, <2>3 DEF Init, TypeOK, DevState, RegState, AprState, TimState, GrpState
<1>2. RequestsAgree
  BY DEF Init, RequestsAgree, Wants, ReqSum, Bit, Ctl
<1>3. Kept
  BY DEF Init, Kept, NoLostInterrupt, PiCheck, PiCheckOf
<1> QED BY <1>1, <1>2, <1>3 DEF IInv

LEMMA SelectType ==
    ASSUME NEW how, NEW mask \in SUBSET Level, NEW levs \in SUBSET Level
    PROVE  Select(how, mask, levs) \in SUBSET Level
BY DEF Select

\* The CPU's own PI registers: mr_insbreak is computed from what the step leaves.
LEMMA WrPiInv ==
    ASSUME IInv, NEW clr \in BOOLEAN, NEW sys \in {"keep", "off", "on"}, NEW rq, NEW en,
           NEW levs \in SUBSET Level, WrPi(clr, sys, rq, en, levs)
    PROVE  IInv'
<1>1. /\ pip' \in SUBSET Level /\ on' \in BOOLEAN
      /\ preq' \in SUBSET Level /\ lon' \in SUBSET Level
  BY SelectType DEF WrPi, IInv, TypeOK
<1>2. TypeOK'
  BY <1>1 DEF WrPi, IInv, TypeOK
<1>3. RequestsAgree'
  BY DEF WrPi, IInv, RequestsAgree, ReqSum
<1>4. Kept'
  BY DEF WrPi, Kept, NoLostInterrupt, PiCheck
<1> QED BY <1>2, <1>3, <1>4 DEF IInv

LEMMA DismissInv == IInv /\ Dismiss => IInv'
<1> SUFFICES ASSUME IInv, Dismiss PROVE IInv'
  OBVIOUS
<1>1. TypeOK'
  BY DEF Dismiss, IInv, TypeOK
<1>2. RequestsAgree'
  BY DEF Dismiss, IInv, RequestsAgree, ReqSum
<1>3. Kept'
  BY DEF Dismiss, Kept, NoLostInterrupt, PiCheck
<1> QED BY <1>1, <1>2, <1>3 DEF IInv

LEMMA AprPicheckInv ==
    ASSUME IInv, NEW a, NEW w \in BOOLEAN, NEW l \in 0..NLev,
           a = [apr EXCEPT !.want = w, !.lev = l],
           AprPicheck(a), UNCHANGED <<pivars, tim, dev, grp>>
    PROVE  IInv'
<1> DEFINE req == IF a.want THEN a.lev ELSE 0
           b   == [a EXCEPT !.req = req]
<1>1. /\ a.want = w /\ a.lev = l /\ a.req = apr.req
      /\ b \in AprState /\ b.want = w /\ b.lev = l /\ b.req = IF w THEN l ELSE 0
  <2>1. apr \in AprState
    BY DEF IInv, TypeOK, AprState
  <2>2. a \in AprState /\ a.want = w /\ a.lev = l /\ a.req = apr.req
    BY <2>1 DEF AprState
  <2>3. req = (IF w THEN l ELSE 0) /\ req \in 0..NLev
    BY <2>2, LevelAssumption
  <2>4. b \in AprState /\ b.want = w /\ b.lev = l /\ b.req = req
    BY <2>2, <2>3 DEF AprState
  <2> QED BY <2>2, <2>3, <2>4
<1>2. tim \in TimState /\ grp \in GrpState
  BY DEF IInv, TypeOK, TimState, GrpState
<1>3. apr' = b /\ IF b.req # apr.req THEN PiDevupd(b, tim, grp) ELSE NoDevupd
  BY <1>1 DEF AprPicheck
<1> HIDE DEF b
<1>4. \/ PiDevupd(b, tim, grp)
      \/ NoDevupd /\ ReqSum(b, tim, grp) = ReqSum(apr, tim, grp)
  BY <1>3 DEF ReqSum
<1>5. /\ dreq' = ReqSum(b, tim, grp) /\ dreq' \in SUBSET Level
      /\ insbreak' \in BOOLEAN /\ Kept'
  BY <1>1, <1>2, <1>4, DevupdFact
<1>6. TypeOK'
  BY <1>1, <1>3, <1>5 DEF IInv, TypeOK, pivars, AprState
<1>7. RequestsAgree'
  BY <1>1, <1>3, <1>5 DEF IInv, RequestsAgree, ReqSum
<1> QED BY <1>5, <1>6, <1>7 DEF IInv

\* The timer's three operations.
LEMMA TimInv ==
    ASSUME IInv, NEW t \in TimState, tim' = t,
           \/ PiDevupd(apr, t, grp)
           \/ NoDevupd /\ t.req = tim.req,
           UNCHANGED <<pivars, apr, dev, grp>>
    PROVE  IInv'
<1>1. apr \in AprState /\ grp \in GrpState
  BY DEF IInv, TypeOK, AprState, GrpState
<1>2. /\ dreq' = ReqSum(apr, t, grp) /\ dreq' \in SUBSET Level
      /\ insbreak' \in BOOLEAN /\ Kept'
  <2>1. NoDevupd /\ t.req = tim.req => ReqSum(apr, t, grp) = ReqSum(apr, tim, grp)
    BY DEF ReqSum
  <2> QED BY <1>1, <2>1, DevupdFact
<1>3. TypeOK'
  BY <1>2 DEF IInv, TypeOK, pivars, TimState
<1>4. RequestsAgree'
  BY <1>2 DEF IInv, RequestsAgree, ReqSum
<1> QED BY <1>2, <1>3, <1>4 DEF IInv

LEMMA TimTickInv == IInv /\ TimTick => IInv'
<1> SUFFICES ASSUME IInv, TimTick PROVE IInv'
  OBVIOUS
<1> DEFINE t == [tim EXCEPT !.req = @ \cup Bit(tim.lev)]
<1>1. t \in TimState
  BY LevelAssumption DEF IInv, TypeOK, TimState, Bit, Level
<1>2. t.req = {} => t.req = tim.req
  BY DEF IInv, TypeOK
<1> QED BY <1>1, <1>2, TimInv DEF TimTick

LEMMA CoTimInv == IInv /\ CoTim => IInv'
<1> SUFFICES ASSUME IInv, CoTim PROVE IInv'
  OBVIOUS
<1> DEFINE t == [tim EXCEPT !.req = {}]
<1>1. t \in TimState
  BY DEF IInv, TypeOK, TimState
<1>2. tim.req = {} => t.req = tim.req
  BY DEF IInv, TypeOK
<1> QED BY <1>1, <1>2, TimInv DEF CoTim

LEMMA WrTimeInv == ASSUME IInv, NEW l \in 0..NLev, WrTime(l) PROVE IInv'
<1> DEFINE t == [tim EXCEPT !.lev = l, !.req = IF @ # {} THEN Bit(l) ELSE {}]
<1>1. t \in TimState
  <2>1. Bit(l) \in SUBSET Level
    BY LevelAssumption DEF Bit, Level
  <2>2. tim \in TimState
    BY DEF IInv, TypeOK, TimState
  <2> QED BY <2>1, <2>2 DEF TimState
<1>2. tim.req = {} => t.req = tim.req
  BY DEF IInv, TypeOK
<1> QED BY <1>1, <1>2, TimInv DEF WrTime

\* What d's step hands to Store: d's registers are v but for the request, which is q;
\* the other devices, and any mask pi_devupd is not told of, are as they were.
Handed(t, d, v, q) ==
    /\ t \in Passed /\ Summed(t.dev, t.grp)
    /\ t.upd \/ t.grp = grp
    /\ t.dev = [dev EXCEPT ![d] = [v EXCEPT !.req = q]]

LEMMA TouchFact ==
    ASSUME IInv, NEW d \in Ctl, NEW v \in RegState, v.req = dev[d].req
    PROVE  /\ Handed(Touched(d, v), d, v, v.req)
           /\ Touched(d, v).dev[d] = v
           /\ Touched(d, v).grp = grp /\ Touched(d, v).upd = FALSE
<1> DEFINE s  == Touched(d, v)
           dv == [dev EXCEPT ![d] = v]
<1>1. dev \in DevState /\ grp \in GrpState
  BY DEF IInv, TypeOK, DevState, RegState, GrpState
<1>2. s = [dev |-> dv, grp |-> grp, upd |-> FALSE]
  BY DEF Touched
<1> HIDE DEF s
<1>3. dv \in DevState /\ dv[d] = v /\ \A e \in Ctl \ {d} : dv[e] = dev[e]
  BY <1>1 DEF DevState
<1>4. Summed(dev, grp)
  BY <1>1, SummedFact DEF IInv, RequestsAgree
<1>5. [v EXCEPT !.req = v.req] = v
  BY DEF RegState
<1>6. \A e \in Ctl : dv[e].req = dev[e].req
  BY <1>3
<1>7. Summed(dv, grp)
  <2> HIDE DEF dv
  <2> QED BY <1>4, <1>6 DEF Summed, Ctl
<1>8. s.dev = dv /\ s.grp = grp /\ s.upd = FALSE /\ s \in Passed
  BY <1>1, <1>2, <1>3 DEF Passed
<1>9. Handed(s, d, v, v.req)
  BY <1>5, <1>7, <1>8 DEF Handed
<1> QED BY <1>3, <1>8, <1>9 DEF s

\* A further change of d's request.
LEMMA HandedOn ==
    ASSUME IInv, NEW d \in Ctl, NEW v \in RegState, NEW q, NEW s, NEW t, NEW p,
           Handed(s, d, v, q), Left(s, t, d, p)
    PROVE  Handed(t, d, v, p)
<1>1. dev \in DevState
  BY DEF IInv, TypeOK, DevState, RegState
<1>2. [[dev EXCEPT ![d] = [v EXCEPT !.req = q]] EXCEPT ![d].req = p]
         = [dev EXCEPT ![d] = [v EXCEPT !.req = p]]
  BY <1>1 DEF DevState, RegState
<1> QED BY <1>2 DEF Handed, Left

LEMMA RaisedFact ==
    ASSUME IInv, NEW d \in Ctl, NEW v \in RegState, v.req = dev[d].req
    PROVE  Handed(Raised(d, v), d, [v EXCEPT !.cond = TRUE],
                  IF v.req = 0 THEN v.lev ELSE v.req)
<1> DEFINE w == [v EXCEPT !.cond = TRUE]
           s == Touched(d, w)
<1>1. w \in RegState /\ w.req = v.req /\ w.lev = v.lev
  BY DEF RegState
<1> HIDE DEF w
<1>2. Handed(s, d, w, w.req) /\ s.dev[d] = w
  BY <1>1, TouchFact
<1> HIDE DEF s
<1>3. Left(s, DevPi(s, d), d, IF w.req = 0 THEN w.lev ELSE w.req)
  BY <1>2, DevPiFact DEF Handed
<1>4. Handed(DevPi(s, d), d, w, IF w.req = 0 THEN w.lev ELSE w.req)
  BY <1>1, <1>2, <1>3, HandedOn
<1> QED BY <1>1, <1>4 DEF Raised, s, w

LEMMA FailedFact ==
    ASSUME IInv, NEW d \in Ctl, NEW v \in RegState, v.req = dev[d].req
    PROVE  Handed(Failed(d, v), d, [v EXCEPT !.rae = TRUE],
                  IF v.req = 0 /\ ~v.draes THEN v.lev ELSE v.req)
<1> DEFINE w == [v EXCEPT !.rae = TRUE]
           s == Touched(d, w)
<1>1. w \in RegState /\ w.req = v.req /\ w.lev = v.lev
  BY DEF RegState
<1> HIDE DEF w
<1>2. Handed(s, d, w, w.req) /\ s.dev[d] = w
  BY <1>1, TouchFact
<1> HIDE DEF s
<1>3. Left(s, DevPi(s, d), d, IF w.req = 0 THEN w.lev ELSE w.req)
  BY <1>2, DevPiFact DEF Handed
<1>4. Handed(DevPi(s, d), d, w, IF w.req = 0 THEN w.lev ELSE w.req)
  BY <1>1, <1>2, <1>3, HandedOn
<1>5. Failed(d, v) = IF v.draes THEN s ELSE DevPi(s, d)
  BY DEF Failed, s, w
<1>6. Handed(Failed(d, v), d, w, IF v.req = 0 /\ ~v.draes THEN v.lev ELSE v.req)
  BY <1>1, <1>2, <1>4, <1>5
<1> QED BY <1>6 DEF w

LEMMA LoweredFact ==
    ASSUME IInv, NEW d \in Ctl, NEW v \in RegState, v.req = dev[d].req
    PROVE  Handed(Lowered(d, v), d, [v EXCEPT !.cond = FALSE],
                  IF v.rae /\ ~v.draes THEN v.req ELSE 0)
<1> DEFINE w == [v EXCEPT !.cond = FALSE]
           s == Touched(d, w)
           q == IF ~Wants(w) THEN 0 ELSE IF w.req = 0 THEN w.lev ELSE w.req
<1>1. /\ w \in RegState /\ w.req = v.req /\ w.lev = v.lev
      /\ Wants(w) <=> v.rae /\ ~v.draes
  BY DEF RegState, Wants
<1> HIDE DEF w
<1>2. Handed(s, d, w, w.req) /\ s.dev[d] = w
  BY <1>1, TouchFact
<1> HIDE DEF s
<1>3. Left(s, DevPicheck(s, d), d, q)
  BY <1>2, DevPicheckFact DEF Handed
<1>4. Handed(DevPicheck(s, d), d, w, q)
  BY <1>1, <1>2, <1>3, HandedOn
<1>5. Lowered(d, v) = IF v.req # 0 THEN DevPicheck(s, d) ELSE s
  BY DEF Lowered, s, w
<1>6. CASE v.req = 0
  BY <1>1, <1>2, <1>5, <1>6 DEF w
<1>7. CASE v.req # 0
  <2>1. q = IF v.rae /\ ~v.draes THEN v.req ELSE 0
    BY <1>1, <1>7
  <2> QED BY <1>4, <1>5, <1>7, <2>1 DEF w
<1> QED BY <1>6, <1>7

LEMMA ConoFact ==
    ASSUME IInv, NEW d \in Ctl, NEW v \in RegState, v.req = dev[d].req
    PROVE  Handed(DevPicheck(Flush(Touched(d, v), d), d), d, v, IF Wants(v) THEN v.lev ELSE 0)
<1> DEFINE s == Touched(d, v)
           f == Flush(s, d)
           p == IF v.req = v.lev THEN v.req ELSE 0
           w == [v EXCEPT !.req = p]
           t == DevPicheck(f, d)
<1>1. Handed(s, d, v, v.req) /\ s.dev[d] = v
  BY TouchFact
<1> HIDE DEF s
<1>2. Left(s, f, d, p)
  BY <1>1, FlushFact DEF Handed
<1>3. Handed(f, d, v, p)
  BY <1>1, <1>2, HandedOn
<1>4. f.dev[d] = w
  BY <1>3 DEF Handed, IInv, TypeOK
<1>5. w.req = p /\ w.lev = v.lev /\ (Wants(w) <=> Wants(v))
  BY DEF RegState, Wants
<1> HIDE DEF f, w
<1>6. Left(f, t, d, IF ~Wants(w) THEN 0 ELSE IF w.req = 0 THEN w.lev ELSE w.req)
  BY <1>3, <1>4, DevPicheckFact DEF Handed
<1>7. Handed(t, d, v, IF ~Wants(w) THEN 0 ELSE IF w.req = 0 THEN w.lev ELSE w.req)
  BY <1>3, <1>6, HandedOn
<1> QED BY <1>5, <1>7 DEF s, f

\* A step of d that hands on a request that is heard, or an error that was masked, keeps
\* the invariant, and leaves no other error unheard.
LEMMA HandedInv ==
    ASSUME IInv, NEW d \in Ctl, NEW v \in RegState, NEW q \in 0..NLev, NEW t,
           Handed(t, d, v, q), Store(t), Heard([v EXCEPT !.req = q]),
           Unheard([v EXCEPT !.req = q]) =>
               Unheard(dev[d]) \/ (dev[d].rae /\ dev[d].draes /\ ~v.draes)
    PROVE  IInv' /\ NoneLost
<1> DEFINE w == [v EXCEPT !.req = q]
<1>1. dev \in DevState
  BY DEF IInv, TypeOK, DevState, RegState
<1>2. w \in RegState /\ w.draes = v.draes
  BY DEF RegState
<1> HIDE DEF w
<1>3. t.dev = [dev EXCEPT ![d] = w]
  BY DEF Handed, w
<1>4. t.dev[d] = w /\ \A e \in Ctl \ {d} : t.dev[e] = dev[e]
  BY <1>1, <1>3 DEF DevState
<1>5. Asks(t.dev)
  BY <1>4 DEF Asks, Heard, IInv, RequestsAgree, w
<1>6. IInv'
  BY <1>5, StoreFact DEF Handed
<1>7. NoneLost
  <2>1. dev' = t.dev
    BY DEF Store
  <2>2. ASSUME NEW e \in Ctl, Unheard(dev'[e]), ~Unheard(dev[e])
        PROVE  dev[e].rae /\ dev[e].draes /\ ~dev'[e].draes
    <3>1. e = d
      BY <1>4, <2>1, <2>2
    <3> QED BY <1>2, <1>4, <2>1, <2>2, <3>1 DEF w
  <2> QED BY <2>2 DEF NoneLost
<1> QED BY <1>6, <1>7

LEMMA DevConoInv ==
    ASSUME IInv, NEW d \in Ctl, NEW c \in BOOLEAN, NEW how, NEW l \in 0..NLev,
           DevCono(d, c, how, l)
    PROVE  IInv' /\ NoneLost
<1> DEFINE v == [dev[d] EXCEPT !.cond = c, !.lev = l, !.rae = @ /\ how = "keep",
                               !.draes = @ /\ how # "clear"]
           q == IF Wants(v) THEN v.lev ELSE 0
<1>1. v \in RegState /\ v.req = dev[d].req /\ v.lev = l
  BY DEF IInv, TypeOK, RegState
<1>2. Store(DevPicheck(Flush(Touched(d, v), d), d))
  BY DEF DevCono
<1> HIDE DEF v
<1>3. Handed(DevPicheck(Flush(Touched(d, v), d), d), d, v, q)
  BY <1>1, ConoFact
<1>4. q \in 0..NLev
  BY <1>1, LevelAssumption
<1>5. Heard([v EXCEPT !.req = q]) /\ ~Unheard([v EXCEPT !.req = q])
  BY <1>1 DEF RegState, Heard, Unheard, Wants
<1> HIDE DEF q
<1> QED BY <1>1, <1>2, <1>3, <1>4, <1>5, HandedInv

\* d's registers before and, but for the request, after.
LEMMA RaisedInv ==
    ASSUME IInv, NEW d \in Ctl, NEW m \in BOOLEAN, NEW v, v = [dev[d] EXCEPT !.draes = m],
           Store(Raised(d, v))
    PROVE  IInv' /\ NoneLost
<1> DEFINE w == [v EXCEPT !.cond = TRUE]
           q == IF v.req = 0 THEN v.lev ELSE v.req
<1>1. dev[d] \in RegState /\ Heard(dev[d])
  BY DEF IInv, TypeOK, RegState, RequestsAgree, Heard
<1>2. v \in RegState /\ v.req = dev[d].req /\ v.lev = dev[d].lev
  BY <1>1 DEF RegState
<1>3. w \in RegState /\ q \in 0..NLev
  BY <1>2 DEF RegState
<1>4. Handed(Raised(d, v), d, w, q)
  BY <1>2, RaisedFact
<1>5. q = v.lev
  BY <1>1, <1>2 DEF Heard, Unheard
<1>6. Heard([w EXCEPT !.req = q]) /\ ~Unheard([w EXCEPT !.req = q])
  BY <1>2, <1>5 DEF RegState, Heard, Unheard, Wants
<1> HIDE DEF w, q
<1> QED BY <1>3, <1>4, <1>6, HandedInv

LEMMA FailedInv ==
    ASSUME IInv, NEW d \in Ctl, NEW m \in BOOLEAN, NEW v, v = [dev[d] EXCEPT !.draes = m],
           m # dev[d].draes => ~(dev[d].rae /\ ~dev[d].draes),
           Store(Failed(d, v))
    PROVE  IInv' /\ NoneLost
<1> DEFINE w == [v EXCEPT !.rae = TRUE]
           q == IF v.req = 0 /\ ~v.draes THEN v.lev ELSE v.req
<1>1. dev[d] \in RegState /\ Heard(dev[d])
  BY DEF IInv, TypeOK, RegState, RequestsAgree, Heard
<1>2. /\ v \in RegState /\ v.req = dev[d].req /\ v.lev = dev[d].lev
      /\ v.cond = dev[d].cond /\ v.rae = dev[d].rae /\ v.draes = m
  BY <1>1 DEF RegState
<1>3. w \in RegState /\ q \in 0..NLev
  BY <1>2 DEF RegState
<1>4. Handed(Failed(d, v), d, w, q)
  BY <1>2, FailedFact
<1>5. Heard([w EXCEPT !.req = q]) /\ ~Unheard([w EXCEPT !.req = q])
  BY <1>1, <1>2 DEF RegState, Heard, Unheard, Wants
<1> HIDE DEF w, q
<1> QED BY <1>3, <1>4, <1>5, HandedInv

LEMMA LoweredInv ==
    ASSUME IInv, NEW d \in Ctl, NEW m \in BOOLEAN, NEW v, v = [dev[d] EXCEPT !.draes = m],
           m # dev[d].draes => ~(dev[d].rae /\ ~dev[d].draes),
           dev[d].cond, Store(Lowered(d, v))
    PROVE  IInv' /\ NoneLost
<1> DEFINE w == [v EXCEPT !.cond = FALSE]
           q == IF v.rae /\ ~v.draes THEN v.req ELSE 0
<1>1. dev[d] \in RegState /\ Heard(dev[d])
  BY DEF IInv, TypeOK, RegState, RequestsAgree, Heard
<1>2. /\ v \in RegState /\ v.req = dev[d].req /\ v.lev = dev[d].lev
      /\ v.cond = dev[d].cond /\ v.rae = dev[d].rae /\ v.draes = m
  BY <1>1 DEF RegState
<1>3. w \in RegState
  BY <1>2 DEF RegState
<1>4. q \in 0..NLev
  <2>1. v.req \in 0..NLev /\ 0 \in 0..NLev
    BY <1>2, LevelAssumption DEF RegState
  <2> QED BY <2>1
<1>5. Handed(Lowered(d, v), d, w, q)
  BY <1>2, LoweredFact
<1>6. dev[d].req = dev[d].lev
  BY <1>1 DEF Heard, Unheard, Wants
<1>7. Heard([w EXCEPT !.req = q]) /\ ~Unheard([w EXCEPT !.req = q])
  BY <1>2, <1>6 DEF RegState, Heard, Unheard, Wants
<1> HIDE DEF w, q
<1> QED BY <1>3, <1>4, <1>5, <1>7, HandedInv

\* The registers as they are are a case of DRAES replaced by itself.
LEMMA SameMask ==
    ASSUME IInv, NEW d \in Ctl
    PROVE  dev[d].draes \in BOOLEAN /\ dev[d] = [dev[d] EXCEPT !.draes = dev[d].draes]
BY DEF IInv, TypeOK

LEMMA DataoInv ==
    ASSUME IInv, NEW d \in Ctl, NEW m \in BOOLEAN, Datao(d, m)
    PROVE  IInv' /\ NoneLost
<1> DEFINE v == [dev[d] EXCEPT !.draes = m]
<1>1. CASE Store(Touched(d, v))
  <2>1. dev[d] \in RegState /\ Heard(dev[d])
    BY DEF IInv, TypeOK, RegState, RequestsAgree, Heard
  <2>2. /\ v \in RegState /\ v.req = dev[d].req /\ v.lev = dev[d].lev
        /\ v.cond = dev[d].cond /\ v.rae = dev[d].rae /\ v.draes = m
        /\ [v EXCEPT !.req = v.req] = v /\ v.req \in 0..NLev
    BY <2>1 DEF RegState
  <2>3. Handed(Touched(d, v), d, v, v.req)
    BY <2>2, TouchFact
  <2>4. /\ Heard(v)
        /\ Unheard(v) => Unheard(dev[d]) \/ (dev[d].rae /\ dev[d].draes /\ ~v.draes)
    BY <2>1, <2>2 DEF Datao, Heard, Unheard, Wants
  <2> HIDE DEF v
  <2> QED BY <1>1, <2>2, <2>3, <2>4, HandedInv
<1>2. CASE Store(Failed(d, v))
  BY <1>2, FailedInv DEF Datao
<1>3. CASE dev[d].cond /\ Store(Lowered(d, v))
  BY <1>3, LoweredInv DEF Datao
<1>4. CASE Store(Raised(d, v))
  BY <1>4, RaisedInv
<1> QED BY <1>1, <1>2, <1>3, <1>4 DEF Datao

LEMMA PiXctInv == IInv /\ PiXct => IInv'
<1> SUFFICES ASSUME IInv, PiXct PROVE IInv'
  OBVIOUS
<1> DEFINE top == TopOf(PiCheck)
<1>1. /\ on \in BOOLEAN /\ lon \in SUBSET Level /\ preq \in SUBSET Level
      /\ pip \in SUBSET Level /\ dreq \in SUBSET Level
  BY DEF IInv, TypeOK
<1>2. PiCheck \in SUBSET Level /\ PiCheck # {}
  BY <1>1, PiCheckFact DEF PiCheck, PiXct
<1>3. top \in PiCheck /\ \A m \in PiCheck : top <= m
  BY <1>2, TopOfFact
<1> HIDE DEF top
<1>4. UNCHANGED <<on, lon, preq, dreq, apr, tim, dev, grp>> /\ ~insbreak'
  BY DEF PiXct
<1>5. pip' \in SUBSET Level
  BY <1>1, <1>2, <1>3 DEF PiXct, top
<1>6. TypeOK'
  BY <1>4, <1>5 DEF PiXct, IInv, TypeOK
<1>7. RequestsAgree'
  BY <1>4 DEF IInv, RequestsAgree, ReqSum
<1>8. ASSUME ~DiagSkip PROVE Kept'
  <2>1. pip' = pip \cup {top}
    BY <1>8 DEF PiXct, top
  <2>2. PiCheck = ((dreq \cap lon) \cup preq) \ pip
    BY <1>1, <1>2, PiCheckFact DEF PiCheck
  <2>3. ASSUME NEW x \in ((dreq \cap lon) \cup preq) \ pip', \A m \in pip' : x < m PROVE FALSE
    <3>1. x \in PiCheck /\ x < top
      BY <2>1, <2>2, <2>3
    <3>2. x \in Int /\ top \in Int /\ top <= x
      BY <1>2, <1>3, <3>1 DEF Level
    <3> QED BY <3>1, <3>2
  <2>4. PiCheckOf(on, lon, preq, pip', dreq) = {}
    BY <1>1, <1>5, <2>3, PiCheckFact
  <2> QED BY <1>4, <2>4 DEF PiCheck, Kept, NoLostInterrupt
<1>9. Kept'
  BY <1>8 DEF Kept
<1> QED BY <1>6, <1>7, <1>9 DEF IInv

LEMMA NothingToTakeInv == IInv /\ NothingToTake => IInv'
<1> SUFFICES ASSUME IInv, NothingToTake PROVE IInv'
  OBVIOUS
<1>1. TypeOK'
  BY DEF NothingToTake, pivars, IInv, TypeOK
<1>2. RequestsAgree'
  BY DEF NothingToTake, IInv, RequestsAgree, ReqSum
<1>3. Kept'
  BY DEF NothingToTake, pivars, Kept, NoLostInterrupt, PiCheck
<1> QED BY <1>1, <1>2, <1>3 DEF IInv

LEMMA StutterInv == IInv /\ UNCHANGED vars => IInv'
<1> SUFFICES ASSUME IInv, UNCHANGED vars PROVE IInv'
  OBVIOUS
<1>1. TypeOK'
  BY DEF vars, pivars, IInv, TypeOK
<1>2. RequestsAgree'
  BY DEF vars, IInv, RequestsAgree, ReqSum
<1>3. Kept'
  BY DEF vars, pivars, IInv, Kept, NoLostInterrupt, PiCheck
<1> QED BY <1>1, <1>2, <1>3 DEF IInv

LEMMA StepInv == IInv /\ [Next]_vars => IInv'
<1> SUFFICES ASSUME IInv, [Next]_vars PROVE IInv'
  OBVIOUS
<1>0. /\ \A d \in Ctl : PIA[d] \subseteq 0..NLev
      /\ CpuPIA \subseteq 0..NLev /\ Rh20 \subseteq Ctl
      /\ Selections \subseteq SUBSET Level
  BY PiaAssumption, DeviceAssumption, SelectionAssumption DEF Ctl
<1>1. ASSUME NEW clr \in BOOLEAN, NEW sys \in {"keep", "off", "on"},
             NEW rq \in {"keep", "off", "on"}, NEW en \in {"keep", "off", "on"},
             NEW levs \in Selections, WrPi(clr, sys, rq, en, levs)
      PROVE  IInv'
  BY <1>0, <1>1, WrPiInv
<1>2. CASE Dismiss
  BY <1>2, DismissInv
<1>3. ASSUME NEW w \in BOOLEAN, NEW l \in CpuPIA, WrApr(w, l) PROVE IInv'
  BY <1>0, <1>3, AprPicheckInv DEF WrApr
<1>4. CASE AprFlag
  <2>1. apr.lev \in 0..NLev
    BY DEF IInv, TypeOK
  <2>2. [apr EXCEPT !.want = TRUE] = [apr EXCEPT !.want = TRUE, !.lev = apr.lev]
    BY DEF IInv, TypeOK
  <2> QED BY <1>4, <2>1, <2>2, AprPicheckInv DEF AprFlag
<1>5. CASE TimTick
  BY <1>5, TimTickInv
<1>6. CASE CoTim
  BY <1>6, CoTimInv
<1>7. ASSUME NEW l \in CpuPIA, WrTime(l) PROVE IInv'
  BY <1>0, <1>7, WrTimeInv
<1>8. ASSUME NEW d \in Ctl, NEW c \in BOOLEAN, NEW how, NEW l \in PIA[d],
             DevCono(d, c, how, l)
      PROVE  IInv'
  BY <1>0, <1>8, DevConoInv
<1>9. ASSUME NEW d \in Ctl, DevRaise(d) PROVE IInv'
  BY <1>9, SameMask, RaisedInv DEF DevRaise
<1>10. ASSUME NEW d \in Ctl, DevLower(d) PROVE IInv'
  BY <1>10, SameMask, LoweredInv DEF DevLower
<1>11. ASSUME NEW d \in Rh20, Datai(d) PROVE IInv'
  BY <1>0, <1>11, SameMask, FailedInv DEF Datai
<1>12. ASSUME NEW d \in Rh20, NEW m \in BOOLEAN, Datao(d, m) PROVE IInv'
  BY <1>0, <1>12, DataoInv
<1>13. CASE PiXct
  BY <1>13, PiXctInv
<1>14. CASE NothingToTake
  BY <1>14, NothingToTakeInv
<1>15. CASE UNCHANGED vars
  BY <1>15, StutterInv
<1> QED
  BY <1>1, <1>2, <1>3, <1>4, <1>5, <1>6, <1>7, <1>8, <1>9, <1>10, <1>11, <1>12, <1>13,
     <1>14, <1>15 DEF Next

LEMMA Invariance == Spec => []IInv
BY InitInv, StepInv, PTL DEF Spec

-----------------------------------------------------------------------------
(* The theorems                                                            *)

\* Every PI register keeps its type: masks hold levels only, never "no channel" (0).
THEOREM TypeCorrect == Spec => []TypeOK
<1>1. IInv => TypeOK
  BY DEF IInv
<1> QED BY <1>1, Invariance, PTL

\* The request caches of every device, group, the timer, the APR and the sum agree, but
\* for an RH20 not heard of an error that a DATAO unmasked (ErrorsHeard).
THEOREM CachesAgree == Spec => []RequestsAgree
<1>1. IInv => RequestsAgree
  BY DEF IInv
<1> QED BY <1>1, Invariance, PTL

\* However channels, masks and conditions change, the only error an RH20 is silent about
\* is one that a DATAO unmasked: the exception of CachesAgree has no other source.
THEOREM ErrorsHeard == Spec => OnlyUnmasking
<1> DEFINE A == \A d \in Ctl :
                   Unheard(dev[d])' /\ ~Unheard(dev[d]) =>
                       dev[d].rae /\ dev[d].draes /\ ~dev'[d].draes
<1>1. ASSUME IInv, [Next]_vars PROVE A
  <2>0. /\ \A d \in Ctl : PIA[d] \subseteq 0..NLev
        /\ Rh20 \subseteq Ctl
    BY PiaAssumption, DeviceAssumption DEF Ctl
  <2>1. NoneLost => A
    BY DEF NoneLost, Unheard
  <2>2. dev' = dev => A
    BY DEF Unheard
  <2>3. ASSUME NEW d \in Ctl, NEW c \in BOOLEAN, NEW how, NEW l \in PIA[d],
               DevCono(d, c, how, l)
        PROVE  NoneLost
    BY <1>1, <2>0, <2>3, DevConoInv
  <2>4. ASSUME NEW d \in Ctl, DevRaise(d) PROVE NoneLost
    BY <1>1, <2>4, SameMask, RaisedInv DEF DevRaise
  <2>5. ASSUME NEW d \in Ctl, DevLower(d) PROVE NoneLost
    BY <1>1, <2>5, SameMask, LoweredInv DEF DevLower
  <2>6. ASSUME NEW d \in Rh20, Datai(d) PROVE NoneLost
    BY <1>1, <2>0, <2>6, SameMask, FailedInv DEF Datai
  <2>7. ASSUME NEW d \in Rh20, NEW m \in BOOLEAN, Datao(d, m) PROVE NoneLost
    BY <1>1, <2>0, <2>7, DataoInv
  <2>8. ASSUME NEW clr \in BOOLEAN, NEW sys \in {"keep", "off", "on"},
               NEW rq \in {"keep", "off", "on"}, NEW en \in {"keep", "off", "on"},
               NEW levs \in Selections, WrPi(clr, sys, rq, en, levs)
        PROVE  dev' = dev
    BY <2>8 DEF WrPi
  <2>9. CASE \/ Dismiss \/ PiXct \/ NothingToTake \/ UNCHANGED vars
             \/ \E w \in BOOLEAN, l \in CpuPIA : WrApr(w, l)
             \/ AprFlag \/ TimTick \/ CoTim
             \/ \E l \in CpuPIA : WrTime(l)
    <3>1. dev' = dev
      BY <2>9 DEF Dismiss, PiXct, NothingToTake, vars, WrApr, AprFlag, TimTick, CoTim,
                  WrTime
    <3> QED BY <2>2, <3>1
  <2> HIDE DEF A
  <2> QED BY <1>1, <2>1, <2>2, <2>3, <2>4, <2>5, <2>6, <2>7, <2>8, <2>9 DEF Next
<1>2. IInv /\ [Next]_vars => [A]_vars
  BY <1>1
<1> HIDE DEF A
<1>3. Spec => [][A]_vars
  BY <1>2, Invariance, PTL DEF Spec
<1> QED BY <1>3 DEF OnlyUnmasking, A

\* As long as no diagnostic word sits in the EPT, an interrupt that pi_check would take
\* is always announced by mr_insbreak, with any number of levels and devices.
THEOREM InterruptAnnounced == ~DiagSkip => (Spec => []NoLostInterrupt)
<1>1. ~DiagSkip /\ IInv => NoLostInterrupt
  BY DEF IInv, Kept
<1>2. ASSUME ~DiagSkip PROVE IInv => NoLostInterrupt
  BY <1>1, <1>2
<1>3. ASSUME ~DiagSkip PROVE Spec => []NoLostInterrupt
  BY <1>2, <1>3, Invariance, PTL
<1> QED BY <1>3

\* pi_xct always finds who asked: its search agrees with the caches the sum came from.
LEMMA SourceFound == IInv => NoSpuriousPanic
<1> SUFFICES ASSUME IInv, PiCheck # {} PROVE SourceOf(TopOf(PiCheck)) # "panic"
  BY DEF NoSpuriousPanic
<1> DEFINE l == TopOf(PiCheck)
<1>1. /\ on \in BOOLEAN /\ lon \in SUBSET Level /\ preq \in SUBSET Level
      /\ pip \in SUBSET Level /\ dreq \in SUBSET Level
  BY DEF IInv, TypeOK
<1>2. PiCheck \in SUBSET Level /\ PiCheck = ((dreq \cap lon) \cup preq) \ pip
  BY <1>1, PiCheckFact DEF PiCheck
<1>3. l \in PiCheck
  BY <1>2, TopOfFact
<1> HIDE DEF l
<1>4. l # 0 /\ (l \in preq \/ (l \in dreq /\ l \in lon))
  BY <1>2, <1>3 DEF Level
<1>5. CASE l \in preq
  BY <1>5 DEF SourceOf, l
<1>6. CASE l \notin preq
  <2>1. l \in dreq /\ l \in lon /\ dreq = ReqSum(apr, tim, grp)
    BY <1>4, <1>6 DEF IInv, RequestsAgree
  <2>2. l \in Bit(apr.req) \/ l \in tim.req \/ l \in grp.rh \/ l \in grp.dte
    BY <2>1 DEF ReqSum
  <2>3. l \in Bit(apr.req) => l = apr.req
    BY DEF Bit
  <2>4. /\ l \in grp.rh => \E d \in Rh : dev[d].req = l
        /\ l \in grp.dte => \E d \in Dte : dev[d].req = l
    BY DEF IInv, RequestsAgree
  <2>5. SourceOf(l) # "panic"
    BY <2>1, <2>2, <2>3, <2>4 DEF SourceOf
  <2> QED BY <2>5 DEF l
<1> QED BY <1>5, <1>6

\* pi_xct never reaches one of its "spurious interrupt" panics.
THEOREM PanicsAreDead == Spec => []NoSpuriousPanic
BY SourceFound, Invariance, PTL

\* A level interrupts only above every level in progress, and the one dismissed is the
\* one entered last: whatever the monitor does short of clearing the whole PI system,
\* the levels in progress form a stack.
THEOREM LevelsNest == Spec => Nests
<1> DEFINE A == \/ pip' = pip
                \/ pip' = {}
                \/ \E l \in Level \ pip : pip' = pip \cup {l} /\ \A m \in pip : l < m
                \/ \E l \in pip : pip' = pip \ {l} /\ \A m \in pip : l <= m
<1>1. ASSUME IInv, [Next]_vars PROVE A
  <2>1. /\ on \in BOOLEAN /\ lon \in SUBSET Level /\ preq \in SUBSET Level
        /\ pip \in SUBSET Level /\ dreq \in SUBSET Level
    BY <1>1 DEF IInv, TypeOK
  <2>2. CASE PiXct
    <3> DEFINE l == TopOf(PiCheck)
               levs == ((dreq \cap lon) \cup preq) \ pip
    <3>1. PiCheck # {} /\ PiCheck = levs /\ levs \in SUBSET Level
      BY <2>1, <2>2, PiCheckFact DEF PiXct, PiCheck
    <3>2. PICK x \in levs : \A m \in pip : x < m
      BY <2>1, <3>1, PiCheckFact DEF PiCheck
    <3>3. l \in levs /\ \A m \in levs : l <= m
      BY <3>1, TopOfFact
    <3>4. l \in Level \ pip
      BY <3>1, <3>3
    <3>5. ASSUME NEW m \in pip PROVE l < m
      <4>1. l \in Int /\ x \in Int /\ m \in Int
        BY <2>1, <3>1, <3>2, <3>4 DEF Level
      <4> HIDE DEF l
      <4> QED BY <3>2, <3>3, <3>5, <4>1
    <3>6. pip' = pip \cup {l} \/ pip' = pip
      BY <2>2 DEF PiXct
    <3> HIDE DEF l
    <3> QED BY <3>4, <3>5, <3>6
  <2>3. CASE Dismiss
    <3>1. TopOf(pip) \in pip /\ \A m \in pip : TopOf(pip) <= m
      BY <2>1, <2>3, TopOfFact DEF Dismiss
    <3> QED BY <2>3, <3>1 DEF Dismiss
  <2>4. ASSUME NEW clr \in BOOLEAN, NEW sys \in {"keep", "off", "on"},
               NEW rq \in {"keep", "off", "on"}, NEW en \in {"keep", "off", "on"},
               NEW levs \in Selections, WrPi(clr, sys, rq, en, levs)
        PROVE  pip' = pip \/ pip' = {}
    BY <2>4 DEF WrPi
  <2>5. CASE NothingToTake \/ UNCHANGED vars
    BY <2>5 DEF NothingToTake, vars, pivars
  <2>6. CASE \/ \E w \in BOOLEAN, l \in CpuPIA : WrApr(w, l)
             \/ AprFlag \/ TimTick \/ CoTim
             \/ \E l \in CpuPIA : WrTime(l)
    BY <2>6 DEF WrApr, AprFlag, TimTick, CoTim, WrTime, pivars
  <2>7. ASSUME NEW d \in Ctl,
               \/ \E c \in BOOLEAN, how \in {"keep", "crae", "clear"}, l \in PIA[d] :
                     DevCono(d, c, how, l)
               \/ DevRaise(d) \/ DevLower(d) \/ Datai(d)
               \/ \E m \in BOOLEAN : Datao(d, m)
        PROVE  pip' = pip
    BY <2>7 DEF DevCono, DevRaise, DevLower, Datai, Datao, Store, pivars
  <2>8. pip' = pip \/ pip' = {} => A
    OBVIOUS
  <2> HIDE DEF A
  <2> QED BY <1>1, <2>2, <2>3, <2>4, <2>5, <2>6, <2>7, <2>8, DeviceAssumption DEF Next, Ctl
<1>2. IInv /\ [Next]_vars => [A]_vars
  BY <1>1
<1> HIDE DEF A
<1>3. Spec => [][A]_vars
  BY <1>2, Invariance, PTL DEF Spec
<1> QED BY <1>3 DEF Nests, A
=============================================================================
