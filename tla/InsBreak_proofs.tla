--------------------------- MODULE InsBreak_proofs ---------------------------
(***************************************************************************)
(* Proofs about InsBreak, for any devices, signals and polled flags, when  *)
(* os_swap is indivisible.                                                 *)
(*                                                                         *)
(* The idea of the invariant: during a pass of apr_check mr_insbreak is 2, *)
(* or something has come in and it is 1.  While it is still 2, every       *)
(* source the pass has already been to is clear, because raising a source  *)
(* raises mr_insbreak too.  So when INSBRK_ACTEND finds a 2 there is       *)
(* nothing left, and when it finds anything else the pass is repeated.     *)
(***************************************************************************)
EXTENDS InsBreak, TLAPS

-----------------------------------------------------------------------------
(* Names                                                                   *)

LEMMA NameFact ==
    /\ "insbreak" \in Flag /\ "insbreak" \notin Source /\ "insbreak" \notin Sig
    /\ Source \subseteq Flag /\ Sig \subseteq Flag /\ Source \cap Sig = {}
    /\ "fecty" \in Source /\ "evsig" \in Source
BY NameAssumption DEF Flag, Source

LEMMA PolledFact ==
    /\ Len(Polled) \in Nat
    /\ \A i \in 1..Len(Polled) : /\ Polled[i] \in Source
                                 /\ Polled[i] \notin {"insbreak", "fecty", "evsig"}
                                 /\ Polled[i] \notin Sig
    /\ \A f \in Source \ {"fecty", "evsig"} : \E i \in 1..Len(Polled) : Polled[i] = f
BY NameAssumption DEF Source

LEMMA ListFact ==
    /\ Len(SigList) \in Nat
    /\ \A i \in 1..Len(SigList) : SigList[i] \in Sig
    /\ \A s \in Sig : /\ Len(RegList[s]) \in Nat
                      /\ \A i \in 1..Len(RegList[s]) : RegList[s][i] \in Dev
<1>1. SigList \in Seq(Sig)
  BY ListAssumption
<1>2. Len(SigList) \in Nat /\ \A i \in 1..Len(SigList) : SigList[i] \in Sig
  BY <1>1
<1>3. ASSUME NEW s \in Sig
      PROVE  /\ Len(RegList[s]) \in Nat
             /\ \A i \in 1..Len(RegList[s]) : RegList[s][i] \in Dev
  <2>1. RegList[s] \in Seq(Dev)
    BY ListAssumption
  <2> QED BY <2>1
<1> QED BY <1>2, <1>3

-----------------------------------------------------------------------------
(* Types and cursors                                                       *)

\* Where the cursors are when apr_check and dev_evcheck use them.
CursorOK ==
    /\ di # 0
    /\ pc \in {"evs.act", "evr", "evr.call", "evs.end", "evs.next"} => si <= Len(SigList)
    /\ pc = "evr.call" => di <= Len(RegList[SigList[si]])
    /\ pc \in {"pol.act", "pol.work", "pol.end", "pol.next"} => pol <= Len(Polled)
    /\ pc \in {"evsig.act", "evs", "evs.act", "evr", "evr.call", "evs.end",
               "evs.next", "evsig.end"} => pol = 1

TInv == TypeOK /\ CursorOK

LEMMA SetFact ==
    ASSUME TypeOK, NEW fs \in SUBSET Flag, INTF_SET(fs)
    PROVE  /\ flag' \in [Flag -> 0..2]
           /\ \A f \in Flag : flag'[f] = IF f \in fs THEN 1 ELSE flag[f]
BY DEF TypeOK, INTF_SET

LEMMA ActbegFact ==
    ASSUME TypeOK, NEW f \in Flag, NEW next \in Label, INTF_ACTBEG(f, next)
    PROVE  /\ flag' \in [Flag -> 0..2] /\ pc' = next
           /\ \A g \in Flag : flag'[g] = IF g = f THEN 2 ELSE flag[g]
           /\ UNCHANGED <<tmp, piWant, trap>>
BY DEF TypeOK, INTF_ACTBEG, Goto

\* INTF_ACTEND when os_swap is indivisible: the step from label at takes flag f down and
\* goes on to done, or to again if f went up meanwhile; it moves nothing else.
Ended(at, f, again, done) ==
    /\ pc = at
    /\ flag' \in [Flag -> 0..2]
    /\ \A g \in Flag : flag'[g] = IF g = f THEN 0 ELSE flag[g]
    /\ pc' = IF flag[f] # 2 THEN again ELSE done
    /\ UNCHANGED <<tmp, piWant, trap, pol, si, di, evFlag, unseen, dpc, pending>>

LEMMA EffectFact ==
    ASSUME TypeOK, Effect
    PROVE  /\ flag' \in [Flag -> 0..2] /\ piWant' \in BOOLEAN /\ trap' \in BOOLEAN
           /\ \A g \in Flag \ {"insbreak"} : flag'[g] = flag[g]
           /\ \/ flag' = flag /\ (piWant' => piWant) /\ (trap' => trap)
              \/ flag'["insbreak"] = 1
<1>1. {"insbreak"} \in SUBSET Flag
  BY NameFact
<1>2. CASE UNCHANGED <<flag, piWant, trap>>
  BY <1>2 DEF TypeOK
<1>3. CASE piWant' = FALSE /\ UNCHANGED <<flag, trap>>
  BY <1>3 DEF TypeOK
<1>4. CASE INTF_SET({"insbreak"}) /\ piWant' \in BOOLEAN /\ trap' \in BOOLEAN
  BY <1>1, <1>4, SetFact, NameFact
<1>5. CASE piWant' = TRUE /\ INTF_SET({"insbreak"}) /\ UNCHANGED trap
  BY <1>4, <1>5 DEF TypeOK
<1>6. CASE trap' = TRUE /\ INTF_SET({"insbreak"}) /\ UNCHANGED piWant
  BY <1>4, <1>6 DEF TypeOK
<1> QED BY <1>2, <1>3, <1>5, <1>6 DEF Effect

LEMMA InitTypes == Init => TInv
<1> SUFFICES ASSUME Init PROVE TInv
  OBVIOUS
<1>1. Len(Polled) \in Nat /\ Len(SigList) \in Nat
  BY PolledFact, ListFact
<1>2. TypeOK
  <2>1. /\ pc \in Label /\ tmp \in {NoTmp} \cup 0..2
        /\ pol \in 1..(Len(Polled) + 1) /\ si \in 1..(Len(SigList) + 1) /\ di \in Nat
    BY <1>1 DEF Init, Label
  <2>2. flag \in [Flag -> 0..2]
    BY DEF Init
  <2>3. /\ evFlag \in [Dev -> BOOLEAN] /\ unseen \in [Dev -> BOOLEAN]
        /\ dpc \in [Dev -> {"idle", "flag", "kill"}]
    BY DEF Init
  <2> QED BY <2>1, <2>2, <2>3 DEF Init, TypeOK
<1>3. CursorOK
  BY DEF Init, CursorOK
<1> QED BY <1>2, <1>3 DEF TInv

\* The steps that leave every flag alone.
LEMMA MoveTypes ==
    ASSUME TInv,
           Test \/ Fecty \/ Continue \/ Evsig \/ Evs \/ Evr \/ EvsNext \/ Pol \/ PolNext \/ Trapped
    PROVE  TInv'
<1> USE DEF Goto, dpVars, cpuVars
<1>1. Len(Polled) \in Nat /\ Len(SigList) \in Nat
  BY PolledFact, ListFact
<1>2. CASE Test \/ Continue \/ Trapped
  BY <1>2 DEF TInv, TypeOK, CursorOK, Label, Test, Continue, Trapped
<1>3. CASE Fecty
  BY <1>3 DEF TInv, TypeOK, CursorOK, Label, Fecty
<1>4. CASE Evsig
  BY <1>1, <1>4 DEF TInv, TypeOK, CursorOK, Label, Evsig
<1>5. CASE Evs
  BY <1>1, <1>5 DEF TInv, TypeOK, CursorOK, Label, Evs
<1>6. CASE Evr
  <2>1. SigList[si] \in Sig /\ Len(RegList[SigList[si]]) \in Nat
    BY <1>6, ListFact DEF TInv, TypeOK, CursorOK, Evr
  <2>2. di \in Nat \ {0} /\ di + 1 \in Nat \ {0}
    BY DEF TInv, TypeOK, CursorOK
  <2> DEFINE d == RegList[SigList[si]][di]
  <2>3. evFlag' \in [Dev -> BOOLEAN]
    BY <1>6 DEF TInv, TypeOK, Evr
  <2>4. pc = "evr" /\ pc' \in {"evr", "evr.call", "evs.end"}
    BY <1>6 DEF Evr
  <2>5. di' \in {di, di + 1} /\ (pc' = "evr.call" => di' <= Len(RegList[SigList[si]]))
    BY <1>6, <2>1, <2>2 DEF Evr
  <2>6. UNCHANGED <<flag, tmp, pol, si, piWant, trap, unseen, dpc, pending>>
    BY <1>6 DEF Evr
  <2>7. TypeOK'
    BY <2>2, <2>3, <2>4, <2>5, <2>6 DEF TInv, TypeOK, Label
  <2>8. CursorOK'
    BY <2>2, <2>4, <2>5, <2>6 DEF TInv, CursorOK
  <2> QED BY <2>7, <2>8 DEF TInv
<1>7. CASE EvsNext
  <2>1. si <= Len(SigList)
    BY <1>7 DEF TInv, CursorOK, EvsNext
  <2> QED BY <1>1, <1>7, <2>1 DEF TInv, TypeOK, CursorOK, Label, EvsNext
<1>8. CASE Pol
  BY <1>1, <1>8 DEF TInv, TypeOK, CursorOK, Label, Pol
<1>9. CASE PolNext
  <2>1. pol <= Len(Polled)
    BY <1>9 DEF TInv, CursorOK, PolNext
  <2> QED BY <1>1, <1>9, <2>1 DEF TInv, TypeOK, CursorOK, Label, PolNext
<1> QED BY <1>2, <1>3, <1>4, <1>5, <1>6, <1>7, <1>8, <1>9

\* The name under each cursor is a flag's.
LEMMA CursorFact ==
    ASSUME TInv
    PROVE  /\ pc \in {"evs.act", "evr", "evr.call", "evs.end", "evs.next"} =>
                 SigList[si] \in Sig
           /\ pc \in {"pol.act", "pol.work", "pol.end", "pol.next"} =>
                 Polled[pol] \in Source \ {"fecty", "evsig"}
BY ListFact, PolledFact DEF TInv, TypeOK, CursorOK

LEMMA BegTypes ==
    ASSUME TInv, Beg \/ FectyAct \/ EvsigAct \/ EvsAct \/ PolAct
    PROVE  TInv'
<1> USE NameFact, CursorFact DEF dpVars, Label
<1>1. Len(Polled) \in Nat /\ Len(SigList) \in Nat
  BY PolledFact, ListFact
<1>2. CASE Beg
  BY <1>2, ActbegFact DEF TInv, TypeOK, CursorOK, Beg
<1>3. CASE FectyAct
  BY <1>3, ActbegFact DEF TInv, TypeOK, CursorOK, FectyAct
<1>4. CASE EvsigAct
  BY <1>1, <1>4, ActbegFact DEF TInv, TypeOK, CursorOK, EvsigAct
<1>5. CASE EvsAct
  BY <1>5, ActbegFact DEF TInv, TypeOK, CursorOK, EvsAct
<1>6. CASE PolAct
  BY <1>6, ActbegFact DEF TInv, TypeOK, CursorOK, PolAct
<1> QED BY <1>2, <1>3, <1>4, <1>5, <1>6

\* Each step that ends an action: which flag it takes down, and where it goes on.
LEMMA EndFact ==
    ASSUME AtomicSwap, TInv
    PROVE  /\ FectyEnd => Ended("fecty.end", "fecty", "fecty.act", "halt")
           /\ EvsigEnd => Ended("evsig.end", "evsig", "evsig.act", "pol")
           /\ EvsEnd => Ended("evs.end", SigList[si], "evs.act", "evs.next")
           /\ PolEnd => Ended("pol.end", Polled[pol], "pol.act", "pol.next")
           /\ InsEnd => Ended("insend", "insbreak", "beg", "trap")
<1> USE DEF Ended, INTF_ACTEND, Goto, dpVars
<1>1. /\ {"fecty", "evsig", "insbreak"} \subseteq Flag
      /\ pc = "evs.end" => SigList[si] \in Flag
      /\ pc = "pol.end" => Polled[pol] \in Flag
      /\ flag \in [Flag -> 0..2]
  BY NameFact, CursorFact DEF TInv, TypeOK
<1>2. FectyEnd => Ended("fecty.end", "fecty", "fecty.act", "halt")
  BY <1>1 DEF FectyEnd
<1>3. EvsigEnd => Ended("evsig.end", "evsig", "evsig.act", "pol")
  BY <1>1 DEF EvsigEnd
<1>4. EvsEnd => Ended("evs.end", SigList[si], "evs.act", "evs.next")
  BY <1>1 DEF EvsEnd
<1>5. PolEnd => Ended("pol.end", Polled[pol], "pol.act", "pol.next")
  BY <1>1 DEF PolEnd
<1>6. InsEnd => Ended("insend", "insbreak", "beg", "trap")
  BY <1>1 DEF InsEnd
<1> QED BY <1>2, <1>3, <1>4, <1>5, <1>6

LEMMA EndTypes ==
    ASSUME AtomicSwap, TInv, FectyEnd \/ EvsigEnd \/ EvsEnd \/ PolEnd \/ InsEnd
    PROVE  TInv'
<1> USE EndFact DEF Ended, Label
<1>1. CASE FectyEnd
  BY <1>1 DEF TInv, TypeOK, CursorOK
<1>2. CASE EvsigEnd
  BY <1>2 DEF TInv, TypeOK, CursorOK
<1>3. CASE EvsEnd
  BY <1>3 DEF TInv, TypeOK, CursorOK
<1>4. CASE PolEnd
  BY <1>4 DEF TInv, TypeOK, CursorOK
<1>5. CASE InsEnd
  BY <1>5 DEF TInv, TypeOK, CursorOK
<1> QED BY <1>1, <1>2, <1>3, <1>4, <1>5

\* Instructions, handlers, interrupts and traps: they move piWant and trap.
LEMMA WorkTypes ==
    ASSUME TInv, Xct \/ EvrCall \/ PolWork \/ Pi \/ Trap
    PROVE  TInv'
<1> USE DEF Goto, dpVars, cpuVars, Label
<1>1. CASE Xct
  BY <1>1, EffectFact DEF TInv, TypeOK, CursorOK, Xct
<1>2. CASE EvrCall
  <2>1. di + 1 \in Nat \ {0}
    BY DEF TInv, TypeOK, CursorOK
  <2>2. unseen' \in [Dev -> BOOLEAN]
    BY <1>2 DEF TInv, TypeOK, EvrCall
  <2>3. /\ flag' \in [Flag -> 0..2] /\ piWant' \in BOOLEAN /\ trap' \in BOOLEAN
    BY <1>2, EffectFact DEF TInv, EvrCall
  <2>4. /\ pc = "evr.call" /\ pc' = "evr" /\ di' = di + 1
        /\ UNCHANGED <<tmp, pol, si, evFlag, dpc, pending>>
    BY <1>2 DEF EvrCall
  <2> QED BY <2>1, <2>2, <2>3, <2>4 DEF TInv, TypeOK, CursorOK
<1>3. CASE PolWork
  BY <1>3, EffectFact DEF TInv, TypeOK, CursorOK, PolWork
<1>4. ASSUME Pi \/ Trap
      PROVE  /\ flag' \in [Flag -> 0..2] /\ piWant' \in BOOLEAN /\ trap' \in BOOLEAN
             /\ pc' \in {"insend", "test", "xct", "trapped"}
             /\ UNCHANGED <<tmp, pol, si, di, evFlag, unseen, dpc, pending>>
  <2>1. {"insbreak"} \in SUBSET Flag
    BY NameFact
  <2>2. INTF_SET({"insbreak"}) => flag' \in [Flag -> 0..2]
    BY <2>1, SetFact DEF TInv
  <2>3. /\ UNCHANGED flag => flag' \in [Flag -> 0..2]
        /\ UNCHANGED piWant => piWant' \in BOOLEAN
        /\ UNCHANGED trap => trap' \in BOOLEAN
    BY DEF TInv, TypeOK
  <2>4. CASE Pi
    <3>1. /\ pc' \in {"insend", "test"}
          /\ UNCHANGED <<tmp, pol, si, di, evFlag, unseen, dpc, pending>>
          /\ UNCHANGED flag \/ INTF_SET({"insbreak"})
          /\ UNCHANGED piWant \/ piWant' = FALSE
          /\ UNCHANGED trap \/ trap' = TRUE
      BY <2>4 DEF Pi
    <3> QED BY <2>2, <2>3, <3>1
  <2>5. CASE Trap
    <3>1. /\ pc' \in {"xct", "test", "trapped"}
          /\ UNCHANGED <<tmp, pol, si, di, evFlag, unseen, dpc, pending>>
          /\ UNCHANGED flag \/ INTF_SET({"insbreak"})
          /\ UNCHANGED piWant \/ piWant' = TRUE
          /\ UNCHANGED trap \/ trap' = FALSE
      BY <2>5 DEF Trap
    <3> QED BY <2>2, <2>3, <3>1
  <2> QED BY <1>4, <2>4, <2>5
<1>5. CASE Pi \/ Trap
  BY <1>4, <1>5 DEF TInv, TypeOK, CursorOK
<1> QED BY <1>1, <1>2, <1>3, <1>5

\* Signal handlers and subprocesses.
LEMMA OutsideTypes ==
    ASSUME TInv,
           \/ AsyncSignal
           \/ \E s \in Sig : DevSignal(s)
           \/ \E d \in Dev : Dp(d)
    PROVE  TInv'
<1> USE DEF cpuVars
<1>1. CASE AsyncSignal
  <2>1. PICK f \in Source \ {"evsig"} : INTF_SET({f, "insbreak"})
    BY <1>1 DEF AsyncSignal
  <2>2. {f, "insbreak"} \in SUBSET Flag
    BY NameFact
  <2>3. flag' \in [Flag -> 0..2]
    BY <2>1, <2>2, SetFact DEF TInv
  <2> QED BY <1>1, <2>3 DEF TInv, TypeOK, CursorOK, AsyncSignal, dpVars
<1>2. ASSUME NEW s \in Sig, DevSignal(s) PROVE TInv'
  <2>1. {s, "evsig", "insbreak"} \in SUBSET Flag
    BY NameFact
  <2>2. flag' \in [Flag -> 0..2]
    BY <1>2, <2>1, SetFact DEF TInv, DevSignal
  <2> QED BY <1>2, <2>2 DEF TInv, TypeOK, CursorOK, DevSignal
<1>3. ASSUME NEW d \in Dev, DpPublish(d) PROVE TInv'
  BY <1>3 DEF TInv, TypeOK, CursorOK, DpPublish
<1>4. ASSUME NEW d \in Dev, DpFlag(d) PROVE TInv'
  BY <1>4 DEF TInv, TypeOK, CursorOK, DpFlag
<1>5. ASSUME NEW d \in Dev, DpKill(d) PROVE TInv'
  <2>1. SigOf[d] \in Sig
    BY ListAssumption
  <2> QED BY <1>5, <2>1 DEF TInv, TypeOK, CursorOK, DpKill
<1> QED BY <1>1, <1>2, <1>3, <1>4, <1>5 DEF Dp

LEMMA StepTypes == ASSUME AtomicSwap, TInv, [Next]_vars PROVE TInv'
<1>1. CASE Cpu \/ Continue
  BY <1>1, MoveTypes, BegTypes, EndTypes, WorkTypes DEF Cpu
<1>2. CASE AsyncSignal \/ (\E s \in Sig : DevSignal(s)) \/ (\E d \in Dev : Dp(d))
  BY <1>2, OutsideTypes
<1>3. CASE UNCHANGED vars
  BY <1>3 DEF TInv, TypeOK, CursorOK, vars, cpuVars, dpVars
<1> QED BY <1>1, <1>2, <1>3 DEF Next

-----------------------------------------------------------------------------
(* No attention request is lost                                            *)

InPass == {"fecty", "fecty.act", "fecty.end", "evsig", "evsig.act", "evs", "evs.act",
           "evr", "evr.call", "evs.end", "evs.next", "evsig.end", "pol", "pol.act",
           "pol.work", "pol.end", "pol.next", "pi", "insend"}

\* The sources this pass of apr_check has been to.
BeenTo(f) ==
    \/ /\ f = "fecty"
       /\ pc \in InPass \ {"fecty", "fecty.act", "fecty.end"}
    \/ /\ f = "evsig"
       /\ pc \in {"pol", "pol.act", "pol.work", "pol.end", "pol.next", "pi", "insend"}
    \/ /\ pc \in {"pol", "pol.act", "pol.work", "pol.end", "pol.next"}
       /\ \E i \in 1..Len(Polled) :
             f = Polled[i] /\ (i < pol \/ (i = pol /\ pc = "pol.next"))
    \/ pc \in {"pi", "insend"}

\* In a pass mr_insbreak is never clear, and while nobody has raised it again the
\* sources already visited are clear and, at the end, no interrupt is wanted.
PassOK ==
    pc \in InPass =>
        /\ flag["insbreak"] # 0
        /\ flag["insbreak"] = 2 =>
              /\ \A f \in Source : BeenTo(f) => flag[f] = 0
              /\ pc = "insend" => ~piWant

\* After the pass a trap may still be served before the loop looks again.
TrapOK ==
    pc = "trap" /\ ((\E f \in Source : flag[f] # 0) \/ piWant) => flag["insbreak"] # 0

BInv == BreakPending /\ PassOK /\ TrapOK

\* What is left when nothing is raised but mr_insbreak.
LEMMA RaisedFact ==
    ASSUME TInv, flag'["insbreak"] = 1 PROVE BInv'
BY DEF BInv, BreakPending, PassOK, TrapOK

LEMMA InitBreak == Init => BInv
BY NameFact DEF Init, BInv, BreakPending, PassOK, TrapOK, InPass, Boundary

LEMMA MoveBreak ==
    ASSUME TInv, BInv,
           Test \/ Fecty \/ Continue \/ Evsig \/ Evs \/ Evr \/ EvsNext \/ Pol \/ PolNext \/ Trapped
    PROVE  BInv'
<1> USE DEF Goto, INTF_TEST, dpVars, cpuVars
<1>1. CASE Test \/ Continue \/ Trapped
  BY <1>1 DEF BInv, BreakPending, Boundary, PassOK, TrapOK, InPass, Test, Continue, Trapped
<1>2. CASE Fecty
  BY <1>2, PolledFact DEF BInv, BreakPending, Boundary, PassOK, TrapOK, InPass, BeenTo, Fecty
<1>3. CASE Evsig
  BY <1>3, PolledFact DEF BInv, BreakPending, Boundary, PassOK, TrapOK, InPass, BeenTo, Evsig
<1>4. CASE Evs \/ Evr \/ EvsNext
  BY <1>4 DEF BInv, BreakPending, Boundary, PassOK, TrapOK, InPass, BeenTo, Evs, Evr, EvsNext
<1>5. CASE Pol
  BY <1>5, PolledFact DEF BInv, BreakPending, Boundary, PassOK, TrapOK, InPass, BeenTo, Pol,
                          TInv, TypeOK
<1>6. CASE PolNext
  BY <1>6, PolledFact DEF BInv, BreakPending, Boundary, PassOK, TrapOK, InPass, BeenTo, PolNext,
                          TInv, TypeOK
<1> QED BY <1>1, <1>2, <1>3, <1>4, <1>5, <1>6

LEMMA BegBreak ==
    ASSUME TInv, BInv, Beg \/ FectyAct \/ EvsigAct \/ EvsAct \/ PolAct
    PROVE  BInv'
<1> USE NameFact, CursorFact DEF dpVars, Label
<1>1. CASE Beg
  BY <1>1, ActbegFact DEF TInv, BInv, BreakPending, Boundary, PassOK, TrapOK, InPass, BeenTo, Beg
<1>2. CASE FectyAct
  BY <1>2, ActbegFact DEF TInv, BInv, BreakPending, Boundary, PassOK, TrapOK, InPass, BeenTo,
                          FectyAct
<1>3. CASE EvsigAct
  BY <1>3, ActbegFact DEF TInv, BInv, BreakPending, Boundary, PassOK, TrapOK, InPass, BeenTo,
                          EvsigAct
<1>4. CASE EvsAct
  BY <1>4, ActbegFact DEF TInv, BInv, BreakPending, Boundary, PassOK, TrapOK, InPass, BeenTo,
                          EvsAct
<1>5. CASE PolAct
  <2>1. /\ Polled[pol] \in Source \ {"fecty", "evsig"} /\ pc = "pol.act"
        /\ INTF_ACTBEG(Polled[pol], "pol.work") /\ pol' = pol
    BY <1>5 DEF PolAct
  <2>2. /\ pc' = "pol.work" /\ UNCHANGED <<piWant, trap>>
        /\ \A g \in Flag : flag'[g] = IF g = Polled[pol] THEN 2 ELSE flag[g]
    BY <2>1, ActbegFact DEF TInv
  <2>3. ASSUME NEW i \in 1..Len(Polled), i < pol PROVE Polled[i] # Polled[pol]
    BY <2>1, <2>3, NameAssumption DEF TInv, TypeOK, CursorOK
  <2>4. flag'["insbreak"] = flag["insbreak"]
    BY <2>1, <2>2
  <2>5. ASSUME NEW f \in Source, BeenTo(f)' PROVE BeenTo(f) /\ flag'[f] = flag[f]
    BY <2>1, <2>2, <2>3, <2>5 DEF BeenTo, InPass
  <2>6. PassOK'
    BY <2>1, <2>2, <2>4, <2>5 DEF BInv, PassOK, InPass
  <2>7. BreakPending' /\ TrapOK'
    BY <2>2 DEF BreakPending, Boundary, TrapOK
  <2> QED BY <2>6, <2>7 DEF BInv
<1> QED BY <1>1, <1>2, <1>3, <1>4, <1>5

LEMMA EndBreak ==
    ASSUME AtomicSwap, TInv, BInv, FectyEnd \/ EvsigEnd \/ EvsEnd \/ PolEnd \/ InsEnd
    PROVE  BInv'
<1> USE EndFact, NameFact, CursorFact DEF Ended, BreakPending, Boundary, PassOK, TrapOK, InPass, BeenTo
<1>1. CASE FectyEnd
  BY <1>1 DEF TInv, CursorOK, BInv
<1>2. CASE EvsigEnd
  BY <1>2, PolledFact DEF TInv, CursorOK, BInv
<1>3. CASE EvsEnd
  BY <1>3 DEF TInv, CursorOK, BInv
<1>4. CASE PolEnd
  BY <1>4 DEF TInv, CursorOK, BInv
<1>5. CASE InsEnd
  BY <1>5 DEF TInv, CursorOK, BInv
<1> QED BY <1>1, <1>2, <1>3, <1>4, <1>5

LEMMA WorkBreak ==
    ASSUME TInv, BInv, Xct \/ EvrCall \/ PolWork \/ Pi \/ Trap
    PROVE  BInv'
<1> USE NameFact DEF Goto, dpVars, cpuVars
<1>1. INTF_SET({"insbreak"}) => flag'["insbreak"] = 1
  BY DEF INTF_SET
<1>2. CASE flag'["insbreak"] = 1
  BY <1>2, RaisedFact
<1>3. CASE Xct /\ flag' = flag /\ (piWant' => piWant) /\ (trap' => trap)
  BY <1>3 DEF BInv, BreakPending, Boundary, PassOK, TrapOK, InPass, Xct
<1>4. CASE (EvrCall \/ PolWork) /\ flag' = flag /\ (piWant' => piWant) /\ (trap' => trap)
  BY <1>4 DEF BInv, BreakPending, Boundary, PassOK, TrapOK, InPass, BeenTo, EvrCall, PolWork
<1>5. CASE Xct \/ EvrCall \/ PolWork
  BY <1>2, <1>3, <1>4, <1>5, EffectFact DEF TInv, Xct, EvrCall, PolWork
<1>6. CASE Pi
  <2>1. CASE ~piWant /\ pc' = "insend" /\ UNCHANGED <<flag, piWant, trap>>
    BY <1>6, <2>1 DEF BInv, BreakPending, Boundary, PassOK, TrapOK, InPass, BeenTo, Pi
  <2>2. CASE piWant' = FALSE /\ pc' = "insend" /\ UNCHANGED <<flag, trap>>
    BY <1>6, <2>2 DEF BInv, BreakPending, Boundary, PassOK, TrapOK, InPass, BeenTo, Pi
  <2>3. CASE pc' = "test" /\ UNCHANGED <<flag, piWant, trap>>
    BY <1>6, <2>3 DEF BInv, BreakPending, Boundary, PassOK, TrapOK, InPass, Pi
  <2> QED BY <1>1, <1>2, <1>6, <2>1, <2>2, <2>3 DEF Pi
<1>7. CASE Trap
  <2>1. CASE ~trap /\ pc' = "xct" /\ UNCHANGED <<flag, piWant, trap>>
    BY <1>7, <2>1 DEF BInv, BreakPending, Boundary, PassOK, TrapOK, InPass, Trap
  <2>2. CASE trap' = FALSE /\ pc' = "trapped" /\ UNCHANGED <<flag, piWant>>
    BY <1>7, <2>2 DEF BInv, BreakPending, Boundary, PassOK, TrapOK, InPass, Trap
  <2> QED BY <1>1, <1>2, <1>7, <2>1, <2>2 DEF Trap
<1> QED BY <1>5, <1>6, <1>7

LEMMA OutsideBreak ==
    ASSUME TInv, BInv,
           \/ AsyncSignal
           \/ \E s \in Sig : DevSignal(s)
           \/ \E d \in Dev : Dp(d)
    PROVE  BInv'
<1>1. CASE AsyncSignal \/ \E s \in Sig : DevSignal(s)
  <2>1. flag'["insbreak"] = 1
    BY <1>1, NameFact DEF AsyncSignal, DevSignal, INTF_SET
  <2> QED BY <2>1, RaisedFact
<1>2. CASE \E d \in Dev : Dp(d)
  BY <1>2 DEF Dp, DpPublish, DpFlag, DpKill, cpuVars, BInv, BreakPending, Boundary, PassOK,
              TrapOK, InPass, BeenTo
<1> QED BY <1>1, <1>2

LEMMA StepBreak == ASSUME AtomicSwap, TInv, BInv, [Next]_vars PROVE BInv'
<1>1. CASE Cpu \/ Continue
  BY <1>1, MoveBreak, BegBreak, EndBreak, WorkBreak DEF Cpu
<1>2. CASE AsyncSignal \/ (\E s \in Sig : DevSignal(s)) \/ (\E d \in Dev : Dp(d))
  BY <1>2, OutsideBreak
<1>3. CASE UNCHANGED vars
  BY <1>3 DEF BInv, BreakPending, Boundary, PassOK, TrapOK, InPass, BeenTo, vars, cpuVars, dpVars
<1> QED BY <1>1, <1>2, <1>3 DEF Next

-----------------------------------------------------------------------------
(* No device event is lost                                                 *)

Walk == {"evsig.act", "evs", "evs.act", "evr", "evr.call", "evs.end", "evs.next"}

WordCarried(d) ==
    \/ dpc[d] = "kill" \/ SigOf[d] \in pending
    \/ flag[SigOf[d]] = 1 \/ Ahead(d)
    \/ pc = "evs.act" /\ SigList[si] = SigOf[d]

SigCarried(s) ==
    \/ flag["evsig"] = 1
    \/ pc = "evsig.act"
    \/ /\ pc \in Walk \ {"evsig.act"}
       /\ \E i \in 1..Len(SigList) :
             /\ SigList[i] = s
             /\ IF pc = "evs.next" THEN si < i ELSE si <= i

LEMMA CarriedFact ==
    /\ EventCarried <=> /\ \A d \in Dev : evFlag[d] => WordCarried(d)
                        /\ \A s \in Sig : flag[s] = 1 => SigCarried(s)
    /\ EventCarried' <=> /\ \A d \in Dev : evFlag'[d] => WordCarried(d)'
                         /\ \A s \in Sig : flag'[s] = 1 => SigCarried(s)'
BY DEF EventCarried, WordCarried, SigCarried, Walk

LEMMA SigFact == \A d \in Dev : SigOf[d] \in Sig
BY ListAssumption

\* Outside dev_evcheck, whatever the CPU does to the other flags.
LEMMA QuietStep ==
    ASSUME TInv, EventCarried, pc \notin Walk,
           \A g \in Sig \cup {"evsig"} : flag'[g] = flag[g],
           UNCHANGED <<evFlag, dpc, pending>>
    PROVE  EventCarried'
<1>1. ASSUME NEW d \in Dev, evFlag'[d] PROVE WordCarried(d)'
  <2>1. WordCarried(d)
    BY <1>1, CarriedFact
  <2>2. dpc[d] = "kill" \/ SigOf[d] \in pending \/ flag[SigOf[d]] = 1
    BY <2>1 DEF WordCarried, Walk, Ahead
  <2> QED BY <2>2, SigFact DEF WordCarried
<1>2. ASSUME NEW s \in Sig, flag'[s] = 1 PROVE SigCarried(s)'
  <2>1. SigCarried(s)
    BY <1>2, CarriedFact
  <2>2. flag["evsig"] = 1
    BY <2>1 DEF SigCarried, Walk
  <2> QED BY <2>2 DEF SigCarried
<1> QED BY <1>1, <1>2, CarriedFact

LEMMA InitCarried == Init => EventCarried
BY DEF Init, EventCarried, Flag

LEMMA QuietActions ==
    ASSUME AtomicSwap, TInv, EventCarried,
           \/ Test \/ Xct \/ Beg \/ Fecty \/ FectyAct \/ FectyEnd \/ Continue \/ Evsig
           \/ Pol \/ PolAct \/ PolWork \/ PolEnd \/ PolNext \/ Pi \/ InsEnd \/ Trap \/ Trapped
    PROVE  EventCarried'
<1> USE NameFact DEF dpVars, Label, Goto
<1>1. CASE Test \/ Fecty \/ Continue \/ Evsig \/ Pol \/ PolNext \/ Trapped
  BY <1>1, QuietStep DEF Test, Fecty, Continue, Evsig, Pol, PolNext, Trapped, Walk
<1>2. CASE Xct \/ PolWork
  <2>1. \A g \in Sig \cup {"evsig"} : flag'[g] = flag[g]
    BY <1>2, EffectFact DEF TInv, Xct, PolWork
  <2> QED BY <1>2, <2>1, QuietStep DEF Xct, PolWork, Walk
<1>3. CASE Beg \/ FectyAct
  <2>1. \A g \in Sig \cup {"evsig"} : flag'[g] = flag[g]
    BY <1>3, ActbegFact DEF TInv, Beg, FectyAct
  <2> QED BY <1>3, <2>1, QuietStep DEF Beg, FectyAct, Walk
<1>4. CASE FectyEnd \/ InsEnd
  <2>1. \A g \in Sig \cup {"evsig"} : flag'[g] = flag[g]
    BY <1>4, EndFact DEF Ended, FectyEnd, InsEnd
  <2> QED BY <1>4, <2>1, QuietStep DEF FectyEnd, InsEnd, Walk
<1>5. CASE PolAct \/ PolEnd
  <2>1. Polled[pol] \in Source \ {"fecty", "evsig"}
    BY <1>5, CursorFact DEF PolAct, PolEnd
  <2>2. \A g \in Sig \cup {"evsig"} : flag'[g] = flag[g]
    <3>1. CASE PolAct BY <2>1, <3>1, ActbegFact DEF TInv, PolAct
    <3>2. CASE PolEnd BY <2>1, <3>2, EndFact DEF Ended
    <3> QED BY <1>5, <3>1, <3>2
  <2> QED BY <1>5, <2>2, QuietStep DEF PolAct, PolEnd, Walk
<1>6. CASE Pi \/ Trap
  <2>1. UNCHANGED flag \/ INTF_SET({"insbreak"})
    BY <1>6 DEF Pi, Trap
  <2>2. \A g \in Sig \cup {"evsig"} : flag'[g] = flag[g]
    BY <2>1 DEF INTF_SET
  <2>3. pc \notin Walk /\ UNCHANGED <<evFlag, dpc, pending>>
    BY <1>6 DEF Pi, Trap, Walk
  <2> QED BY <2>2, <2>3, QuietStep
<1> QED BY <1>1, <1>2, <1>3, <1>4, <1>5, <1>6

\* The walk of dev_evcheck: a raised word or signal is ahead of the cursor, or its
\* signal has been raised again and the walk will be repeated.
LEMMA WalkActions ==
    ASSUME AtomicSwap, TInv, EventCarried,
           EvsigAct \/ Evs \/ EvsAct \/ Evr \/ EvrCall \/ EvsEnd \/ EvsNext \/ EvsigEnd
    PROVE  EventCarried'
<1> USE NameFact, SigFact DEF dpVars, cpuVars, Label, Goto
<1>0. /\ \A d \in Dev : evFlag[d] => WordCarried(d)
      /\ \A s \in Sig : flag[s] = 1 => SigCarried(s)
      /\ si \in Nat \ {0} /\ di \in Nat \ {0} /\ Len(SigList) \in Nat
  BY CarriedFact, ListFact DEF TInv, TypeOK, CursorOK
<1>1. CASE EvsigAct
  <2>1. /\ pc = "evsig.act" /\ pc' = "evs" /\ si' = 1
        /\ \A g \in Sig : flag'[g] = flag[g]
        /\ UNCHANGED <<evFlag, dpc, pending>>
    BY <1>1, ActbegFact DEF TInv, EvsigAct
  <2>2. \A d \in Dev : evFlag'[d] => WordCarried(d)'
    BY <1>0, <2>1 DEF WordCarried, Ahead
  <2>3. \A s \in Sig : SigCarried(s)'
    BY <1>0, <2>1, ListAssumption DEF SigCarried, Walk
  <2> QED BY <2>2, <2>3, CarriedFact
<1>2. CASE Evs
  <2>1. /\ pc = "evs" /\ UNCHANGED <<flag, si, evFlag, dpc, pending>>
        /\ IF si > Len(SigList) THEN pc' = "evsig.end"
           ELSE pc' = IF flag[SigList[si]] # 0 THEN "evs.act" ELSE "evs.next"
    BY <1>2 DEF Evs, INTF_TEST
  <2>2. \A d \in Dev : evFlag'[d] => WordCarried(d)'
    BY <1>0, <2>1 DEF WordCarried, Ahead
  <2>3. \A s \in Sig : flag'[s] = 1 => SigCarried(s)'
    BY <1>0, <2>1 DEF SigCarried, Walk
  <2> QED BY <2>2, <2>3, CarriedFact
<1>3. CASE EvsAct
  <2>1. /\ pc = "evs.act" /\ pc' = "evr" /\ di' = 1 /\ SigList[si] \in Sig
        /\ \A g \in Sig \cup {"evsig"} : flag'[g] = IF g = SigList[si] THEN 2 ELSE flag[g]
        /\ UNCHANGED <<si, evFlag, dpc, pending>>
    BY <1>3, ActbegFact, CursorFact DEF TInv, EvsAct
  <2>2. ASSUME NEW d \in Dev, evFlag'[d] PROVE WordCarried(d)'
    <3>1. CASE SigOf[d] = SigList[si]
      <4>1. \E i \in 1..Len(RegList[SigOf[d]]) : RegList[SigOf[d]][i] = d
        BY ListAssumption
      <4> QED BY <2>1, <3>1, <4>1 DEF WordCarried, Ahead
    <3>2. CASE SigOf[d] # SigList[si]
      BY <1>0, <2>1, <2>2, <3>2 DEF WordCarried, Ahead
    <3> QED BY <3>1, <3>2
  <2>3. \A s \in Sig : flag'[s] = 1 => SigCarried(s)'
    BY <1>0, <2>1 DEF SigCarried, Walk
  <2> QED BY <2>2, <2>3, CarriedFact
<1>4. CASE Evr
  <2> DEFINE s0 == SigList[si]
             d0 == RegList[s0][di]
  <2>1. pc = "evr" /\ UNCHANGED <<flag, si, dpc, pending>> /\ Len(RegList[s0]) \in Nat
    BY <1>4, ListFact, CursorFact DEF Evr
  <2>2. \/ di > Len(RegList[s0]) /\ pc' = "evs.end" /\ UNCHANGED <<di, evFlag>>
        \/ /\ pc' = "evr.call" /\ UNCHANGED di
           /\ evFlag' = [evFlag EXCEPT ![d0] = FALSE]
        \/ ~evFlag[d0] /\ pc' = "evr" /\ di' = di + 1 /\ UNCHANGED evFlag
    BY <1>4 DEF Evr
  <2>3. evFlag \in [Dev -> BOOLEAN]
    BY DEF TInv, TypeOK
  <2>4. ASSUME NEW d \in Dev, evFlag'[d] PROVE WordCarried(d)'
    <3>1. WordCarried(d) /\ evFlag[d]
      BY <1>0, <2>2, <2>3, <2>4
    <3>2. CASE Ahead(d)
      <4>1. PICK i \in 1..Len(RegList[s0]) : RegList[s0][i] = d /\ di <= i /\ s0 = SigOf[d]
        BY <2>1, <3>2 DEF Ahead
      <4>2. pc' \in {"evr", "evr.call"} /\ i # di
        BY <1>0, <2>1, <2>2, <2>3, <2>4, <3>1, <4>1
      <4>3. IF pc' = "evr" THEN di' <= i ELSE di' < i
        BY <1>0, <2>2, <4>1, <4>2
      <4> QED BY <2>1, <4>1, <4>2, <4>3 DEF WordCarried, Ahead
    <3>3. CASE ~Ahead(d)
      BY <2>1, <3>1, <3>3 DEF WordCarried
    <3> QED BY <3>2, <3>3
  <2>5. \A s \in Sig : flag'[s] = 1 => SigCarried(s)'
    <3>1. pc' \in {"evr", "evr.call", "evs.end"}
      BY <2>2
    <3> QED BY <1>0, <2>1, <3>1 DEF SigCarried, Walk
  <2> QED BY <2>4, <2>5, CarriedFact
<1>5. CASE EvrCall
  <2>1. /\ pc = "evr.call" /\ pc' = "evr" /\ di' = di + 1
        /\ \A g \in Sig \cup {"evsig"} : flag'[g] = flag[g]
        /\ UNCHANGED <<si, evFlag, dpc, pending>>
    BY <1>5, EffectFact DEF TInv, EvrCall
  <2>2. \A d \in Dev : evFlag'[d] => WordCarried(d)'
    BY <1>0, <2>1 DEF WordCarried, Ahead
  <2>3. \A s \in Sig : flag'[s] = 1 => SigCarried(s)'
    BY <1>0, <2>1 DEF SigCarried, Walk
  <2> QED BY <2>2, <2>3, CarriedFact
<1>6. CASE EvsEnd
  <2>1. /\ pc = "evs.end" /\ SigList[si] \in Sig
        /\ \A g \in Sig \cup {"evsig"} : flag'[g] = IF g = SigList[si] THEN 0 ELSE flag[g]
        /\ pc' = IF flag[SigList[si]] # 2 THEN "evs.act" ELSE "evs.next"
        /\ UNCHANGED <<si, evFlag, dpc, pending>>
    BY <1>6, EndFact, NameFact, CursorFact DEF Ended
  <2>2. ASSUME NEW d \in Dev, evFlag'[d] PROVE WordCarried(d)'
    <3>1. dpc[d] = "kill" \/ SigOf[d] \in pending \/ flag[SigOf[d]] = 1
      BY <1>0, <2>1, <2>2 DEF WordCarried, Ahead
    <3> QED BY <2>1, <3>1 DEF WordCarried
  <2>3. \A s \in Sig : flag'[s] = 1 => SigCarried(s)'
    BY <1>0, <2>1 DEF SigCarried, Walk
  <2> QED BY <2>2, <2>3, CarriedFact
<1>7. CASE EvsNext
  <2>1. /\ pc = "evs.next" /\ pc' = "evs" /\ si' = si + 1
        /\ UNCHANGED <<flag, evFlag, dpc, pending>>
    BY <1>7 DEF EvsNext
  <2>2. \A d \in Dev : evFlag'[d] => WordCarried(d)'
    BY <1>0, <2>1 DEF WordCarried, Ahead
  <2>3. \A s \in Sig : flag'[s] = 1 => SigCarried(s)'
    BY <1>0, <2>1 DEF SigCarried, Walk
  <2> QED BY <2>2, <2>3, CarriedFact
<1>8. CASE EvsigEnd
  <2>1. /\ pc = "evsig.end"
        /\ \A g \in Sig : flag'[g] = flag[g]
        /\ flag["evsig"] # 2 => pc' = "evsig.act"
        /\ UNCHANGED <<evFlag, dpc, pending>>
    BY <1>8, EndFact, NameFact DEF Ended
  <2>2. \A d \in Dev : evFlag'[d] => WordCarried(d)'
    BY <1>0, <2>1 DEF WordCarried, Ahead
  <2>3. \A s \in Sig : flag'[s] = 1 => SigCarried(s)'
    BY <1>0, <2>1 DEF SigCarried, Walk
  <2> QED BY <2>2, <2>3, CarriedFact
<1> QED BY <1>1, <1>2, <1>3, <1>4, <1>5, <1>6, <1>7, <1>8

LEMMA OutsideCarried ==
    ASSUME TInv, EventCarried,
           \/ AsyncSignal
           \/ \E s \in Sig : DevSignal(s)
           \/ \E d \in Dev : Dp(d)
    PROVE  EventCarried'
<1> USE NameFact, SigFact DEF cpuVars
<1>0. /\ \A d \in Dev : evFlag[d] => WordCarried(d)
      /\ \A s \in Sig : flag[s] = 1 => SigCarried(s)
      /\ evFlag \in [Dev -> BOOLEAN] /\ dpc \in [Dev -> {"idle", "flag", "kill"}]
  BY CarriedFact DEF TInv, TypeOK
<1>1. CASE AsyncSignal
  <2>1. PICK f \in Source \ {"evsig"} : INTF_SET({f, "insbreak"})
    BY <1>1 DEF AsyncSignal
  <2>2. /\ \A g \in Sig \cup {"evsig"} : flag'[g] = flag[g]
        /\ UNCHANGED <<pc, si, di, evFlag, dpc, pending>>
    BY <1>1, <2>1 DEF AsyncSignal, dpVars, INTF_SET
  <2>3. \A d \in Dev : evFlag'[d] => WordCarried(d)'
    BY <1>0, <2>2 DEF WordCarried, Ahead
  <2>4. \A s \in Sig : flag'[s] = 1 => SigCarried(s)'
    BY <1>0, <2>2 DEF SigCarried, Walk
  <2> QED BY <2>3, <2>4, CarriedFact
<1>2. ASSUME NEW s \in Sig, DevSignal(s) PROVE EventCarried'
  <2>1. /\ \A g \in Sig : flag'[g] = IF g = s THEN 1 ELSE flag[g]
        /\ flag'["evsig"] = 1 /\ pending' = pending \ {s}
        /\ UNCHANGED <<pc, si, di, evFlag, dpc>>
    BY <1>2 DEF DevSignal, INTF_SET
  <2>2. \A d \in Dev : evFlag'[d] => WordCarried(d)'
    BY <1>0, <2>1 DEF WordCarried, Ahead
  <2>3. \A t \in Sig : SigCarried(t)'
    BY <2>1 DEF SigCarried
  <2> QED BY <2>2, <2>3, CarriedFact
<1>3. ASSUME NEW e \in Dev, Dp(e) PROVE EventCarried'
  <2>1. UNCHANGED <<pc, flag, si, di>>
    BY <1>3 DEF Dp, DpPublish, DpFlag, DpKill
  <2>2. ASSUME NEW d \in Dev, evFlag'[d] PROVE WordCarried(d)'
    <3>1. CASE DpPublish(e)
      BY <1>0, <2>1, <2>2, <3>1 DEF WordCarried, Ahead, DpPublish
    <3>2. CASE DpFlag(e)
      BY <1>0, <2>1, <2>2, <3>2 DEF WordCarried, Ahead, DpFlag
    <3>3. CASE DpKill(e)
      BY <1>0, <2>1, <2>2, <3>3 DEF WordCarried, Ahead, DpKill
    <3> QED BY <1>3, <3>1, <3>2, <3>3 DEF Dp
  <2>3. \A s \in Sig : flag'[s] = 1 => SigCarried(s)'
    BY <1>0, <2>1 DEF SigCarried, Walk
  <2> QED BY <2>2, <2>3, CarriedFact
<1> QED BY <1>1, <1>2, <1>3

LEMMA StepCarried == ASSUME AtomicSwap, TInv, EventCarried, [Next]_vars PROVE EventCarried'
<1>1. CASE Cpu \/ Continue
  BY <1>1, QuietActions, WalkActions DEF Cpu
<1>2. CASE AsyncSignal \/ (\E s \in Sig : DevSignal(s)) \/ (\E d \in Dev : Dp(d))
  BY <1>2, OutsideCarried
<1>3. CASE UNCHANGED vars
  BY <1>3 DEF EventCarried, Ahead, vars, cpuVars, dpVars
<1> QED BY <1>1, <1>2, <1>3 DEF Next

-----------------------------------------------------------------------------
(* The theorems                                                            *)

IInv == TInv /\ BInv /\ EventCarried

LEMMA Invariance == AtomicSwap => (Spec => []IInv)
<1>1. Init => IInv
  BY InitTypes, InitBreak, InitCarried DEF IInv
<1>2. AtomicSwap /\ IInv /\ [Next]_vars => IInv'
  BY StepTypes, StepBreak, StepCarried DEF IInv
<1>3. ASSUME AtomicSwap PROVE IInv /\ [Next]_vars => IInv'
  BY <1>2, <1>3
<1>4. ASSUME AtomicSwap PROVE Spec => []IInv
  BY <1>1, <1>3, <1>4, PTL DEF Spec
<1> QED BY <1>4

\* The flags, cursors and event words of apr_check and dev_evcheck keep their types: in
\* particular no cursor is used past the end of its list.
THEOREM TypeCorrect == AtomicSwap => (Spec => []TypeOK)
<1>1. IInv => TypeOK
  BY DEF IInv, TInv
<1>2. ASSUME AtomicSwap PROVE Spec => []TypeOK
  BY <1>1, <1>2, Invariance, PTL
<1> QED BY <1>2

\* If os_swap is indivisible, the instruction loop never starts an instruction with a
\* raised source, a wanted interrupt or a trap unannounced by mr_insbreak: for any
\* number of flags and devices, wherever signals fall in apr_check.
THEOREM NothingUnannounced == AtomicSwap => (Spec => []BreakPending)
<1>1. IInv => BreakPending
  BY DEF IInv, BInv
<1>2. ASSUME AtomicSwap PROVE Spec => []BreakPending
  BY <1>1, <1>2, Invariance, PTL
<1> QED BY <1>2

\* If os_swap is indivisible, a device event is always carried to its handler by a
\* signal, a flag or dev_evcheck's walk: none is stranded in shared memory.
THEOREM NoEventStranded == AtomicSwap => (Spec => []EventCarried)
<1>1. IInv => EventCarried
  BY DEF IInv
<1>2. ASSUME AtomicSwap PROVE Spec => []EventCarried
  BY <1>1, <1>2, Invariance, PTL
<1> QED BY <1>2
=============================================================================
