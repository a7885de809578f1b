---------------------------- MODULE NiLink_proofs ----------------------------
(***************************************************************************)
(* Proofs about NiLink, the link between the NI20 and its two subprocesses:*)
(* its types, that no subprocess sleeps while it has something to do, that *)
(* a packet is not forgotten, and that each direction implements Mailbox.  *)
(*                                                                         *)
(* Base says what may be on the list of things the KLH10 has left to do:   *)
(* without it the monitor could be enabling and stopping the port at once, *)
(* and nothing about a buffer would be inductive.  FrInv, FirstRun and     *)
(* ToInv say who may touch a buffer, and when.                             *)
(***************************************************************************)
EXTENDS NiLink, SequenceTheorems, TLAPS

-----------------------------------------------------------------------------
(* The invariants                                                          *)

RunStep  == {"wak", "don", "run", "cmd", "ack", "enable", "ringR", "ringW"}
Wait     == {"xswait", "suspend", "nap"}
StopStep == Wait \cup {"quit", "stop", "clear", "ringW"}

In(s, l)   == \E i \in DOMAIN s : s[i] = l
Once(s, l) == \A i, j \in DOMAIN s : s[i] = l /\ s[j] = l => i = j

\* What the KLH10 may have left to do: the rest of an event walk or of ni20_run, in which
\* ni20_enable is next if it is there at all; or the rest of ni20_stop, in which QUIT is
\* announced, and is sent, and dp_stop called, only after a wait.
RunShape(c) ==
    /\ c \in Seq(RunStep)
    /\ \A i \in 2..Len(c) : c[i] # "enable"
StopShape(c) ==
    /\ c \in Seq(StopStep)
    /\ \A i \in 1..Len(c) :
          /\ c[i] = "quit" => i < Len(c) /\ c[i + 1] = "ringW"
          /\ c[i] = "stop" /\ i < Len(c) => c[i + 1] = "clear"
          /\ c[i] = "clear" => i = Len(c)
          /\ c[i] \in {"quit", "stop"} /\ i > 1 => c[i - 1] \in Wait

Shape ==
    /\ RunShape(ctl) \/ StopShape(ctl)
    /\ ~RunShape(ctl) => state = "HALT"
    /\ At("enable") => state = "RUN"
    /\ relink # NoQueue => limbo >= 1

Base == TypeOK /\ Shape

\* The "fr" buffer: R fills it when it is free; then either wakflg says so or the KLH10
\* is working on it, in one way, and it is not free before that is over.
FrInv ==
    /\ R = "fill" => ~box["fr"].rdy
    /\ R = "flag" => box["fr"].rdy /\ ~wak
    /\ wak \/ pktinf \/ Pending("ack") => box["fr"].rdy
    /\ pktinf \/ Pending("ack") => ~wak /\ R # "flag"
    /\ pktinf => ~Pending("ack")
    /\ Once(ctl, "ack")

\* Before the first start there is no subprocess, and a port that was started once and
\* runs has not been stopped.
FirstRun ==
    /\ starts = 0 => W = "gone" /\ R = "gone" /\ ~box["fr"].rdy /\ state = "HALT"
    /\ starts = 1 /\ W = "boot" => R = "gone"

\* The "to" buffer: what W works on stays there; a patient monitor finds it free when it
\* enables or stops the port, and so does INIT.
ToInv ==
    /\ W \in {"exec", "done"} => box["to"].rdy
    /\ At("quit") \/ At("stop") \/ At("enable") => ~box["to"].rdy
    /\ state = "ENA" \/ Pending("enable") \/ Pending("quit") => dpstate
    /\ wantEna => state = "RUN" /\ (~dpstate \/ Pending("enable"))
    /\ Pending("stop") => ~cmdqf \/ Pending("clear")
    /\ ~dpstate => ~box["to"].rdy /\ (~cmdqf \/ Pending("clear"))

-----------------------------------------------------------------------------
(* Sequences of steps                                                      *)

Step == RunStep \cup StopStep

\* The rest of c, with ls in front of it.
LEMMA ThenFact ==
    ASSUME NEW S, NEW c \in Seq(S), c # <<>>, NEW ls \in Seq(S)
    PROVE  /\ Len(c) \in Nat /\ Len(c) >= 1 /\ Len(ls) \in Nat
           /\ ls \o Tail(c) \in Seq(S)
           /\ Len(ls \o Tail(c)) = Len(ls) + (Len(c) - 1)
           /\ \A i \in 1..Len(ls) : (ls \o Tail(c))[i] = ls[i]
           /\ \A i \in 2..Len(c) : (ls \o Tail(c))[Len(ls) + (i - 1)] = c[i]
<1>1. Len(c) \in Nat /\ Len(c) >= 1 /\ Len(ls) \in Nat BY EmptySeq
<1> DEFINE t == Tail(c)
<1>2. t \in Seq(S) /\ Len(t) = Len(c) - 1 /\ \A i \in 1..Len(t) : t[i] = c[i + 1]
  BY <1>1, HeadTailProperties
<1> HIDE DEF t
<1> DEFINE r == ls \o t
<1>3. /\ r \in Seq(S) /\ Len(r) = Len(ls) + Len(t)
      /\ \A i \in 1..(Len(ls) + Len(t)) : r[i] = IF i <= Len(ls) THEN ls[i] ELSE t[i - Len(ls)]
  BY <1>2, ConcatProperties
<1> HIDE DEF r
<1>4. Len(r) = Len(ls) + (Len(c) - 1) BY <1>1, <1>2, <1>3
<1>5. ASSUME NEW i \in 1..Len(ls) PROVE r[i] = ls[i]
  <2>1. Len(t) \in Nat BY <1>1, <1>2
  <2>2. i \in 1..(Len(ls) + Len(t)) /\ i <= Len(ls) BY <2>1, <1>1
  <2> QED BY <2>2, <1>3
<1>6. ASSUME NEW i \in 2..Len(c) PROVE r[Len(ls) + (i - 1)] = c[i]
  <2>1. i - 1 \in 1..Len(t) /\ (i - 1) + 1 = i BY <1>1, <1>2
  <2>2. /\ Len(ls) + (i - 1) \in 1..(Len(ls) + Len(t)) /\ ~(Len(ls) + (i - 1) <= Len(ls))
        /\ (Len(ls) + (i - 1)) - Len(ls) = i - 1
    BY <2>1, <1>1, <1>2
  <2> QED BY <2>1, <2>2, <1>2, <1>3
<1> QED BY <1>1, <1>3, <1>4, <1>5, <1>6 DEF r, t

\* A label is in the new list if it is put in front, or was in the rest of the old one.
LEMMA InThen ==
    ASSUME NEW S, NEW c \in Seq(S), c # <<>>, NEW ls \in Seq(S), NEW l
    PROVE  /\ In(ls \o Tail(c), l) <=> In(ls, l) \/ In(Tail(c), l)
           /\ In(c, l) <=> c[1] = l \/ In(Tail(c), l)
<1> DEFINE r == ls \o Tail(c)
           More == \E i \in 2..Len(c) : c[i] = l
<1>1. /\ Len(c) \in Nat /\ Len(c) >= 1 /\ Len(ls) \in Nat
      /\ r \in Seq(S) /\ Len(r) = Len(ls) + (Len(c) - 1)
      /\ \A i \in 1..Len(ls) : r[i] = ls[i]
      /\ \A i \in 2..Len(c) : r[Len(ls) + (i - 1)] = c[i]
  BY ThenFact
<1> HIDE DEF r
<1>2. In(r, l) <=> In(ls, l) \/ More
  <2>1. ASSUME NEW i \in 1..Len(r), r[i] = l PROVE In(ls, l) \/ More
    <3>1. CASE i <= Len(ls)
      <4>1. i \in 1..Len(ls) BY <3>1, <1>1
      <4> QED BY <4>1, <2>1, <1>1 DEF In
    <3>2. CASE ~(i <= Len(ls))
      <4> DEFINE j == (i - Len(ls)) + 1
      <4>1. j \in 2..Len(c) /\ Len(ls) + (j - 1) = i BY <3>2, <1>1
      <4> HIDE DEF j
      <4> QED BY <4>1, <2>1, <1>1
    <3> QED BY <3>1, <3>2
  <2>2. ASSUME NEW i \in 1..Len(ls), ls[i] = l PROVE In(r, l)
    <3>1. i \in 1..Len(r) BY <1>1
    <3> QED BY <3>1, <2>2, <1>1 DEF In
  <2>3. ASSUME NEW i \in 2..Len(c), c[i] = l PROVE In(r, l)
    <3>1. Len(ls) + (i - 1) \in 1..Len(r) BY <1>1
    <3> QED BY <3>1, <2>3, <1>1 DEF In
  <2>4. DOMAIN r = 1..Len(r) /\ DOMAIN ls = 1..Len(ls) BY <1>1
  <2>5. In(r, l) => In(ls, l) \/ More BY <2>1, <2>4 DEF In
  <2>6. In(ls, l) => In(r, l) BY <2>2, <2>4 DEF In
  <2>7. More => In(r, l) BY <2>3
  <2> QED BY <2>5, <2>6, <2>7
<1>3. In(c, l) <=> c[1] = l \/ More
  <2>1. DOMAIN c = 1..Len(c) /\ 1 \in 1..Len(c) BY <1>1
  <2>2. \A i \in 1..Len(c) : i = 1 \/ i \in 2..Len(c) BY <1>1
  <2>3. \A i \in 2..Len(c) : i \in 1..Len(c) BY <1>1
  <2> QED BY <2>1, <2>2, <2>3 DEF In
<1>4. In(Tail(c), l) <=> More
  <2>1. Tail(c) \in Seq(S) /\ Len(Tail(c)) = Len(c) - 1 /\ \A i \in 1..Len(Tail(c)) : Tail(c)[i] = c[i + 1]
    BY <1>1, HeadTailProperties
  <2>2. DOMAIN Tail(c) = 1..(Len(c) - 1) BY <2>1
  <2>3. ASSUME NEW i \in 1..(Len(c) - 1) PROVE i + 1 \in 2..Len(c) /\ Tail(c)[i] = c[i + 1]
    BY <1>1, <2>1
  <2>4. ASSUME NEW i \in 2..Len(c) PROVE i - 1 \in 1..(Len(c) - 1) /\ (i - 1) + 1 = i
    BY <1>1
  <2> QED BY <2>2, <2>3, <2>4 DEF In
<1> QED BY <1>2, <1>3, <1>4 DEF r

\* What is in a list of no, one or two labels.
LEMMA InFew ==
    /\ \A l : ~In(<<>>, l)
    /\ \A a, l : In(<<a>>, l) <=> l = a
    /\ \A a, b, l : In(<<a, b>>, l) <=> l = a \/ l = b
<1>1. ASSUME NEW a, NEW b, NEW l PROVE In(<<a, b>>, l) <=> l = a \/ l = b BY DEF In
<1>2. ASSUME NEW a, NEW l PROVE In(<<a>>, l) <=> l = a BY DEF In
<1>3. ASSUME NEW l PROVE ~In(<<>>, l) BY DEF In
<1> QED BY <1>1, <1>2, <1>3

\* A label that occurs once is gone when it is taken, and does not come to occur twice.
LEMMA ThenOnce ==
    ASSUME NEW S, NEW c \in Seq(S), c # <<>>, NEW ls \in Seq(S), NEW l, Once(c, l)
    PROVE  /\ c[1] = l => ~In(Tail(c), l)
           /\ ~In(ls, l) => Once(ls \o Tail(c), l)
           /\ Once(ls, l) /\ ~In(c, l) => Once(ls \o Tail(c), l)
<1> DEFINE r == ls \o Tail(c)
<1>1. /\ Len(c) \in Nat /\ Len(c) >= 1 /\ Len(ls) \in Nat
      /\ r \in Seq(S) /\ Len(r) = Len(ls) + (Len(c) - 1)
      /\ \A i \in 1..Len(ls) : r[i] = ls[i]
      /\ \A i \in 2..Len(c) : r[Len(ls) + (i - 1)] = c[i]
  BY ThenFact
<1>2. /\ DOMAIN c = 1..Len(c) /\ DOMAIN ls = 1..Len(ls) /\ DOMAIN r = 1..Len(r)
      /\ 1 \in 1..Len(c)
      /\ DOMAIN Tail(c) = 1..(Len(c) - 1) /\ \A i \in 1..(Len(c) - 1) : Tail(c)[i] = c[i + 1]
  <2>1. Tail(c) \in Seq(S) /\ Len(Tail(c)) = Len(c) - 1 /\ \A i \in 1..Len(Tail(c)) : Tail(c)[i] = c[i + 1]
    BY <1>1, HeadTailProperties
  <2>2. 1 \in 1..Len(c) BY <1>1
  <2> QED BY <2>1, <2>2, <1>1
<1> HIDE DEF r
<1>3. ASSUME c[1] = l, NEW i \in 1..(Len(c) - 1), Tail(c)[i] = l PROVE FALSE
  <2>1. i + 1 \in 1..Len(c) /\ i + 1 # 1 BY <1>1
  <2>2. c[i + 1] = l BY <1>2, <1>3
  <2> QED BY <2>1, <2>2, <1>2, <1>3 DEF Once
<1>4. ASSUME NEW i \in 1..Len(r), r[i] = l, ~(i \in 1..Len(ls))
      PROVE  /\ i - Len(ls) + 1 \in 1..Len(c) /\ c[i - Len(ls) + 1] = l
  <2> DEFINE j == i - Len(ls) + 1
  <2>1. j \in 2..Len(c) /\ j \in 1..Len(c) /\ Len(ls) + (j - 1) = i BY <1>1, <1>4
  <2> HIDE DEF j
  <2>2. c[j] = l BY <2>1, <1>1, <1>4
  <2> QED BY <2>1, <2>2 DEF j
<1>5. ASSUME ~In(ls, l), NEW i \in 1..Len(r), NEW j \in 1..Len(r), r[i] = l, r[j] = l
      PROVE  i = j
  <2>1. ~(i \in 1..Len(ls)) /\ ~(j \in 1..Len(ls)) BY <1>1, <1>2, <1>5 DEF In
  <2>2. /\ i - Len(ls) + 1 \in 1..Len(c) /\ c[i - Len(ls) + 1] = l
        /\ j - Len(ls) + 1 \in 1..Len(c) /\ c[j - Len(ls) + 1] = l
    BY <2>1, <1>4, <1>5
  <2>3. i - Len(ls) + 1 = j - Len(ls) + 1 BY <2>2, <1>2 DEF Once
  <2> QED BY <2>3, <1>1
<1>6. ASSUME Once(ls, l), ~In(c, l), NEW i \in 1..Len(r), NEW j \in 1..Len(r), r[i] = l, r[j] = l
      PROVE  i = j
  <2>1. i \in 1..Len(ls) /\ j \in 1..Len(ls) BY <1>4, <1>2, <1>6 DEF In
  <2>2. ls[i] = l /\ ls[j] = l BY <2>1, <1>1, <1>6
  <2> QED BY <2>1, <2>2, <1>2, <1>6 DEF Once
<1>7. c[1] = l => ~In(Tail(c), l) BY <1>2, <1>3 DEF In
<1>8. ~In(ls, l) => Once(r, l) BY <1>2, <1>5 DEF Once
<1>9. Once(ls, l) /\ ~In(c, l) => Once(r, l) BY <1>2, <1>6 DEF Once
<1> QED BY <1>7, <1>8, <1>9 DEF r

\* The event walk and ni20_run stay what they are when a list of their own is put in front.
LEMMA RunThen ==
    ASSUME NEW c, RunShape(c), c # <<>>, NEW ls, RunShape(ls)
    PROVE  RunShape(ls \o Tail(c))
<1> DEFINE r == ls \o Tail(c)
<1>1. c \in Seq(RunStep) /\ ls \in Seq(RunStep) BY DEF RunShape
<1>2. /\ Len(c) \in Nat /\ Len(c) >= 1 /\ Len(ls) \in Nat
      /\ r \in Seq(RunStep) /\ Len(r) = Len(ls) + (Len(c) - 1)
      /\ \A i \in 1..Len(ls) : r[i] = ls[i]
      /\ \A i \in 2..Len(c) : r[Len(ls) + (i - 1)] = c[i]
  BY <1>1, ThenFact
<1> HIDE DEF r
<1>3. ASSUME NEW i \in 2..Len(r) PROVE r[i] # "enable"
  <2>1. CASE i <= Len(ls)
    <3>1. i \in 1..Len(ls) /\ i \in 2..Len(ls) BY <2>1, <1>2
    <3> QED BY <3>1, <1>2 DEF RunShape
  <2>2. CASE ~(i <= Len(ls))
    <3> DEFINE j == (i - Len(ls)) + 1
    <3>1. j \in 2..Len(c) /\ Len(ls) + (j - 1) = i BY <2>2, <1>2
    <3> HIDE DEF j
    <3> QED BY <3>1, <1>2 DEF RunShape
  <2> QED BY <2>1, <2>2
<1> QED BY <1>2, <1>3 DEF RunShape, r

\* ni20_enable comes first or not at all.
LEMMA RunThenHead ==
    ASSUME NEW c, RunShape(c), c # <<>>, NEW ls, RunShape(ls),
           ls \o Tail(c) # <<>>, (ls \o Tail(c))[1] = "enable"
    PROVE  ls # <<>> /\ ls[1] = "enable"
<1> DEFINE r == ls \o Tail(c)
<1>1. c \in Seq(RunStep) /\ ls \in Seq(RunStep) BY DEF RunShape
<1>2. /\ Len(c) \in Nat /\ Len(c) >= 1 /\ Len(ls) \in Nat
      /\ r \in Seq(RunStep) /\ Len(r) = Len(ls) + (Len(c) - 1)
      /\ \A i \in 1..Len(ls) : r[i] = ls[i]
      /\ \A i \in 2..Len(c) : r[Len(ls) + (i - 1)] = c[i]
  BY <1>1, ThenFact
<1>3. r # <<>> /\ r[1] = "enable" OBVIOUS
<1> HIDE DEF r
<1>4. Len(r) >= 1
  <2>1. Len(r) \in Nat /\ Len(r) # 0 BY <1>2, <1>3, EmptySeq
  <2> QED BY <2>1
<1>5. Len(ls) # 0
  <2> SUFFICES ASSUME Len(ls) = 0 PROVE FALSE OBVIOUS
  <2>1. 2 \in 2..Len(c) /\ Len(ls) + (2 - 1) = 1 BY <1>2, <1>4
  <2>2. r[1] = c[2] BY <2>1, <1>2
  <2> QED BY <2>1, <2>2, <1>3 DEF RunShape
<1>6. 1 \in 1..Len(ls) BY <1>2, <1>5
<1>7. ls # <<>> BY <1>5
<1> QED BY <1>2, <1>3, <1>6, <1>7

\* Nothing of a stop enables the port.
LEMMA StopHead ==
    ASSUME NEW c, StopShape(c), c # <<>>
    PROVE  c[1] # "enable"
<1>1. c \in Seq(StopStep) BY DEF StopShape
<1>2. Len(c) \in Nat /\ Len(c) # 0 BY <1>1, EmptySeq
<1>3. 1 \in 1..Len(c) BY <1>2
<1>4. c[1] \in StopStep BY <1>1, <1>3
<1> QED BY <1>4 DEF StopStep, Wait

\* ni20_stop goes on: what is next when one of its steps has been taken.
LEMMA StopPop ==
    ASSUME NEW c, StopShape(c), c # <<>>
    PROVE  /\ StopShape(<<>> \o Tail(c))
           /\ c[1] = "quit" => (<<>> \o Tail(c)) # <<>> /\ (<<>> \o Tail(c))[1] = "ringW"
           /\ c[1] = "ringW" /\ <<>> \o Tail(c) # <<>> => (<<>> \o Tail(c))[1] \notin {"quit", "stop"}
           /\ c[1] = "stop" => \A l : In(<<>> \o Tail(c), l) => l = "clear"
           /\ c[1] = "clear" => <<>> \o Tail(c) = <<>>
<1> DEFINE r == <<>> \o Tail(c)
<1>1. c \in Seq(StopStep) /\ <<>> \in Seq(StopStep) /\ Len(<<>>) = 0 BY DEF StopShape
<1>2. /\ Len(c) \in Nat /\ Len(c) >= 1
      /\ r \in Seq(StopStep) /\ Len(r) = Len(c) - 1
      /\ \A i \in 2..Len(c) : r[i - 1] = c[i]
  <2>1. /\ Len(c) \in Nat /\ Len(c) >= 1
        /\ r \in Seq(StopStep) /\ Len(r) = Len(<<>>) + (Len(c) - 1)
        /\ \A i \in 2..Len(c) : r[Len(<<>>) + (i - 1)] = c[i]
    BY <1>1, ThenFact
  <2>2. \A i \in 2..Len(c) : Len(<<>>) + (i - 1) = i - 1 BY <1>1
  <2> QED BY <2>1, <2>2, <1>1
<1> HIDE DEF r
<1>3. ASSUME NEW i \in 1..Len(r)
      PROVE  /\ i + 1 \in 1..Len(c) /\ i + 1 > 1 /\ r[i] = c[i + 1] /\ (i < Len(r) <=> i + 1 < Len(c))
             /\ (i + 1) - 1 = i /\ i \in 1..Len(c) /\ i < Len(c)
             /\ i < Len(r) => i + 1 \in 1..Len(r) /\ (i + 1) + 1 \in 1..Len(c) /\ r[i + 1] = c[(i + 1) + 1]
             /\ i > 1 => i - 1 \in 1..Len(r) /\ r[i - 1] = c[i]
  <2>1. \A j \in 1..Len(r) : j + 1 \in 2..Len(c) /\ (j + 1) - 1 = j BY <1>2
  <2>2. \A j \in 1..Len(r) : r[j] = c[j + 1] BY <1>2, <2>1
  <2>3. i < Len(r) => i + 1 \in 1..Len(r) /\ (i + 1) + 1 \in 1..Len(c) BY <1>2
  <2>4. i > 1 => i - 1 \in 1..Len(r) /\ (i - 1) + 1 = i BY <1>2
  <2>5. /\ i + 1 \in 1..Len(c) /\ i + 1 > 1 /\ (i < Len(r) <=> i + 1 < Len(c))
        /\ (i + 1) - 1 = i /\ i \in 1..Len(c) /\ i < Len(c)
    BY <1>2
  <2> QED BY <2>2, <2>3, <2>4, <2>5
<1>4. ASSUME NEW i \in 1..Len(r)
      PROVE  /\ r[i] = "quit" => i < Len(r) /\ r[i + 1] = "ringW"
             /\ r[i] = "stop" /\ i < Len(r) => r[i + 1] = "clear"
             /\ r[i] = "clear" => i = Len(r)
             /\ r[i] \in {"quit", "stop"} /\ i > 1 => r[i - 1] \in Wait
  <2>1. /\ c[i + 1] = "quit" => i + 1 < Len(c) /\ c[(i + 1) + 1] = "ringW"
        /\ c[i + 1] = "stop" /\ i + 1 < Len(c) => c[(i + 1) + 1] = "clear"
        /\ c[i + 1] = "clear" => i + 1 = Len(c)
        /\ c[i + 1] \in {"quit", "stop"} => c[(i + 1) - 1] \in Wait
    BY <1>3 DEF StopShape
  <2>2. i + 1 = Len(c) => i = Len(r) BY <1>2
  <2> QED BY <2>1, <2>2, <1>3
<1>5. StopShape(r) BY <1>2, <1>4 DEF StopShape
<1>6. 1 \in 1..Len(c) BY <1>2
<1>7. ASSUME 1 < Len(c) PROVE r # <<>> /\ r[1] = c[2] /\ 1 \in 1..Len(r)
  <2>1. 2 \in 2..Len(c) /\ 2 - 1 = 1 /\ 1 \in 1..Len(r) BY <1>2, <1>7
  <2>2. r[2 - 1] = c[2] BY <2>1, <1>2
  <2> QED BY <2>1, <2>2
<1>8. ASSUME r # <<>> PROVE 1 < Len(c)
  <2>1. Len(r) # 0 /\ Len(r) \in Nat BY <1>2, <1>8, EmptySeq
  <2> QED BY <2>1, <1>2
<1>9. c[1] = "quit" => r # <<>> /\ r[1] = "ringW" BY <1>6, <1>7 DEF StopShape
<1>10. c[1] = "ringW" /\ r # <<>> => r[1] \notin {"quit", "stop"}
  <2> SUFFICES ASSUME c[1] = "ringW", r # <<>> PROVE r[1] \notin {"quit", "stop"} OBVIOUS
  <2>1. 2 \in 1..Len(c) /\ r[1] = c[2] /\ 2 - 1 = 1 /\ 2 > 1 BY <1>2, <1>7, <1>8
  <2>2. c[2] \in {"quit", "stop"} => c[2 - 1] \in Wait BY <2>1 DEF StopShape
  <2> QED BY <2>1, <2>2 DEF Wait
<1>11. c[1] = "clear" => r = <<>> BY <1>6, <1>8 DEF StopShape
<1>12. ASSUME c[1] = "stop", NEW i \in 1..Len(r) PROVE r[i] = "clear"
  <2>1. 1 < Len(c) /\ i + 1 \in 1..Len(c) /\ r[i] = c[i + 1] BY <1>2, <1>3
  <2>2. c[1 + 1] = "clear" BY <2>1, <1>6, <1>12 DEF StopShape
  <2>3. 2 \in 1..Len(c) /\ 1 + 1 = 2 BY <2>1, <1>2
  <2>4. Len(c) = 2 BY <2>2, <2>3 DEF StopShape
  <2>5. i = 1 BY <2>1, <2>4
  <2> QED BY <2>1, <2>2, <2>5
<1>13. c[1] = "stop" => \A l : In(r, l) => l = "clear" BY <1>2, <1>12 DEF In
<1> QED BY <1>5, <1>9, <1>10, <1>11, <1>13 DEF r

\* A wait that is not over.
LEMMA StopWait ==
    ASSUME NEW c, StopShape(c), c # <<>>, c[1] \in Wait, NEW w \in Wait
    PROVE  StopShape(<<w>> \o Tail(c))
<1> DEFINE r == <<w>> \o Tail(c)
<1>1. c \in Seq(StopStep) /\ <<w>> \in Seq(StopStep) /\ Len(<<w>>) = 1 /\ <<w>>[1] = w
  BY DEF StopShape, StopStep
<1>2. /\ Len(c) \in Nat /\ Len(c) >= 1
      /\ r \in Seq(StopStep) /\ Len(r) = Len(c)
      /\ r[1] = w /\ \A i \in 2..Len(c) : r[i] = c[i]
  <2>1. /\ Len(c) \in Nat /\ Len(c) >= 1
        /\ r \in Seq(StopStep) /\ Len(r) = Len(<<w>>) + (Len(c) - 1)
        /\ \A i \in 1..Len(<<w>>) : r[i] = <<w>>[i]
        /\ \A i \in 2..Len(c) : r[Len(<<w>>) + (i - 1)] = c[i]
    BY <1>1, ThenFact
  <2>2. \A i \in 2..Len(c) : Len(<<w>>) + (i - 1) = i BY <1>1
  <2>3. 1 \in 1..Len(<<w>>) BY <1>1
  <2> QED BY <2>1, <2>2, <2>3, <1>1
<1> HIDE DEF r
<1>3. ASSUME NEW i \in 1..Len(r)
      PROVE  /\ r[i] = "quit" => i < Len(r) /\ r[i + 1] = "ringW"
             /\ r[i] = "stop" /\ i < Len(r) => r[i + 1] = "clear"
             /\ r[i] = "clear" => i = Len(r)
             /\ r[i] \in {"quit", "stop"} /\ i > 1 => r[i - 1] \in Wait
  <2>1. CASE i = 1 BY <2>1, <1>2 DEF Wait
  <2>2. CASE i # 1
    <3>1. i \in 1..Len(c) /\ i > 1 /\ r[i] = c[i] BY <2>2, <1>2
    <3>2. i < Len(r) => i + 1 \in 2..Len(c) BY <1>2
    <3>3. i < Len(r) => r[i + 1] = c[i + 1] BY <3>2, <1>2
    <3>4. c[i - 1] \in Wait => r[i - 1] \in Wait
      <4>1. CASE i - 1 = 1 BY <4>1, <1>2
      <4>2. CASE i - 1 # 1
        <5>1. i - 1 \in 2..Len(c) BY <4>2, <3>1, <1>2
        <5> QED BY <5>1, <1>2
      <4> QED BY <4>1, <4>2
    <3>5. /\ c[i] = "quit" => i < Len(c) /\ c[i + 1] = "ringW"
          /\ c[i] = "stop" /\ i < Len(c) => c[i + 1] = "clear"
          /\ c[i] = "clear" => i = Len(c)
          /\ c[i] \in {"quit", "stop"} => c[i - 1] \in Wait
      BY <3>1 DEF StopShape
    <3> QED BY <3>1, <3>3, <3>4, <3>5, <1>2
  <2> QED BY <2>1, <2>2
<1> QED BY <1>2, <1>3 DEF StopShape, r

\* The lists that the event walk and ni20_run put in front are of their own kind.
LEMMA RunFew ==
    /\ RunShape(<<>>) /\ RunShape(<<"run">>) /\ RunShape(<<"cmd">>) /\ RunShape(<<"ack">>)
    /\ RunShape(<<"ringR">>) /\ RunShape(<<"ringW">>) /\ RunShape(<<"enable">>)
    /\ RunShape(<<"enable", "ack">>) /\ RunShape(<<"ringR", "cmd">>)
    /\ RunShape(<<"ringW", "run">>) /\ RunShape(<<"wak", "don">>)
<1>1. ASSUME NEW a \in RunStep PROVE RunShape(<<a>>)
  <2>1. <<a>> \in Seq(RunStep) /\ Len(<<a>>) = 1 OBVIOUS
  <2> QED BY <2>1 DEF RunShape
<1>2. ASSUME NEW a \in RunStep, NEW b \in RunStep, b # "enable" PROVE RunShape(<<a, b>>)
  <2>1. <<a, b>> \in Seq(RunStep) /\ Len(<<a, b>>) = 2 /\ <<a, b>>[2] = b OBVIOUS
  <2>2. \A i \in 2..2 : i = 2 OBVIOUS
  <2> QED BY <2>1, <2>2, <1>2 DEF RunShape
<1>3. RunShape(<<>>) BY DEF RunShape
<1> QED BY <1>1, <1>2, <1>3 DEF RunStep

\* The lists that ni20_stop begins with are of its own kind.
LEMMA StopFew ==
    /\ StopShape(StopSteps) /\ StopShape(<<"clear">>) /\ StopShape(StopSteps \o <<"clear">>)
<1> USE DEF StopShape, StopStep, Wait
<1>1. StopShape(<<"clear">>) OBVIOUS
<1>2. StopShape(<<"stop">>) OBVIOUS
<1>3. StopShape(<<"xswait", "quit", "ringW", "xswait", "stop">>) OBVIOUS
<1>4. ASSUME NEW c \in Seq(StopStep), Len(c) = 6, c[1] = "xswait", c[2] = "quit",
             c[3] = "ringW", c[4] = "xswait", c[5] = "stop", c[6] = "clear"
      PROVE  StopShape(c)
  <2>1. \A i \in 1..6 : i = 1 \/ i = 2 \/ i = 3 \/ i = 4 \/ i = 5 \/ i = 6 OBVIOUS
  <2>2. ASSUME NEW i \in 1..6
        PROVE  /\ c[i] = "quit" => i < 6 /\ c[i + 1] = "ringW"
               /\ c[i] = "stop" /\ i < 6 => c[i + 1] = "clear"
               /\ c[i] = "clear" => i = 6
               /\ c[i] \in {"quit", "stop"} /\ i > 1 => c[i - 1] \in Wait
    BY <2>1, <1>4
  <2> QED BY <2>2, <1>4
<1>5. StopShape(<<"stop">> \o <<"clear">>)
  <2> DEFINE a == <<"stop">>
             c == a \o <<"clear">>
  <2>1. a \in Seq(StopStep) /\ <<"clear">> \in Seq(StopStep) /\ Len(a) = 1 /\ Len(<<"clear">>) = 1
        /\ a[1] = "stop" /\ <<"clear">>[1] = "clear" OBVIOUS
  <2> HIDE DEF a
  <2>2. /\ c \in Seq(StopStep) /\ Len(c) = 1 + 1
        /\ \A i \in 1..(1 + 1) : c[i] = IF i <= 1 THEN a[i] ELSE <<"clear">>[i - 1]
    BY <2>1, ConcatProperties
  <2> HIDE DEF c
  <2>3. Len(c) = 2 /\ c[1] = "stop" /\ c[2] = "clear" BY <2>1, <2>2
  <2>4. StopShape(c) BY <2>2, <2>3
  <2> QED BY <2>4 DEF a, c
<1>6. StopShape(<<"xswait", "quit", "ringW", "xswait", "stop">> \o <<"clear">>)
  <2> DEFINE a == <<"xswait", "quit", "ringW", "xswait", "stop">>
             b == <<"clear">>
             c == a \o b
  <2>1. a \in Seq(StopStep) /\ b \in Seq(StopStep) /\ Len(a) = 5 /\ Len(b) = 1 /\ b[1] = "clear"
    OBVIOUS
  <2>2. a[1] = "xswait" /\ a[2] = "quit" /\ a[3] = "ringW" /\ a[4] = "xswait" /\ a[5] = "stop"
    OBVIOUS
  <2> HIDE DEF a, b, StopShape, StopStep
  <2>3. /\ c \in Seq(StopStep) /\ Len(c) = 5 + 1
        /\ \A i \in 1..(5 + 1) : c[i] = IF i <= 5 THEN a[i] ELSE b[i - 5]
    <3>1. /\ c \in Seq(StopStep) /\ Len(c) = Len(a) + Len(b)
          /\ \A i \in 1..(Len(a) + Len(b)) : c[i] = IF i <= Len(a) THEN a[i] ELSE b[i - Len(a)]
      BY <2>1, ConcatProperties
    <3> QED BY <2>1, <3>1
  <2> HIDE DEF c
  <2>4. Len(c) = 6 /\ c[1] = "xswait" /\ c[2] = "quit" /\ c[3] = "ringW" /\ c[4] = "xswait"
        /\ c[5] = "stop" /\ c[6] = "clear"
    <3>1. \A i \in 1..5 : i \in 1..(5 + 1) /\ i <= 5 OBVIOUS
    <3>2. c[1] = a[1] /\ c[2] = a[2] /\ c[3] = a[3] /\ c[4] = a[4] /\ c[5] = a[5]
      BY <2>3, <3>1
    <3>3. 6 \in 1..(5 + 1) /\ ~(6 <= 5) /\ 6 - 5 = 1 /\ 5 + 1 = 6 OBVIOUS
    <3>4. c[6] = b[1] /\ Len(c) = 6 BY <2>3, <3>3
    <3> QED BY <2>1, <2>2, <3>2, <3>4
  <2>5. StopShape(c) BY <2>3, <2>4, <1>4
  <2> QED BY <2>5 DEF a, b, c
<1> QED BY <1>1, <1>2, <1>3, <1>5, <1>6 DEF StopSteps

-----------------------------------------------------------------------------
(* Where a step leaves the KLH10                                           *)

\* What the head of the list says of the whole of it.
LEMMA Heads ==
    ASSUME Shape, NEW a, At(a)
    PROVE  /\ ctl # <<>> /\ ctl[1] = a /\ ctl \in Seq(Step)
           /\ a \in RunStep \ {"ringW"} => RunShape(ctl)
           /\ a \in StopStep \ {"ringW"} => StopShape(ctl) /\ ~RunShape(ctl) /\ state = "HALT"
<1>1. ctl # <<>> /\ ctl[1] = a BY DEF At
<1>2. RunShape(ctl) => ctl \in Seq(RunStep) BY DEF RunShape
<1>3. StopShape(ctl) => ctl \in Seq(StopStep) BY DEF StopShape
<1>4. ASSUME NEW S, ctl \in Seq(S) PROVE ctl[1] \in S
  <2>1. Len(ctl) \in Nat /\ Len(ctl) >= 1 BY <1>1, <1>4, EmptySeq
  <2>2. 1 \in 1..Len(ctl) BY <2>1
  <2> QED BY <2>2, <1>4
<1>5. ctl \in Seq(Step) BY <1>2, <1>3 DEF Shape, Step
<1>6. RunShape(ctl) => a \in RunStep BY <1>1, <1>2, <1>4
<1>7. StopShape(ctl) => a \in StopStep BY <1>1, <1>3, <1>4
<1>8. RunStep \cap StopStep = {"ringW"} BY DEF RunStep, StopStep, Wait
<1> QED BY <1>1, <1>5, <1>6, <1>7, <1>8 DEF Shape

\* The labels after a step of the KLH10.
LEMMA ThenIn ==
    ASSUME Shape, NEW a, At(a), NEW ls \in Seq(Step), ctl' = ls \o Tail(ctl), NEW l
    PROVE  /\ Pending(l)' <=> In(ls, l) \/ In(Tail(ctl), l)
           /\ Pending(l) <=> l = a \/ In(Tail(ctl), l)
<1>1. ctl # <<>> /\ ctl[1] = a /\ ctl \in Seq(Step) BY Heads
<1>2. /\ In(ls \o Tail(ctl), l) <=> In(ls, l) \/ In(Tail(ctl), l)
      /\ In(ctl, l) <=> ctl[1] = l \/ In(Tail(ctl), l)
  BY <1>1, InThen
<1>3. Pending(l) <=> In(ctl, l) BY DEF Pending, In
<1>4. Pending(l)' <=> In(ls \o Tail(ctl), l) BY DEF Pending, In
<1> QED BY <1>1, <1>2, <1>3, <1>4

\* Part of Shape that is about what is left to do.
CtlShape ==
    /\ RunShape(ctl) \/ StopShape(ctl)
    /\ ~RunShape(ctl) => state = "HALT"
    /\ At("enable") => state = "RUN"

\* A step of the event walk or of ni20_run.
LEMMA RunGo ==
    ASSUME Shape, NEW a \in RunStep \ {"ringW"}, At(a), NEW ls, RunShape(ls), Then(ls),
           ls # <<>> /\ ls[1] = "enable" => state' = "RUN"
    PROVE  CtlShape'
<1> DEFINE r == ls \o Tail(ctl)
<1>1. ctl' = r BY DEF Then
<1>2. RunShape(ctl) /\ ctl # <<>> BY Heads
<1>3. RunShape(r) BY <1>2, RunThen
<1>4. r # <<>> /\ r[1] = "enable" => ls # <<>> /\ ls[1] = "enable" BY <1>2, RunThenHead
<1> HIDE DEF r
<1> QED BY <1>1, <1>3, <1>4 DEF CtlShape, At

\* A list left when the KLH10 was idle.
LEMMA RunBegin ==
    ASSUME NEW ls, ctl' = ls, RunShape(ls), ls # <<>> /\ ls[1] = "enable" => state' = "RUN"
    PROVE  CtlShape'
BY DEF CtlShape, At

\* A list of a stop that begins leaves the port halted.
LEMMA StopBegin ==
    ASSUME NEW ls, ctl' = ls, StopShape(ls), state' = "HALT"
    PROVE  CtlShape'
BY StopHead DEF CtlShape, At

\* A step that leaves the list and the state of the port alone keeps the shape.
LEMMA CtlSame ==
    ASSUME Shape, UNCHANGED <<ctl, state>>
    PROVE  CtlShape'
BY DEF CtlShape, Shape, At, RunShape, StopShape

\* ni20_run goes round its loop again.
LEMMA AndRun ==
    ASSUME NEW ls, RunShape(ls)
    PROVE  /\ RunShape(ls \o <<"run">>)
           /\ ls \o <<"run">> # <<>> /\ (ls \o <<"run">>)[1] = "enable" => ls # <<>> /\ ls[1] = "enable"
           /\ \A l : In(ls \o <<"run">>, l) <=> In(ls, l) \/ l = "run"
<1> DEFINE c == <<"run", "run">>
<1>1. RunShape(c) /\ c # <<>> BY DEF RunShape, RunStep
<1>2. c \in Seq(RunStep) /\ ls \in Seq(RunStep) BY <1>1 DEF RunShape
<1>3. Tail(c) = <<"run">> OBVIOUS
<1> HIDE DEF c
<1>4. RunShape(ls \o Tail(c)) BY <1>1, RunThen
<1>5. ls \o Tail(c) # <<>> /\ (ls \o Tail(c))[1] = "enable" => ls # <<>> /\ ls[1] = "enable"
  BY <1>1, RunThenHead
<1>6. \A l : In(ls \o Tail(c), l) <=> In(ls, l) \/ In(Tail(c), l) BY <1>1, <1>2, InThen
<1>7. ASSUME NEW l PROVE In(Tail(c), l) <=> l = "run"
  <2>1. In(<<"run">>, l) <=> l = "run" BY DEF In
  <2> QED BY <2>1, <1>3
<1> QED BY <1>3, <1>4, <1>5, <1>6, <1>7

\* Every step of the event walk, of ni20_run and of ni20_enable keeps the shape.
LEMMA RunCtl ==
    ASSUME Shape, RingR \/ EvHrwak \/ Ack \/ EvHsdon \/ RunBlocked \/ RunRelink \/ RunPacket
                  \/ RunNoPacket \/ RunDone \/ RunResched \/ RunEmpty \/ RunSnddg \/ RunWrtnsa
                  \/ Enable
    PROVE  CtlShape'
<1>1. CASE RingR BY <1>1, RunGo, RunFew DEF RingR, RunStep
<1>2. CASE EvHrwak BY <1>2, RunGo, RunFew DEF EvHrwak, RunStep
<1>3. CASE Ack BY <1>3, RunGo, RunFew DEF Ack, RunStep
<1>4. CASE EvHsdon BY <1>4, RunGo, RunFew DEF EvHsdon, RunStep
<1>5. CASE RunBlocked BY <1>5, RunGo, RunFew DEF RunBlocked, RunStep
<1>6. CASE RunRelink BY <1>6, CtlSame DEF RunRelink, niVars
<1>7. CASE RunPacket BY <1>7, RunGo, RunFew DEF RunPacket, RunStep
<1>8. CASE RunNoPacket BY <1>8, RunGo, RunFew DEF RunNoPacket, RunStep
<1>9. CASE RunDone BY <1>9, RunGo, RunFew DEF RunDone, RunStep
<1>10. CASE RunResched BY <1>10, RunGo, RunFew DEF RunResched, RunStep
<1>11. CASE RunEmpty BY <1>11, RunGo, RunFew DEF RunEmpty, CmdReady, RunStep
<1>12. ASSUME At("cmd"), NEW ls, RunShape(ls), ~(ls # <<>> /\ ls[1] = "enable"), CmdBack(ls)
       PROVE  CtlShape'
  <2>1. PICK q : Then(IF q \in locked THEN ls ELSE ls \o <<"run">>) BY <1>12 DEF CmdBack
  <2>2. "cmd" \in RunStep \ {"ringW"} BY DEF RunStep
  <2>3. CASE q \in locked BY <2>1, <2>2, <2>3, <1>12, RunGo
  <2>4. CASE q \notin locked
    <3>1. Then(ls \o <<"run">>) BY <2>1, <2>4
    <3>2. RunShape(ls \o <<"run">>) BY <1>12, AndRun
    <3>3. ~(ls \o <<"run">> # <<>> /\ (ls \o <<"run">>)[1] = "enable") BY <1>12, AndRun
    <3> QED BY <2>2, <3>1, <3>2, <3>3, <1>12, RunGo
  <2> QED BY <2>3, <2>4
<1>13. CASE RunSnddg BY <1>13, <1>12, RunFew DEF RunSnddg, CmdReady
<1>14. CASE RunWrtnsa BY <1>14, <1>12, RunFew DEF RunWrtnsa, CmdReady
<1>15. CASE Enable BY <1>15, RunGo, RunFew DEF Enable, RunStep
<1> QED BY <1>1, <1>2, <1>3, <1>4, <1>5, <1>6, <1>7, <1>8, <1>9, <1>10, <1>11, <1>13, <1>14, <1>15

\* Every step of ni20_stop, and the ring that sends W its signal, keeps the shape.
LEMMA StopCtl ==
    ASSUME Shape, RingW \/ QuitTest \/ QuitSuspend \/ OtherSignal \/ Quit \/ Stop \/ Clear
    PROVE  CtlShape'
<1>1. ASSUME StopShape(ctl), ctl # <<>>, Then(<<>>), state = "HALT", UNCHANGED state
      PROVE  CtlShape'
  <2>1. StopShape(<<>> \o Tail(ctl)) BY <1>1, StopPop
  <2>2. ctl' = <<>> \o Tail(ctl) BY <1>1 DEF Then
  <2> QED BY <2>1, <2>2, <1>1, StopBegin
<1>2. ASSUME StopShape(ctl), ctl # <<>>, ctl[1] \in Wait, NEW w \in Wait, Then(<<w>>),
             state = "HALT", UNCHANGED state
      PROVE  CtlShape'
  <2>1. StopShape(<<w>> \o Tail(ctl)) BY <1>2, StopWait
  <2>2. ctl' = <<w>> \o Tail(ctl) BY <1>2 DEF Then
  <2> QED BY <2>1, <2>2, <1>2, StopBegin
<1>3. ASSUME NEW a \in StopStep \ {"ringW"}, At(a)
      PROVE  StopShape(ctl) /\ ctl # <<>> /\ ctl[1] = a /\ state = "HALT"
  BY <1>3, Heads
<1>4. CASE RingW
  <2>1. At("ringW") /\ Then(<<>>) /\ UNCHANGED state BY <1>4 DEF RingW, niVars
  <2>2. CASE RunShape(ctl)
    <3>1. ctl # <<>> BY <2>1 DEF At
    <3>2. RunShape(<<>> \o Tail(ctl)) BY <2>2, <3>1, RunThen, RunFew
    <3>3. ~(<<>> \o Tail(ctl) # <<>> /\ (<<>> \o Tail(ctl))[1] = "enable")
      BY <2>2, <3>1, RunThenHead, RunFew
    <3>4. ctl' = <<>> \o Tail(ctl) BY <2>1 DEF Then
    <3> QED BY <3>2, <3>3, <3>4, RunBegin
  <2>3. CASE ~RunShape(ctl) BY <2>1, <2>3, <1>1 DEF Shape, At
  <2> QED BY <2>2, <2>3
<1>5. CASE QuitTest
  <2>1. At("xswait") /\ UNCHANGED state BY <1>5 DEF QuitTest, niVars
  <2>2. StopShape(ctl) /\ ctl # <<>> /\ ctl[1] = "xswait" /\ state = "HALT"
    BY <2>1, <1>3 DEF StopStep, Wait
  <2>3. "xswait" \in Wait /\ "suspend" \in Wait BY DEF Wait
  <2>4. Then(<<>>) \/ Then(<<"suspend">>) BY <1>5 DEF QuitTest
  <2> QED BY <2>1, <2>2, <2>3, <2>4, <1>1, <1>2
<1>6. CASE QuitSuspend BY <1>6, <1>2, <1>3 DEF QuitSuspend, niVars, StopStep, Wait
<1>7. CASE OtherSignal BY <1>7, <1>2, <1>3 DEF OtherSignal, niVars, StopStep, Wait
<1>8. CASE Quit BY <1>8, <1>1, <1>3 DEF Quit, niVars, StopStep
<1>9. CASE Stop BY <1>9, <1>1, <1>3 DEF Stop, StopStep
<1>10. CASE Clear BY <1>10, <1>1, <1>3 DEF Clear, StopStep
<1> QED BY <1>4, <1>5, <1>6, <1>7, <1>8, <1>9, <1>10

\* What begins when the KLH10 has nothing left to do has one of the two shapes.
LEMMA IdleCtl ==
    ASSUME Shape, EvBegin \/ RunClk \/ Cono
    PROVE  CtlShape'
<1>1. RunShape(ctl) \/ ctl # <<>> BY RunFew
<1>2. CASE EvBegin BY <1>2, RunBegin, RunFew DEF EvBegin, Leave
<1>3. CASE RunClk BY <1>3, RunBegin, RunFew DEF RunClk, Leave
<1>4. CASE ConoStart BY <1>4, RunBegin, RunFew DEF ConoStart, Idle
<1>5. CASE ConoEnable BY <1>5, RunBegin, RunFew DEF ConoEnable, Begin
<1>6. CASE ConoDisable BY <1>6, RunBegin, RunFew DEF ConoDisable, Leave
<1>7. CASE ConoQueue BY <1>7, RunBegin, RunFew DEF ConoQueue, Leave
<1>8. CASE ConoStop BY <1>8, StopBegin, StopFew DEF ConoStop, Begin
<1>9. CASE ConoClear BY <1>9, StopBegin, StopFew DEF ConoClear, Begin
<1> QED BY <1>2, <1>3, <1>4, <1>5, <1>6, <1>7, <1>8, <1>9 DEF Cono

\* The subprocesses touch it only to end the wait for a signal.
LEMMA SignalCtl ==
    ASSUME Shape, Signalled, UNCHANGED state
    PROVE  CtlShape'
<1>1. CASE At("nap")
  <2>1. ctl' = <<"xswait">> \o Tail(ctl) BY <1>1 DEF Signalled, At
  <2>2. StopShape(ctl) /\ ctl # <<>> /\ ctl[1] = "nap" /\ state = "HALT"
    BY <1>1, Heads DEF StopStep, Wait
  <2>3. StopShape(<<"xswait">> \o Tail(ctl)) BY <2>2, StopWait DEF Wait
  <2> QED BY <2>1, <2>2, <2>3, StopBegin
<1>2. CASE ~At("nap") BY <1>2, CtlSame DEF Signalled, At
<1> QED BY <1>1, <1>2

\* The subprocesses' own steps keep the shape.
LEMMA DpCtl ==
    ASSUME Shape, WSteps \/ RSteps \/ RPacket \/ RGiveUp \/ UNCHANGED vars
    PROVE  CtlShape'
<1>1. CASE WKill BY <1>1, SignalCtl DEF WKill, wFrame, niVars
<1>2. CASE RKill BY <1>2, SignalCtl DEF RKill, rFrame, niVars
<1>3. CASE WBoot \/ WTest \/ WWake \/ WExec \/ WFail \/ WDone \/ WFlag
  BY <1>3, CtlSame DEF WBoot, WTest, WWake, WExec, WFail, WDone, WFlag, wFrame, niVars
<1>4. CASE RTest \/ RWake \/ RSendInit \/ RFlag \/ RPacket \/ RGiveUp
  BY <1>4, CtlSame DEF RTest, RWake, RSendInit, RFlag, RPacket, RGiveUp, rFrame, niVars
<1>5. CASE UNCHANGED vars BY <1>5, CtlSame DEF vars, niVars
<1> QED BY <1>1, <1>2, <1>3, <1>4, <1>5 DEF WSteps, RSteps

\* Every step keeps the shape of the list.
LEMMA CtlStep ==
    ASSUME Shape, [Next]_vars
    PROVE  CtlShape'
BY RunCtl, StopCtl, IdleCtl, DpCtl DEF Next, Main

-----------------------------------------------------------------------------
(* The buffers                                                             *)

Buffer == [rdy : BOOLEAN, cmd : Command, tag : {0, 1}]
Boxes  == [{"to", "fr"} -> Buffer]

\* dp_xsend: the buffer is full with the command given, the other one untouched.
LEMMA Sent ==
    ASSUME box \in Boxes, NEW b \in {"to", "fr"}, NEW c \in Command, dp_xsend(b, c)
    PROVE  /\ box' \in Boxes
           /\ box'[b].rdy = TRUE /\ box'[b].cmd = c
           /\ \A d \in {"to", "fr"} \ {b} : box'[d] = box[d]
<1>1. box[b] \in Buffer /\ box[b].tag \in {0, 1} BY DEF Boxes, Buffer
<1>2. 1 - box[b].tag \in {0, 1} BY <1>1
<1>3. [rdy |-> TRUE, cmd |-> c, tag |-> 1 - box[b].tag] \in Buffer BY <1>2 DEF Buffer
<1>4. box' = [box EXCEPT ![b] = [rdy |-> TRUE, cmd |-> c, tag |-> 1 - box[b].tag]] BY DEF dp_xsend
<1> QED BY <1>3, <1>4 DEF Boxes

\* dp_xrdone: the buffer is free, its command still in it, the other one untouched.
LEMMA Freed ==
    ASSUME box \in Boxes, NEW b \in {"to", "fr"}, dp_xrdone(b)
    PROVE  /\ box' \in Boxes
           /\ box'[b].rdy = FALSE /\ box'[b].cmd = box[b].cmd
           /\ \A d \in {"to", "fr"} \ {b} : box'[d] = box[d]
<1>1. box[b] \in Buffer BY DEF Boxes
<1>2. /\ [box[b] EXCEPT !.rdy = FALSE, !.tag = 0] \in Buffer
      /\ [box[b] EXCEPT !.rdy = FALSE, !.tag = 0].rdy = FALSE
      /\ [box[b] EXCEPT !.rdy = FALSE, !.tag = 0].cmd = box[b].cmd
  BY <1>1 DEF Buffer
<1>3. box' = [box EXCEPT ![b] = [box[b] EXCEPT !.rdy = FALSE, !.tag = 0]] BY DEF dp_xrdone, Boxes
<1> QED BY <1>2, <1>3 DEF Boxes

-----------------------------------------------------------------------------
(* Types                                                                   *)

\* TypeOK in three parts: the buffers, the labels, everything else.
CtlTyped == \A i \in DOMAIN ctl : ctl[i] \in Step
Scalars ==
    /\ {don, wak, evsig, dpstate, wantEna, pktinf, cmdqf, docheck, sigW, sigR, rinit}
           \subseteq BOOLEAN
    /\ state \in {"HALT", "RUN", "ENA"}
    /\ relink \in {NoQueue, "resp", "free"} /\ limbo \in Nat
    /\ locked \subseteq Locks
    /\ want \in Seq(Cmds) /\ Len(want) <= MaxQ
    /\ {ethadr, dpeth, rqeth} \subseteq Adr
    /\ W \in {"gone", "boot", "test", "sleep", "exec", "done", "flag", "kill"}
    /\ R \in {"gone", "test", "sleep", "fill", "flag", "kill"}
    /\ starts \in 0..MaxStarts
\* TypeOK is the conjunction of its three parts.
LEMMA TypeParts == TypeOK <=> box \in Boxes /\ CtlTyped /\ Scalars
BY DEF TypeOK, Boxes, Buffer, CtlTyped, Scalars, Step, RunStep, StopStep, Wait

\* Every step leaves two buffers of the right type.
LEMMA BoxStep ==
    ASSUME box \in Boxes, [Next]_vars
    PROVE  box' \in Boxes
<1>1. CASE Enable \/ Quit BY <1>1, Sent DEF Enable, Quit, Command
<1>2. CASE RunSnddg \/ RunWrtnsa BY <1>2, Sent DEF RunSnddg, RunWrtnsa, Command
<1>3. CASE RSendInit \/ RPacket BY <1>3, Sent DEF RSendInit, RPacket, Command
<1>4. CASE Ack \/ RunPacket \/ WDone BY <1>4, Freed DEF Ack, RunPacket, WDone
<1>5. CASE \/ RingW \/ RingR \/ EvHrwak \/ EvHsdon \/ RunBlocked \/ RunRelink \/ RunNoPacket
           \/ RunDone \/ RunResched \/ RunEmpty \/ QuitTest \/ QuitSuspend \/ OtherSignal
           \/ Stop \/ Clear
  BY <1>5 DEF RingW, RingR, EvHrwak, EvHsdon, RunBlocked, RunRelink, RunNoPacket, RunDone,
     RunResched, RunEmpty, QuitTest, QuitSuspend, OtherSignal, Stop, Clear, linkVars
<1>6. CASE EvBegin \/ RunClk \/ Cono
  BY <1>6 DEF EvBegin, RunClk, Cono, ConoStart, ConoEnable, ConoDisable, ConoQueue, ConoStop,
     ConoClear, linkVars
<1>7. CASE \/ WBoot \/ WTest \/ WWake \/ WExec \/ WFail \/ WFlag \/ WKill
           \/ RTest \/ RWake \/ RGiveUp \/ RFlag \/ RKill \/ UNCHANGED vars
  BY <1>7 DEF WBoot, WTest, WWake, WExec, WFail, WFlag, WKill, RTest, RWake,
     RGiveUp, RFlag, RKill, vars, linkVars
<1> QED BY <1>1, <1>2, <1>3, <1>4, <1>5, <1>6, <1>7 DEF Next, Main, WSteps, RSteps

\* The KLH10's steps keep every other variable in its range.
LEMMA RunScalars ==
    ASSUME Scalars, Shape, Main \/ OtherSignal
    PROVE  Scalars'
<1> USE DEF linkVars, niVars, queVars, adrVars, dpVars
<1>0. ASSUME NEW ls, Then(ls) PROVE locked' \subseteq Locks BY <1>0 DEF Then, Scalars
<1>1. CASE RingW \/ RingR BY <1>1, <1>0 DEF RingW, RingR, Listening, Scalars
<1>2. CASE EvHrwak BY <1>2, <1>0 DEF EvHrwak, Scalars
<1>3. CASE Ack BY <1>3, <1>0 DEF Ack, Scalars
<1>4. CASE EvHsdon BY <1>4, <1>0 DEF EvHsdon, Scalars
<1>5. CASE RunBlocked \/ RunNoPacket \/ RunDone \/ RunResched \/ RunEmpty
  <2>1. locked' \subseteq Locks
    BY <1>5, <1>0 DEF RunBlocked, RunNoPacket, RunDone, RunResched, RunEmpty
  <2> QED BY <1>5, <2>1 DEF RunBlocked, RunNoPacket, RunDone, RunResched, RunEmpty, Scalars
<1>6. CASE RunRelink BY <1>6 DEF RunRelink, Scalars, Shape, NoQueue
<1>15. ASSUME NEW q \in {"resp", "free"}, ni_qeput(q) \/ UNCHANGED <<relink, limbo, docheck>>
       PROVE  relink' \in {NoQueue, "resp", "free"} /\ limbo' \in Nat /\ docheck' \in BOOLEAN
  <2>1. docheck \in BOOLEAN /\ limbo \in Nat /\ relink \in {NoQueue, "resp", "free"}
    BY DEF Scalars
  <2>2. CASE ni_qeput(q)
    <3>1. /\ relink' = q \/ relink' = relink
          /\ limbo' = limbo + 1 \/ limbo' = limbo
          /\ docheck' = TRUE \/ docheck' = docheck
      BY <2>2 DEF ni_qeput
    <3>2. limbo + 1 \in Nat BY <2>1
    <3> QED BY <3>1, <3>2, <2>1
  <2>3. CASE UNCHANGED <<relink, limbo, docheck>> BY <2>1, <2>3
  <2> QED BY <1>15, <2>2, <2>3
<1>7. CASE RunPacket
  <2>1. locked' \subseteq Locks BY <1>7, <1>0 DEF RunPacket
  <2>2. relink' \in {NoQueue, "resp", "free"} /\ limbo' \in Nat /\ docheck' \in BOOLEAN
    BY <1>7, <1>15 DEF RunPacket
  <2>3. pktinf' \in BOOLEAN BY <1>7 DEF RunPacket, Scalars
  <2> QED BY <1>7, <2>1, <2>2, <2>3 DEF RunPacket, Scalars
<1>8. ASSUME want # <<>>, want' = Tail(want) PROVE want' \in Seq(Cmds) /\ Len(want') <= MaxQ
  BY <1>8, NiAssumption, HeadTailProperties DEF Scalars
<1>16. ASSUME NEW ls, CmdBack(ls), want # <<>>, want' = Tail(want), rqeth' \in Adr, UNCHANGED starts
       PROVE  Scalars'
  <2>1. locked' \subseteq Locks BY <1>16, <1>0 DEF CmdBack
  <2>2. relink' \in {NoQueue, "resp", "free"} /\ limbo' \in Nat /\ docheck' \in BOOLEAN
    BY <1>16, <1>15 DEF CmdBack
  <2>3. want' \in Seq(Cmds) /\ Len(want') <= MaxQ BY <1>16, <1>8
  <2>4. UNCHANGED <<don, wak, evsig, state, dpstate, wantEna, pktinf, cmdqf, ethadr, dpeth,
                    W, R, sigW, sigR, rinit>>
    BY <1>16 DEF CmdBack
  <2> QED BY <1>16, <2>1, <2>2, <2>3, <2>4 DEF Scalars
<1>9. CASE RunSnddg BY <1>9, <1>16 DEF RunSnddg, CmdBack, Scalars
<1>10. CASE RunWrtnsa BY <1>10, <1>16 DEF RunWrtnsa, CmdBack, Scalars
<1>11. CASE Enable BY <1>11, <1>0 DEF Enable, Scalars
<1>12. CASE QuitTest \/ QuitSuspend \/ OtherSignal \/ Quit
  BY <1>12, <1>0 DEF QuitTest, QuitSuspend, OtherSignal, Quit, Scalars
<1>13. CASE Stop BY <1>13, <1>0 DEF Stop, Scalars
<1>14. CASE Clear BY <1>14, <1>0 DEF Clear, Scalars
<1> QED BY <1>1, <1>2, <1>3, <1>4, <1>5, <1>6, <1>7, <1>9, <1>10, <1>11, <1>12, <1>13, <1>14 DEF Main

\* So do the monitor's steps and the subprocesses'.
LEMMA OtherScalars ==
    ASSUME Scalars, EvBegin \/ RunClk \/ Cono \/ WSteps \/ RSteps \/ RPacket \/ RGiveUp \/ UNCHANGED vars
    PROVE  Scalars'
<1> USE DEF linkVars, niVars, queVars, adrVars, dpVars, Leave, Begin
<1>1. CASE EvBegin \/ RunClk BY <1>1 DEF EvBegin, RunClk, Scalars
<1>2. CASE ConoStart
  <2>1. starts' \in 0..MaxStarts
    <3>1. starts \in 0..MaxStarts /\ starts < MaxStarts /\ starts' = starts + 1
      BY <1>2 DEF ConoStart, Scalars
    <3> QED BY <3>1, NiAssumption
  <2> QED BY <1>2, <2>1 DEF ConoStart, Scalars
<1>3. CASE ConoEnable BY <1>3 DEF ConoEnable, Scalars
<1>4. CASE ConoDisable BY <1>4 DEF ConoDisable, Scalars
<1>5. CASE ConoQueue
  <2>1. want' \in Seq(Cmds) /\ Len(want') <= MaxQ
    BY <1>5, NiAssumption, AppendProperties DEF ConoQueue, Scalars
  <2> QED BY <1>5, <2>1 DEF ConoQueue, Scalars
<1>6. CASE ConoStop \/ ConoClear BY <1>6 DEF ConoStop, ConoClear, Scalars
<1>7. CASE WBoot \/ WTest \/ WWake \/ WDone \/ WFlag \/ WKill
  BY <1>7 DEF WBoot, WTest, WWake, WDone, WFlag, WKill, Signalled, wStep, wFrame, Scalars
<1>8. CASE WExec \/ WFail BY <1>8 DEF WExec, WFail, wStep, wFrame, Scalars
<1>9. CASE RTest \/ RWake \/ RSendInit \/ RFlag \/ RKill \/ RPacket \/ RGiveUp
  BY <1>9 DEF RTest, RWake, RSendInit, RFlag, RKill, RPacket, RGiveUp, Signalled, rStep, rFrame, Scalars
<1>10. CASE UNCHANGED vars BY <1>10 DEF vars, Scalars
<1> QED BY <1>1, <1>2, <1>3, <1>4, <1>5, <1>6, <1>7, <1>8, <1>9, <1>10 DEF Cono, WSteps, RSteps

\* An entry that waits to be linked is counted.
LEMMA LimboStep ==
    ASSUME Scalars, Shape, [Next]_vars
    PROVE  relink' # NoQueue => limbo' >= 1
<1>1. relink # NoQueue => limbo >= 1 BY DEF Shape
<1>2. limbo \in Nat BY DEF Scalars
<1>3. ASSUME UNCHANGED <<relink, limbo>> PROVE relink' # NoQueue => limbo' >= 1
  BY <1>1, <1>3
<1>4. ASSUME NEW q, ni_qeput(q) PROVE relink' # NoQueue => limbo' >= 1
  BY <1>2, <1>3, <1>4 DEF ni_qeput
<1>5. CASE RunRelink \/ Clear BY <1>5 DEF RunRelink, Clear
<1>6. CASE RunPacket BY <1>6, <1>3, <1>4 DEF RunPacket
<1>7. CASE RunSnddg \/ RunWrtnsa BY <1>7, <1>4 DEF RunSnddg, RunWrtnsa, CmdBack
<1>8. CASE \/ RingW \/ RingR \/ EvHrwak \/ Ack \/ EvHsdon \/ RunBlocked \/ RunNoPacket
           \/ RunDone \/ RunResched \/ RunEmpty \/ Enable \/ QuitTest \/ QuitSuspend
           \/ OtherSignal \/ Quit \/ Stop
  BY <1>8, <1>3 DEF RingW, RingR, EvHrwak, Ack, EvHsdon, RunBlocked, RunNoPacket, RunDone,
     RunResched, RunEmpty, Enable, QuitTest, QuitSuspend, OtherSignal, Quit, Stop, queVars
<1>9. CASE EvBegin \/ RunClk \/ Cono
  BY <1>9, <1>3 DEF EvBegin, RunClk, Cono, ConoStart, ConoEnable, ConoDisable, ConoQueue,
     ConoStop, ConoClear, queVars
<1>10. CASE WSteps \/ RSteps \/ RPacket \/ RGiveUp \/ UNCHANGED vars
  BY <1>10, <1>3 DEF WSteps, WBoot, WTest, WWake, WExec, WFail, WDone, WFlag, WKill, wFrame, RSteps,
     RTest, RWake, RSendInit, RFlag, RKill, RPacket, RGiveUp, rFrame, vars, queVars
<1> QED BY <1>5, <1>6, <1>7, <1>8, <1>9, <1>10 DEF Next, Main

\* The initial states have the types and the shape.
LEMMA BaseInit == Init => Base
<1> SUFFICES ASSUME Init PROVE Base OBVIOUS
<1>1. RunShape(ctl) /\ ~At("enable") /\ relink = NoQueue BY RunFew DEF Init, At
<1>2. Shape BY <1>1 DEF Shape
<1>3. box \in Boxes BY DEF Init, Boxes, Buffer, Command
<1>4. CtlTyped BY DEF Init, CtlTyped
<1>5. Scalars
  <2>1. want \in Seq(Cmds) /\ Len(want) <= MaxQ /\ starts \in 0..MaxStarts
    BY NiAssumption DEF Init
  <2>2. {ethadr, dpeth, rqeth} \subseteq Adr BY DEF Init
  <2> QED BY <2>1, <2>2 DEF Init, Scalars, NoQueue
<1> QED BY <1>2, <1>3, <1>4, <1>5, TypeParts DEF Base

\* Every step keeps the types and the shape.
LEMMA BaseStep == Base /\ [Next]_vars => Base'
<1> SUFFICES ASSUME Base, [Next]_vars PROVE Base' OBVIOUS
<1>1. Shape /\ box \in Boxes /\ Scalars BY TypeParts DEF Base
<1>2. box' \in Boxes BY <1>1, BoxStep
<1>3. CtlShape' BY <1>1, CtlStep
<1>4. relink' # NoQueue => limbo' >= 1 BY <1>1, LimboStep
<1>5. Shape' BY <1>3, <1>4 DEF Shape, CtlShape
<1>6. Scalars' BY <1>1, RunScalars, OtherScalars DEF Next
<1>7. CtlTyped'
  <2>1. ctl' \in Seq(RunStep) \/ ctl' \in Seq(StopStep) BY <1>3 DEF CtlShape, RunShape, StopShape
  <2> QED BY <2>1 DEF CtlTyped, Step
<1>8. TypeOK'
  BY <1>2, <1>6, <1>7 DEF TypeOK, Boxes, Buffer, CtlTyped, Scalars, Step, RunStep, StopStep, Wait
<1> QED BY <1>5, <1>8 DEF Base

\* Every variable stays in its range: what is left to do are steps of the KLH10, no
\* entry is linked that was not set aside, no more is queued than there is room for.
THEOREM TypeCorrect == Spec => []TypeOK
<1>1. Spec => []Base BY BaseInit, BaseStep, PTL DEF Spec
<1>2. Base => TypeOK BY DEF Base
<1> QED BY <1>1, <1>2, PTL

-----------------------------------------------------------------------------
(* What a step does to the list of things left to do                       *)

\* Which action takes a label off the list, and which may put one there.
Takes(a) ==
    /\ a = "ringW" => RingW
    /\ a = "ringR" => RingR
    /\ a = "wak" => EvHrwak
    /\ a = "ack" => Ack
    /\ a = "enable" => Enable
    /\ a = "quit" => Quit
    /\ a = "stop" => Stop
    /\ a = "clear" => Clear
Puts(l) ==
    /\ l \in {"ack", "enable"} => EvHrwak
    /\ l \notin {"quit", "stop", "clear"}

Move ==
    \E a : \E ls \in Seq(Step) :
       /\ At(a) /\ ctl' = ls \o Tail(ctl)
       /\ Takes(a) /\ \A l : In(ls, l) => Puts(l)
Fresh ==
    /\ Idle
    /\ \A l : Pending(l)' => /\ l # "ack"
                             /\ l = "enable" => ConoEnable
                             /\ l \in {"quit", "stop"} => ConoStop \/ ConoClear

\* A step that takes the label it stands for off the list is a Move.
LEMMA SomeMove ==
    ASSUME NEW a, NEW ls \in Seq(Step), At(a), ctl' = ls \o Tail(ctl), Takes(a),
           \A l : In(ls, l) => Puts(l)
    PROVE  Move
BY DEF Move

\* The KLH10's own steps take the label they stand for, or leave the list.
LEMMA MainMoves ==
    ASSUME Shape, Main \/ OtherSignal
    PROVE  UNCHANGED ctl \/ Move
<1> DEFINE Few == {<<>>, <<"run">>, <<"cmd">>, <<"ringR">>, <<"ringW">>, <<"ringR", "cmd">>,
                   <<"suspend">>, <<"nap">>, <<"xswait">>}
<1>1. \A ls \in Few \cup {<<"ack">>, <<"enable", "ack">>} : ls \in Seq(Step)
  <2>1. \A a, b \in Step : <<a, b>> \in Seq(Step) /\ <<a>> \in Seq(Step) OBVIOUS
  <2>2. Step = {"wak", "don", "run", "cmd", "ack", "enable", "ringR", "ringW", "xswait",
                "suspend", "nap", "quit", "stop", "clear"} BY DEF Step, RunStep, StopStep, Wait
  <2>3. <<>> \in Seq(Step) OBVIOUS
  <2>4. <<"ringR", "cmd">> \in Seq(Step) /\ <<"enable", "ack">> \in Seq(Step) BY <2>1, <2>2
  <2>5. \A a \in Step : <<a>> \in Seq(Step) OBVIOUS
  <2> QED BY <2>2, <2>3, <2>4, <2>5
<1>2. ASSUME NEW ls \in Few, NEW l, In(ls, l) PROVE Puts(l)
  BY <1>2, InFew DEF Puts
<1>3. ASSUME NEW a, At(a), Takes(a), NEW ls \in Few, Then(ls) PROVE Move
  <2>1. ls \in Seq(Step) /\ \A l : In(ls, l) => Puts(l) BY <1>1, <1>2
  <2>2. ctl' = ls \o Tail(ctl) BY <1>3 DEF Then
  <2> HIDE DEF Few
  <2> QED BY <2>1, <2>2, <1>3, SomeMove
<1>4. <<>> \in Few /\ <<"run">> \in Few /\ <<"cmd">> \in Few /\ <<"ringR">> \in Few
      /\ <<"ringW">> \in Few /\ <<"ringR", "cmd">> \in Few /\ <<"suspend">> \in Few
      /\ <<"nap">> \in Few /\ <<"xswait">> \in Few OBVIOUS
<1> HIDE DEF Few
<1>5. CASE RingW BY <1>5, <1>3, <1>4 DEF RingW, Takes
<1>6. CASE RingR BY <1>6, <1>3, <1>4 DEF RingR, Takes
<1>7. CASE EvHrwak
  <2>1. At("wak") /\ Takes("wak") BY <1>7 DEF EvHrwak, Takes
  <2>2. Then(<<>>) \/ Then(<<"run">>) \/ Then(<<"ack">>) \/ Then(<<"enable", "ack">>)
    BY <1>7 DEF EvHrwak
  <2>3. ASSUME NEW ls \in {<<"ack">>, <<"enable", "ack">>}, Then(ls) PROVE Move
    <3>1. ls \in Seq(Step) BY <1>1
    <3>2. ctl' = ls \o Tail(ctl) BY <2>3 DEF Then
    <3>3. ASSUME NEW l, In(ls, l) PROVE Puts(l) BY <3>3, <1>7, InFew DEF Puts
    <3> QED BY <2>1, <3>1, <3>2, <3>3, SomeMove
  <2> QED BY <2>1, <2>2, <2>3, <1>3, <1>4
<1>8. CASE Ack BY <1>8, <1>3, <1>4 DEF Ack, Takes
<1>9. CASE EvHsdon
  <2>1. At("don") /\ Takes("don") /\ (Then(<<>>) \/ Then(<<"run">>)) BY <1>9 DEF EvHsdon, Takes
  <2> QED BY <2>1, <1>3, <1>4
<1>10. ASSUME NEW a \in {"run", "cmd", "xswait", "suspend", "nap"} PROVE Takes(a) BY DEF Takes
<1>11. CASE RunBlocked \/ RunPacket \/ RunNoPacket
  BY <1>11, <1>10, <1>3, <1>4 DEF RunBlocked, RunPacket, RunNoPacket
<1>12. CASE RunDone \/ RunResched \/ RunEmpty
  BY <1>12, <1>10, <1>3, <1>4 DEF RunDone, RunResched, RunEmpty, CmdReady
<1>13. CASE RunRelink BY <1>13 DEF RunRelink
<1>14. ASSUME At("cmd"), NEW ls \in {<<>>, <<"ringW">>}, CmdBack(ls) PROVE Move
  <2>1. PICK q : Then(IF q \in locked THEN ls ELSE ls \o <<"run">>) BY <1>14 DEF CmdBack
  <2>2. CASE q \in locked BY <2>1, <2>2, <1>14, <1>10, <1>3, <1>4
  <2>3. CASE q \notin locked
    <3> DEFINE r == ls \o <<"run">>
    <3>1. RunShape(ls) BY RunFew
    <3>2. RunShape(r) /\ \A l : In(r, l) <=> In(ls, l) \/ l = "run" BY <3>1, AndRun
    <3>3. ctl' = r \o Tail(ctl) BY <2>1, <2>3 DEF Then
    <3> HIDE DEF r
    <3>4. r \in Seq(Step) BY <3>2 DEF RunShape, Step
    <3>5. ASSUME NEW l, In(r, l) PROVE Puts(l) BY <3>2, <3>5, InFew DEF Puts
    <3> QED BY <3>3, <3>4, <3>5, <1>14, <1>10, SomeMove
  <2> QED BY <2>2, <2>3
<1>15. CASE RunSnddg \/ RunWrtnsa BY <1>15, <1>14 DEF RunSnddg, RunWrtnsa, CmdReady
<1>16. CASE Enable BY <1>16, <1>3, <1>4 DEF Enable, Takes
<1>17. CASE QuitTest
  <2>1. At("xswait") /\ (Then(<<>>) \/ Then(<<"suspend">>)) BY <1>17 DEF QuitTest
  <2> QED BY <2>1, <1>10, <1>3, <1>4
<1>18. CASE QuitSuspend \/ OtherSignal BY <1>18, <1>10, <1>3, <1>4 DEF QuitSuspend, OtherSignal
<1>19. CASE Quit BY <1>19, <1>3, <1>4 DEF Quit, Takes
<1>20. CASE Stop BY <1>20, <1>3, <1>4 DEF Stop, Takes
<1>21. CASE Clear BY <1>21, <1>3, <1>4 DEF Clear, Takes
<1> QED BY <1>5, <1>6, <1>7, <1>8, <1>9, <1>11, <1>12, <1>13, <1>15, <1>16, <1>17, <1>18,
           <1>19, <1>20, <1>21 DEF Main

\* What the KLH10 begins when it is idle replaces the list.
LEMMA IdleMoves ==
    ASSUME EvBegin \/ RunClk \/ Cono
    PROVE  UNCHANGED ctl \/ Fresh
<1>1. ASSUME Idle, NEW ls, StopShape(ls), ctl' = ls, ConoStop \/ ConoClear PROVE Fresh
  <2>1. ctl' \in Seq(StopStep) BY <1>1 DEF StopShape
  <2>2. ASSUME NEW l, Pending(l)' PROVE l \in StopStep BY <2>1, <2>2 DEF Pending
  <2>3. "ack" \notin StopStep /\ "enable" \notin StopStep BY DEF StopStep, Wait
  <2> QED BY <2>2, <2>3, <1>1 DEF Fresh
<1>2. ASSUME Idle, NEW ls, ctl' = ls,
             \A l : In(ls, l) => l \notin {"ack", "quit", "stop"} /\ (l = "enable" => ConoEnable)
      PROVE  Fresh
  <2>1. ASSUME NEW l, Pending(l)' PROVE In(ls, l) BY <1>2, <2>1 DEF Pending, In
  <2> QED BY <2>1, <1>2 DEF Fresh
<1>3. CASE EvBegin BY <1>3, <1>2, InFew DEF EvBegin, Leave
<1>4. CASE RunClk BY <1>4, <1>2, InFew DEF RunClk, Leave
<1>5. CASE ConoStart BY <1>5 DEF ConoStart
<1>6. CASE ConoEnable
  <2>1. Idle /\ (ctl' = <<>> \/ ctl' = <<"enable">>) BY <1>6 DEF ConoEnable, Begin
  <2>2. ASSUME NEW l, Pending(l)' PROVE l = "enable"
    <3>1. In(ctl', l) BY <2>2 DEF Pending, In
    <3> QED BY <2>1, <3>1, InFew
  <2> QED BY <2>1, <2>2, <1>6 DEF Fresh
<1>7. CASE ConoDisable BY <1>7, <1>2, InFew DEF ConoDisable, Leave
<1>8. CASE ConoQueue BY <1>8, <1>2, InFew DEF ConoQueue, Leave
<1>9. CASE ConoStop BY <1>9, <1>1, StopFew DEF ConoStop, Begin
<1>10. CASE ConoClear BY <1>10, <1>1, StopFew DEF ConoClear, Begin
<1> QED BY <1>3, <1>4, <1>5, <1>6, <1>7, <1>8, <1>9, <1>10 DEF Cono

\* A subprocess's step leaves the list, or ends the wait at the head of it.
LEMMA DpMoves ==
    ASSUME Shape, WSteps \/ RSteps \/ RPacket \/ RGiveUp \/ UNCHANGED vars
    PROVE  UNCHANGED ctl \/ Move
<1>1. ASSUME Signalled PROVE UNCHANGED ctl \/ Move
  <2>1. CASE At("nap")
    <3>1. ctl' = <<"xswait">> \o Tail(ctl) BY <1>1, <2>1 DEF Signalled, At
    <3>2. <<"xswait">> \in Seq(Step) BY DEF Step, StopStep, Wait
    <3>3. Takes("nap") /\ \A l : In(<<"xswait">>, l) => Puts(l) BY InFew DEF Takes, Puts
    <3> QED BY <2>1, <3>1, <3>2, <3>3, SomeMove
  <2>2. CASE ~At("nap") BY <1>1, <2>2 DEF Signalled, At
  <2> QED BY <2>1, <2>2
<1>2. CASE WKill \/ RKill BY <1>1, <1>2 DEF WKill, RKill
<1>3. CASE WBoot \/ WTest \/ WWake \/ WExec \/ WFail \/ WDone \/ WFlag
  BY <1>3 DEF WBoot, WTest, WWake, WExec, WFail, WDone, WFlag
<1>4. CASE RTest \/ RWake \/ RSendInit \/ RFlag \/ RPacket \/ RGiveUp
  BY <1>4 DEF RTest, RWake, RSendInit, RFlag, RPacket, RGiveUp
<1>5. CASE UNCHANGED vars BY <1>5 DEF vars
<1> QED BY <1>2, <1>3, <1>4, <1>5 DEF WSteps, RSteps

\* Every step leaves the list, replaces an empty one, or is a Move.
LEMMA Moves ==
    ASSUME Shape, [Next]_vars
    PROVE  UNCHANGED ctl \/ Fresh \/ Move
BY MainMoves, IdleMoves, DpMoves DEF Next

\* A label leaves the list only by the action it stands for.
LEMMA Lost ==
    ASSUME Shape, [Next]_vars, NEW l, Pending(l), ~Pending(l)'
    PROVE  Takes(l)
<1>1. ~UNCHANGED ctl BY DEF Pending
<1>2. ~Idle BY DEF Idle, Pending
<1>3. Move BY <1>1, <1>2, Moves DEF Fresh
<1>4. PICK a : \E ls \in Seq(Step) : At(a) /\ ctl' = ls \o Tail(ctl) /\ Takes(a)
  BY <1>3 DEF Move
<1>5. PICK ls \in Seq(Step) : At(a) /\ ctl' = ls \o Tail(ctl) /\ Takes(a) BY <1>4
<1>6. (Pending(l) <=> l = a \/ In(Tail(ctl), l)) /\ (Pending(l)' <=> In(ls, l) \/ In(Tail(ctl), l))
  BY <1>5, ThenIn
<1> QED BY <1>5, <1>6

\* Who puts a label there.
LEMMA Gained ==
    ASSUME Shape, [Next]_vars, NEW l, ~Pending(l), Pending(l)'
    PROVE  /\ l = "ack" => EvHrwak
           /\ l = "enable" => EvHrwak \/ ConoEnable
           /\ l \in {"quit", "stop"} => ConoStop \/ ConoClear
<1>1. ~UNCHANGED ctl BY DEF Pending
<1>2. CASE Fresh BY <1>2 DEF Fresh
<1>3. CASE Move
  <2>1. PICK a : \E ls \in Seq(Step) : /\ At(a) /\ ctl' = ls \o Tail(ctl)
                                      /\ \A k : In(ls, k) => Puts(k)
    BY <1>3 DEF Move
  <2>2. PICK ls \in Seq(Step) : /\ At(a) /\ ctl' = ls \o Tail(ctl)
                                /\ \A k : In(ls, k) => Puts(k)
    BY <2>1
  <2>3. (Pending(l) <=> l = a \/ In(Tail(ctl), l)) /\ (Pending(l)' <=> In(ls, l) \/ In(Tail(ctl), l))
    BY <2>2, ThenIn
  <2>4. Puts(l) BY <2>2, <2>3
  <2> QED BY <2>4 DEF Puts
<1> QED BY <1>1, <1>2, <1>3, Moves

-----------------------------------------------------------------------------
(* Sleepers                                                                *)

\* The head is on the list.
LEMMA AtPending ==
    ASSUME Shape, NEW a, At(a)
    PROVE  Pending(a)
<1>1. ctl # <<>> /\ ctl[1] = a /\ ctl \in Seq(Step) BY Heads
<1>2. Len(ctl) \in Nat /\ Len(ctl) # 0 BY <1>1, EmptySeq
<1>3. 1 \in DOMAIN ctl BY <1>1, <1>2
<1> QED BY <1>1, <1>3 DEF Pending

\* What is put onto the list at the head of it.
LEMMA Pushed ==
    ASSUME Shape, NEW a, At(a), NEW ls \in Seq(Step), Then(ls), NEW l, In(ls, l)
    PROVE  Pending(l)'
<1>1. ctl' = ls \o Tail(ctl) BY DEF Then
<1> QED BY <1>1, ThenIn

\* The few lists that are put in front, and what is in them.
LEMMA StepFew == /\ <<"ringW">> \in Seq(Step) /\ In(<<"ringW">>, "ringW")
                 /\ <<"ringR">> \in Seq(Step) /\ In(<<"ringR">>, "ringR")
                 /\ <<"ringR", "cmd">> \in Seq(Step) /\ In(<<"ringR", "cmd">>, "ringR")
                 /\ <<"ringW">> \o <<"run">> \in Seq(Step) /\ In(<<"ringW">> \o <<"run">>, "ringW")
                 /\ <<"ack">> \in Seq(Step) /\ In(<<"ack">>, "ack")
                 /\ <<"enable", "ack">> \in Seq(Step) /\ In(<<"enable", "ack">>, "ack")
                 /\ In(<<"enable", "ack">>, "enable")
<1>1. /\ <<"ringW">> \in Seq(Step) /\ <<"ringR">> \in Seq(Step) /\ <<"ringR", "cmd">> \in Seq(Step)
      /\ <<"ack">> \in Seq(Step) /\ <<"enable", "ack">> \in Seq(Step)
  <2>1. RunStep \subseteq Step BY DEF Step
  <2>2. \A ls : RunShape(ls) => ls \in Seq(Step) BY <2>1 DEF RunShape
  <2> QED BY <2>2, RunFew
<1>2. RunShape(<<"ringW">> \o <<"run">>) /\ In(<<"ringW">> \o <<"run">>, "ringW")
  BY RunFew, AndRun, InFew
<1>3. <<"ringW">> \o <<"run">> \in Seq(Step) BY <1>2 DEF RunShape, Step
<1> QED BY <1>1, <1>2, <1>3, InFew

\* Whoever fills the "to" buffer is about to ring W.
LEMMA FillsTo ==
    ASSUME Shape, box \in Boxes, [Next]_vars, ~box["to"].rdy, box'["to"].rdy
    PROVE  Pending("ringW")' /\ (Enable \/ Quit \/ RunSnddg \/ RunWrtnsa) /\ UNCHANGED W
<1>1. ASSUME NEW ls, CmdBack(ls), At("cmd"), ls = <<"ringW">> PROVE Pending("ringW")'
  <2>1. PICK q : Then(IF q \in locked THEN ls ELSE ls \o <<"run">>) BY <1>1 DEF CmdBack
  <2>2. Then(<<"ringW">>) \/ Then(<<"ringW">> \o <<"run">>) BY <2>1, <1>1
  <2> QED BY <2>2, <1>1, StepFew, Pushed
<1>2. CASE Enable BY <1>2, StepFew, Pushed DEF Enable, dpVars
<1>3. CASE RunSnddg BY <1>3, <1>1 DEF RunSnddg, CmdReady, CmdBack, dpVars
<1>4. CASE RunWrtnsa BY <1>4, <1>1 DEF RunWrtnsa, CmdReady, CmdBack, dpVars
<1>5. CASE Quit
  <2>1. At("quit") /\ ctl' = <<>> \o Tail(ctl) BY <1>5 DEF Quit, Then
  <2>2. StopShape(ctl) /\ ctl # <<>> /\ ctl[1] = "quit" BY <2>1, Heads DEF StopStep
  <2>3. ctl' # <<>> /\ ctl'[1] = "ringW" /\ StopShape(ctl') BY <2>1, <2>2, StopPop
  <2>4. 1 \in DOMAIN ctl'
    <3>1. ctl' \in Seq(StopStep) BY <2>3 DEF StopShape
    <3>2. Len(ctl') \in Nat /\ Len(ctl') # 0 BY <3>1, <2>3, EmptySeq
    <3> QED BY <3>1, <3>2
  <2>5. Pending("ringW")' BY <2>3, <2>4 DEF Pending
  <2> QED BY <2>5, <1>5 DEF Quit, dpVars
<1>6. ASSUME box'["to"] = box["to"] PROVE FALSE BY <1>6
<1>7. CASE RSendInit \/ RPacket
  BY <1>6, <1>7, Sent DEF RSendInit, RPacket, Command
<1>8. CASE Ack \/ RunPacket \/ WDone
  BY <1>6, <1>8, Freed DEF Ack, RunPacket, WDone
<1>9. CASE \/ RingW \/ RingR \/ EvHrwak \/ EvHsdon \/ RunBlocked \/ RunRelink \/ RunNoPacket
           \/ RunDone \/ RunResched \/ RunEmpty \/ QuitTest \/ QuitSuspend \/ OtherSignal
           \/ Stop \/ Clear
  BY <1>6, <1>9 DEF RingW, RingR, EvHrwak, EvHsdon, RunBlocked, RunRelink, RunNoPacket, RunDone,
     RunResched, RunEmpty, QuitTest, QuitSuspend, OtherSignal, Stop, Clear, linkVars
<1>10. CASE EvBegin \/ RunClk \/ Cono
  BY <1>6, <1>10 DEF EvBegin, RunClk, Cono, ConoStart, ConoEnable, ConoDisable, ConoQueue,
     ConoStop, ConoClear, linkVars
<1>11. CASE \/ WBoot \/ WTest \/ WWake \/ WExec \/ WFail \/ WFlag \/ WKill
           \/ RTest \/ RWake \/ RGiveUp \/ RFlag \/ RKill \/ UNCHANGED vars
  BY <1>6, <1>11 DEF WBoot, WTest, WWake, WExec, WFail, WFlag, WKill, RTest, RWake,
     RGiveUp, RFlag, RKill, vars, linkVars
<1> QED BY <1>2, <1>3, <1>4, <1>5, <1>7, <1>8, <1>9, <1>10, <1>11 DEF Next, Main, WSteps, RSteps

\* Whoever frees the "fr" buffer is about to ring R.
LEMMA FreesFr ==
    ASSUME Shape, box \in Boxes, [Next]_vars, box["fr"].rdy, ~box'["fr"].rdy
    PROVE  Pending("ringR")' /\ (Ack \/ RunPacket) /\ UNCHANGED R
<1>1. CASE Ack BY <1>1, StepFew, Pushed DEF Ack, dpVars
<1>2. ASSUME box'["fr"] = box["fr"] PROVE FALSE BY <1>2
<1>3. CASE RunPacket
  <2>1. At("run") /\ Then(<<"ringR", "cmd">>) BY <1>2, <1>3 DEF RunPacket
  <2>2. Pending("ringR")' BY <2>1, StepFew, Pushed
  <2> QED BY <2>2, <1>3 DEF RunPacket, dpVars
<1>4. CASE Enable \/ Quit \/ RunSnddg \/ RunWrtnsa
  BY <1>2, <1>4, Sent DEF Enable, Quit, RunSnddg, RunWrtnsa, Command
<1>5. CASE RSendInit \/ RPacket
  BY <1>5, Sent DEF RSendInit, RPacket, Command
<1>6. CASE WDone BY <1>2, <1>6, Freed DEF WDone
<1>7. CASE \/ RingW \/ RingR \/ EvHrwak \/ EvHsdon \/ RunBlocked \/ RunRelink \/ RunNoPacket
           \/ RunDone \/ RunResched \/ RunEmpty \/ QuitTest \/ QuitSuspend \/ OtherSignal
           \/ Stop \/ Clear
  BY <1>2, <1>7 DEF RingW, RingR, EvHrwak, EvHsdon, RunBlocked, RunRelink, RunNoPacket, RunDone,
     RunResched, RunEmpty, QuitTest, QuitSuspend, OtherSignal, Stop, Clear, linkVars
<1>8. CASE EvBegin \/ RunClk \/ Cono
  BY <1>2, <1>8 DEF EvBegin, RunClk, Cono, ConoStart, ConoEnable, ConoDisable, ConoQueue,
     ConoStop, ConoClear, linkVars
<1>9. CASE \/ WBoot \/ WTest \/ WWake \/ WExec \/ WFail \/ WFlag \/ WKill
           \/ RTest \/ RWake \/ RGiveUp \/ RFlag \/ RKill \/ UNCHANGED vars
  BY <1>2, <1>9 DEF WBoot, WTest, WWake, WExec, WFail, WFlag, WKill, RTest, RWake,
     RGiveUp, RFlag, RKill, vars, linkVars
<1> QED BY <1>1, <1>3, <1>4, <1>5, <1>6, <1>7, <1>8, <1>9 DEF Next, Main, WSteps, RSteps

\* W goes to sleep only when its buffer is empty, and nobody loses its signal then.
LEMMA WSleeps ==
    ASSUME [Next]_vars, W' = "sleep"
    PROVE  /\ W = "sleep" \/ (~box["to"].rdy /\ UNCHANGED box)
           /\ sigW => sigW'
<1>1. CASE WTest BY <1>1 DEF WTest, wStep
<1>2. CASE WBoot \/ WWake \/ WExec \/ WFail \/ WDone \/ WFlag \/ WKill
  BY <1>2 DEF WBoot, WWake, WExec, WFail, WDone, WFlag, WKill, wStep
<1>3. CASE RSteps \/ RPacket \/ RGiveUp
  BY <1>3 DEF RSteps, RTest, RWake, RSendInit, RFlag, RKill, RPacket, RGiveUp, rFrame
<1>4. CASE RingW BY <1>4 DEF RingW
<1>5. CASE Stop BY <1>5 DEF Stop
<1>6. CASE ConoStart BY <1>6 DEF ConoStart
<1>7. ASSUME UNCHANGED <<W, sigW>> PROVE W = "sleep" /\ (sigW => sigW')
  BY <1>7
<1>8. CASE \/ RingR \/ EvHrwak \/ Ack \/ EvHsdon \/ RunBlocked \/ RunRelink \/ RunNoPacket
           \/ RunDone \/ RunResched \/ RunEmpty \/ Enable \/ QuitTest \/ QuitSuspend
           \/ OtherSignal \/ Quit \/ Clear
  <2>1. UNCHANGED <<W, sigW>>
    BY <1>8 DEF RingR, EvHrwak, Ack, EvHsdon, RunBlocked, RunRelink, RunNoPacket, RunDone,
       RunResched, RunEmpty, Enable, QuitTest, QuitSuspend, OtherSignal, Quit, Clear, dpVars
  <2> QED BY <2>1, <1>7
<1>9. CASE RunPacket \/ RunSnddg \/ RunWrtnsa
  <2>1. UNCHANGED <<W, sigW>>
    BY <1>9 DEF RunPacket, RunSnddg, RunWrtnsa, CmdBack, dpVars
  <2> QED BY <2>1, <1>7
<1>10. CASE \/ EvBegin \/ RunClk \/ ConoEnable \/ ConoDisable \/ ConoQueue \/ ConoStop
            \/ ConoClear \/ UNCHANGED vars
  <2>1. UNCHANGED <<W, sigW>>
    BY <1>10 DEF EvBegin, RunClk, ConoEnable, ConoDisable, ConoQueue, ConoStop, ConoClear,
       vars, dpVars
  <2> QED BY <2>1, <1>7
<1> QED BY <1>1, <1>2, <1>3, <1>4, <1>5, <1>6, <1>8, <1>9, <1>10
        DEF Next, Main, Cono, WSteps

\* R goes to sleep only when its buffer is full, and nobody loses its signal then.
LEMMA RSleeps ==
    ASSUME [Next]_vars, R' = "sleep"
    PROVE  /\ R = "sleep" \/ (box["fr"].rdy /\ UNCHANGED box)
           /\ sigR => sigR'
<1>1. CASE RTest BY <1>1 DEF RTest, rStep
<1>2. CASE RWake \/ RSendInit \/ RFlag \/ RKill \/ RPacket \/ RGiveUp
  BY <1>2 DEF RWake, RSendInit, RFlag, RKill, RPacket, RGiveUp, rStep
<1>3. CASE WSteps
  BY <1>3 DEF WSteps, WBoot, WTest, WWake, WExec, WFail, WDone, WFlag, WKill
<1>4. CASE RingR BY <1>4 DEF RingR
<1>5. CASE Stop BY <1>5 DEF Stop
<1>6. CASE ConoStart BY <1>6 DEF ConoStart
<1>7. ASSUME UNCHANGED <<R, sigR>> PROVE R = "sleep" /\ (sigR => sigR')
  BY <1>7
<1>8. CASE \/ RingW \/ EvHrwak \/ Ack \/ EvHsdon \/ RunBlocked \/ RunRelink \/ RunNoPacket
           \/ RunDone \/ RunResched \/ RunEmpty \/ Enable \/ QuitTest \/ QuitSuspend
           \/ OtherSignal \/ Quit \/ Clear
  <2>1. UNCHANGED <<R, sigR>>
    BY <1>8 DEF RingW, EvHrwak, Ack, EvHsdon, RunBlocked, RunRelink, RunNoPacket, RunDone,
       RunResched, RunEmpty, Enable, QuitTest, QuitSuspend, OtherSignal, Quit, Clear, dpVars
  <2> QED BY <2>1, <1>7
<1>9. CASE RunPacket \/ RunSnddg \/ RunWrtnsa
  <2>1. UNCHANGED <<R, sigR>>
    BY <1>9 DEF RunPacket, RunSnddg, RunWrtnsa, CmdBack, dpVars
  <2> QED BY <2>1, <1>7
<1>10. CASE \/ EvBegin \/ RunClk \/ ConoEnable \/ ConoDisable \/ ConoQueue \/ ConoStop
            \/ ConoClear \/ UNCHANGED vars
  <2>1. UNCHANGED <<R, sigR>>
    BY <1>10 DEF EvBegin, RunClk, ConoEnable, ConoDisable, ConoQueue, ConoStop, ConoClear,
       vars, dpVars
  <2> QED BY <2>1, <1>7
<1> QED BY <1>1, <1>2, <1>3, <1>4, <1>5, <1>6, <1>8, <1>9, <1>10
        DEF Next, Main, Cono, RSteps

\* Every step keeps SleepersWake.
LEMMA SleepStep == Base /\ SleepersWake /\ [Next]_vars => SleepersWake'
<1> SUFFICES ASSUME Base, SleepersWake, [Next]_vars PROVE SleepersWake' OBVIOUS
<1>1. Shape /\ box \in Boxes BY TypeParts DEF Base
<1>2. ASSUME W' = "sleep", box'["to"].rdy PROVE sigW' \/ Pending("ringW")'
  <2>1. (W = "sleep" \/ (~box["to"].rdy /\ UNCHANGED box)) /\ (sigW => sigW') BY <1>2, WSleeps
  <2>2. W = "sleep" BY <2>1, <1>2
  <2>3. CASE ~box["to"].rdy BY <2>3, <1>1, <1>2, FillsTo
  <2>4. CASE box["to"].rdy /\ Pending("ringW") /\ ~Pending("ringW")'
    <3>1. RingW BY <2>4, <1>1, Lost DEF Takes
    <3> QED BY <3>1, <2>2 DEF RingW, Listening
  <2>5. sigW \/ Pending("ringW") \/ ~box["to"].rdy BY <2>2 DEF SleepersWake
  <2> QED BY <2>1, <2>3, <2>4, <2>5
<1>3. ASSUME R' = "sleep", ~box'["fr"].rdy PROVE sigR' \/ Pending("ringR")'
  <2>1. (R = "sleep" \/ (box["fr"].rdy /\ UNCHANGED box)) /\ (sigR => sigR') BY <1>3, RSleeps
  <2>2. R = "sleep" BY <2>1, <1>3
  <2>3. CASE box["fr"].rdy BY <2>3, <1>1, <1>3, FreesFr
  <2>4. CASE ~box["fr"].rdy /\ Pending("ringR") /\ ~Pending("ringR")'
    <3>1. RingR BY <2>4, <1>1, Lost DEF Takes
    <3> QED BY <3>1, <2>2 DEF RingR, Listening
  <2>5. sigR \/ Pending("ringR") \/ box["fr"].rdy BY <2>2 DEF SleepersWake
  <2> QED BY <2>1, <2>3, <2>4, <2>5
<1> QED BY <1>2, <1>3 DEF SleepersWake, Pending

\* The types and the shape hold in every reachable state.
LEMMA BaseAlways == Spec => []Base
BY BaseInit, BaseStep, PTL DEF Spec

\* A subprocess that sleeps in dp_xrwait or dp_xswait has nothing to do, or the signal
\* that wakes it is pending or about to be sent.
THEOREM NobodySleepsOn == Spec => []SleepersWake
<1>1. Init => SleepersWake BY DEF Init, SleepersWake
<1> QED BY <1>1, SleepStep, BaseAlways, PTL DEF Spec

-----------------------------------------------------------------------------
(* The "fr" buffer                                                         *)

\* The acknowledgement stays on the list, or off it, but for two actions.
LEMMA AckKept ==
    ASSUME Shape, [Next]_vars, ~EvHrwak, ~Ack
    PROVE  Pending("ack")' <=> Pending("ack")
<1>1. Pending("ack") /\ ~Pending("ack")' => FALSE BY Lost DEF Takes
<1>2. ~Pending("ack") /\ Pending("ack")' => FALSE BY Gained
<1> QED BY <1>1, <1>2

\* There is at most one acknowledgement on the list, and only an event adds one.
LEMMA OnceKept ==
    ASSUME Shape, [Next]_vars, ~EvHrwak, Once(ctl, "ack")
    PROVE  Once(ctl', "ack")
<1>1. CASE UNCHANGED ctl BY <1>1
<1>2. CASE Fresh
  <2>1. ~Pending("ack")' BY <1>2 DEF Fresh
  <2> QED BY <2>1 DEF Pending, Once
<1>3. CASE Move
  <2>1. PICK a : \E ls \in Seq(Step) : /\ At(a) /\ ctl' = ls \o Tail(ctl)
                                      /\ \A k : In(ls, k) => Puts(k)
    BY <1>3 DEF Move
  <2>2. PICK ls \in Seq(Step) : /\ At(a) /\ ctl' = ls \o Tail(ctl)
                                /\ \A k : In(ls, k) => Puts(k)
    BY <2>1
  <2>3. ~In(ls, "ack") BY <2>2 DEF Puts
  <2>4. ctl \in Seq(Step) /\ ctl # <<>> BY <2>2, Heads
  <2>5. Once(ls \o Tail(ctl), "ack") BY <2>3, <2>4, ThenOnce
  <2> QED BY <2>2, <2>5
<1> QED BY <1>1, <1>2, <1>3, Moves

\* The event walk finds a packet: it is not being worked on yet.
LEMMA WakAck ==
    ASSUME Shape, EvHrwak, Once(ctl, "ack"), wak /\ box["fr"].rdy => ~Pending("ack")
    PROVE  /\ Once(ctl', "ack")
           /\ \/ (~wak \/ ~box["fr"].rdy) /\ UNCHANGED pktinf /\ (Pending("ack")' <=> Pending("ack"))
              \/ wak /\ box["fr"].rdy /\ UNCHANGED pktinf /\ box["fr"].cmd = "INIT" /\ Pending("ack")'
              \/ wak /\ box["fr"].rdy /\ pktinf' = FALSE /\ state # "ENA" /\ Pending("ack")'
              \/ wak /\ box["fr"].rdy /\ pktinf' = TRUE /\ state = "ENA" /\ ~Pending("ack")'
<1>1. At("wak") /\ ctl \in Seq(Step) /\ ctl # <<>> BY Heads DEF EvHrwak
<1>2. ASSUME NEW ls \in Seq(Step), Then(ls)
      PROVE  /\ Pending("ack")' <=> In(ls, "ack") \/ Pending("ack")
             /\ ~In(ls, "ack") => Once(ctl', "ack")
             /\ Once(ls, "ack") /\ ~Pending("ack") => Once(ctl', "ack")
  <2>1. ctl' = ls \o Tail(ctl) BY <1>2 DEF Then
  <2>2. Pending("ack") <=> In(ctl, "ack") BY DEF Pending, In
  <2>3. Pending("ack")' <=> In(ls, "ack") \/ Pending("ack") BY <1>1, <2>1, ThenIn
  <2>4. /\ ~In(ls, "ack") => Once(ls \o Tail(ctl), "ack")
        /\ Once(ls, "ack") /\ ~In(ctl, "ack") => Once(ls \o Tail(ctl), "ack")
    BY <1>1, ThenOnce
  <2> QED BY <2>1, <2>2, <2>3, <2>4
<1>3. /\ <<>> \in Seq(Step) /\ ~In(<<>>, "ack")
      /\ <<"run">> \in Seq(Step) /\ ~In(<<"run">>, "ack")
      /\ <<"ack">> \in Seq(Step) /\ In(<<"ack">>, "ack") /\ Once(<<"ack">>, "ack")
      /\ <<"enable", "ack">> \in Seq(Step) /\ In(<<"enable", "ack">>, "ack")
      /\ Once(<<"enable", "ack">>, "ack")
  <2>1. Once(<<"ack">>, "ack") /\ Once(<<"enable", "ack">>, "ack") BY DEF Once
  <2>2. <<>> \in Seq(Step) /\ <<"run">> \in Seq(Step) BY DEF Step, RunStep
  <2> QED BY <2>1, <2>2, StepFew, InFew
<1>4. CASE ~wak \/ ~box["fr"].rdy
  <2>1. Then(<<>>) /\ UNCHANGED pktinf BY <1>4 DEF EvHrwak
  <2> QED BY <2>1, <1>2, <1>3, <1>4
<1>5. CASE wak /\ box["fr"].rdy /\ box["fr"].cmd = "INIT"
  <2>1. (Then(<<"ack">>) \/ Then(<<"enable", "ack">>)) /\ UNCHANGED pktinf BY <1>5 DEF EvHrwak
  <2> QED BY <2>1, <1>2, <1>3, <1>5
<1>6. CASE wak /\ box["fr"].rdy /\ box["fr"].cmd # "INIT" /\ state = "ENA"
  <2>1. Then(<<"run">>) /\ pktinf' = TRUE BY <1>6 DEF EvHrwak
  <2> QED BY <2>1, <1>2, <1>3, <1>6
<1>7. CASE wak /\ box["fr"].rdy /\ box["fr"].cmd # "INIT" /\ state # "ENA"
  <2>1. Then(<<"ack">>) /\ pktinf' = FALSE BY <1>7 DEF EvHrwak
  <2> QED BY <2>1, <1>2, <1>3, <1>7
<1> QED BY <1>4, <1>5, <1>6, <1>7

\* Once the acknowledgement has been made it is not on the list.
LEMMA AckAck ==
    ASSUME Shape, Ack, Once(ctl, "ack")
    PROVE  ~Pending("ack")'
<1>1. At("ack") /\ Then(<<"ringR">>) /\ ctl \in Seq(Step) /\ ctl # <<>> /\ ctl[1] = "ack"
  BY Heads DEF Ack
<1>2. ~In(Tail(ctl), "ack") BY <1>1, ThenOnce, StepFew
<1>3. ctl' = <<"ringR">> \o Tail(ctl) /\ <<"ringR">> \in Seq(Step) /\ ~In(<<"ringR">>, "ack")
  BY <1>1, StepFew, InFew DEF Then
<1> QED BY <1>1, <1>2, <1>3, ThenIn

\* The steps that have nothing to do with the "fr" buffer.
NotFr ==
    \/ RingW \/ RingR \/ EvHsdon \/ RunBlocked \/ RunRelink \/ RunNoPacket \/ RunDone
    \/ RunResched \/ RunEmpty \/ RunSnddg \/ RunWrtnsa \/ Enable \/ QuitTest \/ QuitSuspend
    \/ OtherSignal \/ Quit \/ EvBegin \/ RunClk \/ Cono
    \/ WTest \/ WWake \/ WExec \/ WFail \/ WDone \/ WFlag \/ WKill \/ UNCHANGED vars

\* Those steps leave R, the event flag and the "fr" buffer alone.
LEMMA NotFrFrame ==
    ASSUME box \in Boxes, NotFr
    PROVE  UNCHANGED <<R, wak, pktinf>> /\ box'["fr"] = box["fr"]
<1>1. CASE \/ RingW \/ RingR \/ EvHsdon \/ RunBlocked \/ RunRelink \/ RunNoPacket \/ RunDone
           \/ RunResched \/ RunEmpty \/ QuitTest \/ QuitSuspend \/ OtherSignal
  BY <1>1 DEF RingW, RingR, EvHsdon, RunBlocked, RunRelink, RunNoPacket, RunDone, RunResched,
     RunEmpty, QuitTest, QuitSuspend, OtherSignal, linkVars, niVars, dpVars
<1>2. CASE RunSnddg \/ RunWrtnsa
  BY <1>2, Sent DEF RunSnddg, RunWrtnsa, CmdBack, dpVars, Command
<1>3. CASE Enable \/ Quit
  <2>1. UNCHANGED <<R, wak, pktinf>> BY <1>3 DEF Enable, Quit, niVars, dpVars
  <2>2. dp_xsend("to", "SETMCAT") \/ dp_xsend("to", "QUIT") BY <1>3 DEF Enable, Quit
  <2>3. box'["fr"] = box["fr"]
    <3>1. "SETMCAT" \in Command /\ "QUIT" \in Command BY DEF Command
    <3>2. "to" \in {"to", "fr"} /\ "fr" \in {"to", "fr"} \ {"to"} OBVIOUS
    <3> QED BY <2>2, <3>1, <3>2, Sent
  <2> QED BY <2>1, <2>3
<1>4. CASE EvBegin \/ RunClk \/ Cono
  BY <1>4 DEF EvBegin, RunClk, Cono, ConoStart, ConoEnable, ConoDisable, ConoQueue, ConoStop,
     ConoClear, linkVars, niVars, dpVars
<1>5. CASE WTest \/ WWake \/ WExec \/ WFail \/ WFlag \/ WKill \/ UNCHANGED vars
  BY <1>5 DEF WTest, WWake, WExec, WFail, WFlag, WKill, wFrame, niVars, vars, linkVars, dpVars
<1>6. CASE WDone BY <1>6, Freed DEF WDone, wFrame, niVars
<1> QED BY <1>1, <1>2, <1>3, <1>4, <1>5, <1>6 DEF NotFr

\* Every step keeps what is known of the "fr" buffer.
LEMMA FrStep == Base /\ FrInv /\ [Next]_vars => FrInv'
<1> SUFFICES ASSUME Base, FrInv, [Next]_vars PROVE FrInv' OBVIOUS
<1> USE DEF FrInv
<1>1. Shape /\ box \in Boxes /\ wak \in BOOLEAN /\ pktinf \in BOOLEAN
  BY TypeParts DEF Base, Scalars
<1>2. CASE EvHrwak
  <2>1. UNCHANGED <<R, box>> /\ wak' = FALSE BY <1>2 DEF EvHrwak, dpVars
  <2>2. wak /\ box["fr"].rdy => ~Pending("ack") /\ ~pktinf /\ R # "flag" OBVIOUS
  <2>3. /\ Once(ctl', "ack")
        /\ \/ (~wak \/ ~box["fr"].rdy) /\ UNCHANGED pktinf /\ (Pending("ack")' <=> Pending("ack"))
           \/ wak /\ box["fr"].rdy /\ UNCHANGED pktinf /\ box["fr"].cmd = "INIT" /\ Pending("ack")'
           \/ wak /\ box["fr"].rdy /\ pktinf' = FALSE /\ state # "ENA" /\ Pending("ack")'
           \/ wak /\ box["fr"].rdy /\ pktinf' = TRUE /\ state = "ENA" /\ ~Pending("ack")'
    BY <2>2, <1>1, <1>2, WakAck
  <2> QED BY <2>1, <2>2, <2>3
<1>3. CASE Ack
  <2>1. ~Pending("ack")' BY <1>1, <1>3, AckAck
  <2>2. UNCHANGED <<R, wak, pktinf>> /\ box'["fr"].rdy = FALSE
    BY <1>1, <1>3, Freed DEF Ack, niVars, dpVars
  <2>3. Pending("ack")
    <3>1. At("ack") BY <1>3 DEF Ack
    <3> QED BY <3>1, <1>1, AtPending
  <2>4. CASE EvHrwak BY <2>4, <1>2
  <2>5. CASE ~EvHrwak
    <3>1. Once(ctl', "ack") BY <1>1, <2>5, OnceKept
    <3> QED BY <2>1, <2>2, <2>3, <3>1
  <2> QED BY <2>4, <2>5
<1>4. ASSUME ~EvHrwak, ~Ack
      PROVE  (Pending("ack")' <=> Pending("ack")) /\ Once(ctl', "ack")
  BY <1>1, <1>4, AckKept, OnceKept
<1>5. CASE ~EvHrwak /\ ~Ack /\ NotFr
  <2>1. UNCHANGED <<R, wak, pktinf>> /\ box'["fr"] = box["fr"] BY <1>1, <1>5, NotFrFrame
  <2>2. (Pending("ack")' <=> Pending("ack")) /\ Once(ctl', "ack") BY <1>4, <1>5
  <2> QED BY <2>1, <2>2
<1>6. CASE ~EvHrwak /\ ~Ack /\ (RunPacket \/ Stop \/ Clear)
  <2>1. (Pending("ack")' <=> Pending("ack")) /\ Once(ctl', "ack") BY <1>4, <1>6
  <2>2. CASE RunPacket
    <3>1. pktinf /\ UNCHANGED <<R, wak>> BY <2>2 DEF RunPacket, dpVars
    <3>2. UNCHANGED <<box, pktinf>> \/ (pktinf' = FALSE /\ dp_xrdone("fr"))
      BY <2>2 DEF RunPacket
    <3>3. dp_xrdone("fr") => box'["fr"].rdy = FALSE BY <1>1, Freed
    <3> QED BY <2>1, <3>1, <3>2, <3>3
  <2>3. CASE Stop BY <2>1, <2>3 DEF Stop, linkVars
  <2>4. CASE Clear BY <2>1, <2>4 DEF Clear, linkVars, dpVars
  <2> QED BY <2>2, <2>3, <2>4, <1>6
<1>7. CASE ~EvHrwak /\ ~Ack /\ (WBoot \/ RSteps \/ RPacket \/ RGiveUp)
  <2>1. (Pending("ack")' <=> Pending("ack")) /\ Once(ctl', "ack") BY <1>4, <1>7
  <2>2. CASE WBoot BY <2>1, <2>2 DEF WBoot, wFrame, niVars
  <2>3. CASE RTest BY <2>1, <2>3 DEF RTest, rStep, rFrame, niVars
  <2>4. CASE RWake BY <2>1, <2>4 DEF RWake, rStep, rFrame, niVars
  <2>5. CASE RSendInit \/ RPacket
    <3>1. R = "fill" /\ R' = "flag" /\ UNCHANGED <<wak, pktinf>> /\ box'["fr"].rdy = TRUE
      BY <1>1, <2>5, Sent DEF RSendInit, RPacket, rStep, rFrame, niVars, Command
    <3> QED BY <2>1, <3>1
  <2>6. CASE RFlag BY <2>1, <2>6 DEF RFlag, rStep, rFrame, niVars
  <2>7. CASE RKill BY <2>1, <2>7 DEF RKill, rStep, rFrame, niVars
  <2>8. CASE RGiveUp BY <2>1, <2>8 DEF RGiveUp, rStep, rFrame, niVars
  <2> QED BY <2>2, <2>3, <2>4, <2>5, <2>6, <2>7, <2>8, <1>7 DEF RSteps
<1> QED BY <1>2, <1>3, <1>5, <1>6, <1>7 DEF Next, Main, WSteps, NotFr

\* What is known of the "fr" buffer holds in every reachable state.
LEMMA FrAlways == Spec => []FrInv
<1>1. Init => FrInv BY DEF Init, FrInv, Pending, Once
<1> QED BY <1>1, FrStep, BaseAlways, PTL DEF Spec

\* One direction of the link keeps the mailbox's promise: the port works on what R put
\* there, once, and R does not touch it before the port has let go.
Open == pktinf \/ Pending("ack")

\* The initial states are initial states of a mailbox.
LEMMA FrInit == Init => FrBox!Init
<1> SUFFICES ASSUME Init PROVE FrBox!Init OBVIOUS
<1>1. box["fr"] = [rdy |-> FALSE, cmd |-> "none", tag |-> 0] BY DEF Init
<1>2. ~pktinf /\ ~Pending("ack") BY DEF Init, Pending
<1> QED BY <1>1, <1>2 DEF FrBox!Init, Command

\* Every step is a step of the mailbox of R's packets, or changes nothing of it.
LEMMA FrImplements ==
    ASSUME Base, FrInv, [Next]_vars
    PROVE  [FrBox!Next]_(FrBox!vars)
<1>1. Shape /\ box \in Boxes /\ wak \in BOOLEAN /\ pktinf \in BOOLEAN
  BY TypeParts DEF Base, Scalars
<1>2. box' \in Boxes BY <1>1, BoxStep
<1>3. <<box'["fr"].cmd, box'["fr"].tag>> \in Command \X {0, 1} BY <1>2 DEF Boxes, Buffer
<1>4. ASSUME UNCHANGED box, Open' <=> Open PROVE [FrBox!Next]_(FrBox!vars)
  BY <1>4 DEF FrBox!vars, Open, Pending
<1>5. ASSUME box'["fr"] = box["fr"], Open' <=> Open PROVE [FrBox!Next]_(FrBox!vars)
  BY <1>5 DEF FrBox!vars, Open, Pending
<1>6. ASSUME box["fr"].rdy, Open, ~box'["fr"].rdy, ~Open' PROVE FrBox!Close
  BY <1>3, <1>6 DEF FrBox!Close, Open, Pending
<1>7. ASSUME ~box["fr"].rdy, box'["fr"].rdy = TRUE, Open' <=> Open PROVE FrBox!Put
  BY <1>3, <1>7 DEF FrBox!Put, Open, Pending
<1>8. ASSUME box["fr"].rdy, UNCHANGED box, ~Open, Open' PROVE FrBox!Open
  BY <1>8 DEF FrBox!Open, Open, Pending
<1>9. ASSUME UNCHANGED box, Open, ~Open' PROVE FrBox!Drop
  BY <1>9 DEF FrBox!Drop, Open, Pending
<1> USE DEF FrBox!Next
<1>10. CASE EvHrwak
  <2>1. UNCHANGED box BY <1>10 DEF EvHrwak
  <2>2. wak /\ box["fr"].rdy => ~Pending("ack") /\ ~pktinf BY DEF FrInv
  <2>3. \/ (~wak \/ ~box["fr"].rdy) /\ UNCHANGED pktinf /\ (Pending("ack")' <=> Pending("ack"))
        \/ wak /\ box["fr"].rdy /\ (Pending("ack")' \/ pktinf')
    BY <2>2, <1>1, <1>10, WakAck DEF FrInv
  <2>4. (Open' <=> Open) \/ (box["fr"].rdy /\ ~Open /\ Open') BY <2>2, <2>3 DEF Open, Pending
  <2> QED BY <2>1, <2>4, <1>4, <1>8
<1>11. CASE Ack
  <2>1. ~Pending("ack")' /\ Pending("ack") BY <1>1, <1>11, AckAck, AtPending DEF Ack, FrInv
  <2>2. UNCHANGED pktinf /\ box'["fr"].rdy = FALSE BY <1>1, <1>11, Freed DEF Ack, niVars
  <2>3. ~pktinf /\ box["fr"].rdy BY <2>1 DEF FrInv
  <2> QED BY <2>1, <2>2, <2>3, <1>6 DEF Open, Pending
<1>12. ASSUME ~EvHrwak, ~Ack PROVE Pending("ack")' <=> Pending("ack") BY <1>1, <1>12, AckKept
<1>13. CASE ~EvHrwak /\ ~Ack /\ NotFr
  <2>1. UNCHANGED pktinf /\ box'["fr"] = box["fr"] BY <1>1, <1>13, NotFrFrame
  <2>2. Open' <=> Open BY <2>1, <1>12, <1>13 DEF Open, Pending
  <2> QED BY <2>1, <2>2, <1>5
<1>14. CASE ~EvHrwak /\ ~Ack /\ (RunPacket \/ Stop \/ Clear)
  <2>1. Pending("ack")' <=> Pending("ack") BY <1>12, <1>14
  <2>2. CASE RunPacket
    <3>1. pktinf /\ box["fr"].rdy /\ ~Pending("ack") BY <2>2 DEF RunPacket, FrInv
    <3>2. UNCHANGED <<box, pktinf>> \/ (pktinf' = FALSE /\ dp_xrdone("fr"))
      BY <2>2 DEF RunPacket
    <3>3. dp_xrdone("fr") => box'["fr"].rdy = FALSE BY <1>1, Freed
    <3>4. CASE UNCHANGED <<box, pktinf>> BY <3>4, <2>1, <1>4 DEF Open, Pending
    <3>5. CASE pktinf' = FALSE /\ dp_xrdone("fr")
      BY <3>5, <3>1, <3>3, <2>1, <1>6 DEF Open, Pending
    <3> QED BY <3>2, <3>4, <3>5
  <2>3. CASE Stop BY <2>1, <2>3, <1>4 DEF Stop, linkVars, Open, Pending
  <2>4. CASE Clear
    <3>1. pktinf' = FALSE /\ UNCHANGED box BY <2>4 DEF Clear, linkVars
    <3>2. (Open' <=> Open) \/ (Open /\ ~Open') BY <3>1, <2>1 DEF Open, Pending
    <3> QED BY <3>1, <3>2, <1>4, <1>9
  <2> QED BY <2>2, <2>3, <2>4, <1>14
<1>15. CASE ~EvHrwak /\ ~Ack /\ (WBoot \/ RSteps \/ RPacket \/ RGiveUp)
  <2>1. UNCHANGED pktinf
    BY <1>15 DEF WBoot, wFrame, RSteps, RTest, RWake, RSendInit, RFlag, RKill, RPacket, RGiveUp,
       rFrame, niVars
  <2>2. Open' <=> Open BY <2>1, <1>12, <1>15 DEF Open, Pending
  <2>3. CASE RSendInit \/ RPacket
    <3>1. R = "fill" /\ box'["fr"].rdy = TRUE
      BY <1>1, <2>3, Sent DEF RSendInit, RPacket, rStep, Command
    <3>2. ~box["fr"].rdy BY <3>1 DEF FrInv
    <3> QED BY <2>2, <3>1, <3>2, <1>7
  <2>4. CASE WBoot \/ RTest \/ RWake \/ RGiveUp \/ RFlag \/ RKill
    BY <2>2, <2>4, <1>4 DEF WBoot, RTest, RWake, RGiveUp, RFlag, RKill
  <2> QED BY <2>3, <2>4, <1>15 DEF RSteps
<1> QED BY <1>10, <1>11, <1>13, <1>14, <1>15 DEF Next, Main, WSteps, NotFr

\* The port's side of the "fr" buffer and R's together implement the mailbox.
THEOREM FrKeepsPromise == Spec => FrOwned
<1>1. Base /\ FrInv /\ [Next]_vars => [FrBox!Next]_(FrBox!vars) BY FrImplements
<1> QED BY <1>1, FrInit, FrAlways, BaseAlways, PTL DEF Spec, FrOwned, FrBox!Spec

-----------------------------------------------------------------------------
(* The packet that waits                                                   *)

\* What starts and stops the subprocesses and the port.
LEMMA Starts ==
    ASSUME Shape, [Next]_vars
    PROVE  \/ UNCHANGED <<starts, state>>
           \/ ConoStart
           \/ UNCHANGED starts /\ state # "HALT"
<1>1. CASE Enable
  <2>1. At("enable") /\ UNCHANGED starts BY <1>1 DEF Enable
  <2> QED BY <2>1 DEF Shape
<1>2. CASE ConoStart BY <1>2
<1>3. CASE ConoEnable \/ ConoDisable \/ ConoQueue \/ ConoStop
  BY <1>3 DEF ConoEnable, ConoDisable, ConoQueue, ConoStop
<1>4. CASE ConoClear
  <2>1. UNCHANGED starts /\ state' = "HALT" BY <1>4 DEF ConoClear
  <2> QED BY <2>1
<1>5. CASE \/ RingW \/ RingR \/ EvHrwak \/ Ack \/ EvHsdon \/ RunBlocked \/ RunRelink \/ RunPacket
           \/ RunNoPacket \/ RunDone \/ RunResched \/ RunEmpty
  BY <1>5 DEF RingW, RingR, EvHrwak, Ack, EvHsdon, RunBlocked, RunRelink, RunPacket, RunNoPacket,
     RunDone, RunResched, RunEmpty, CmdReady, niVars
<1>6. CASE \/ RunSnddg \/ RunWrtnsa \/ QuitTest \/ QuitSuspend \/ OtherSignal \/ Quit \/ Stop \/ Clear
           \/ EvBegin \/ RunClk
  BY <1>6 DEF RunSnddg, RunWrtnsa, CmdBack, QuitTest, QuitSuspend, OtherSignal, Quit, Stop, Clear,
     EvBegin, RunClk, niVars
<1>7. CASE WSteps \/ RSteps \/ RPacket \/ RGiveUp \/ UNCHANGED vars
  BY <1>7 DEF WSteps, WBoot, WTest, WWake, WExec, WFail, WDone, WFlag, WKill, wFrame, RSteps, RTest,
     RWake, RSendInit, RFlag, RKill, RPacket, RGiveUp, rFrame, niVars, vars
<1> QED BY <1>1, <1>2, <1>3, <1>4, <1>5, <1>6, <1>7 DEF Next, Main, Cono

\* The steps that touch neither the subprocesses nor what remembers a packet.
Aside ==
    \/ RingW \/ RingR \/ Ack \/ EvHsdon \/ RunBlocked \/ RunRelink \/ RunNoPacket \/ RunDone
    \/ RunResched \/ RunEmpty \/ RunSnddg \/ RunWrtnsa \/ Enable \/ QuitTest \/ QuitSuspend
    \/ OtherSignal \/ Quit \/ RunClk \/ ConoEnable \/ ConoDisable \/ ConoQueue \/ ConoStop
    \/ ConoClear \/ UNCHANGED vars

\* They leave W, R and what the port knows of a packet alone.
LEMMA AsideFrame ==
    ASSUME Aside
    PROVE  UNCHANGED <<W, R, wak, evsig, pktinf>>
<1>1. CASE \/ RingW \/ RingR \/ Ack \/ EvHsdon \/ RunBlocked \/ RunRelink \/ RunNoPacket
           \/ RunDone \/ RunResched \/ RunEmpty
  BY <1>1 DEF RingW, RingR, Ack, EvHsdon, RunBlocked, RunRelink, RunNoPacket, RunDone, RunResched,
     RunEmpty, linkVars, niVars, dpVars
<1>2. CASE \/ RunSnddg \/ RunWrtnsa \/ Enable \/ QuitTest \/ QuitSuspend \/ OtherSignal \/ Quit
  BY <1>2 DEF RunSnddg, RunWrtnsa, CmdBack, Enable, QuitTest, QuitSuspend, OtherSignal, Quit,
     linkVars, niVars, dpVars
<1>3. CASE \/ RunClk \/ ConoEnable \/ ConoDisable \/ ConoQueue \/ ConoStop \/ ConoClear
           \/ UNCHANGED vars
  BY <1>3 DEF RunClk, ConoEnable, ConoDisable, ConoQueue, ConoStop, ConoClear, linkVars, niVars,
     dpVars, vars
<1> QED BY <1>1, <1>2, <1>3 DEF Aside

\* Every other step is one of the list.
LEMMA NextCases ==
    ASSUME [Next]_vars
    PROVE  \/ Aside \/ EvHrwak \/ EvBegin \/ RunPacket \/ Stop \/ Clear \/ ConoStart
           \/ WBoot \/ WTest \/ WWake \/ WExec \/ WFail \/ WDone \/ WFlag \/ WKill
           \/ RTest \/ RWake \/ RSendInit \/ RPacket \/ RGiveUp \/ RFlag \/ RKill
BY DEF Next, Main, Cono, WSteps, RSteps, Aside

\* A subprocess is only there after the port has started it.
LEMMA Boots ==
    ASSUME [Next]_vars
    PROVE  /\ W = "gone" /\ ~ConoStart => W' = "gone"
           /\ W' = "boot" => W = "boot" \/ ConoStart
           /\ R = "gone" /\ ~WBoot => R' = "gone"
<1>1. CASE Aside BY <1>1, AsideFrame
<1>2. CASE EvHrwak \/ EvBegin \/ RunPacket \/ Clear
  BY <1>2 DEF EvHrwak, EvBegin, RunPacket, Clear, dpVars
<1>3. CASE Stop \/ ConoStart BY <1>3 DEF Stop, ConoStart
<1>4. CASE WBoot \/ WTest \/ WWake \/ WExec \/ WFail \/ WDone \/ WFlag \/ WKill
  BY <1>4 DEF WBoot, WTest, WWake, WExec, WFail, WDone, WFlag, WKill, wStep
<1>5. CASE RTest \/ RWake \/ RSendInit \/ RPacket \/ RGiveUp \/ RFlag \/ RKill
  BY <1>5 DEF RTest, RWake, RSendInit, RPacket, RGiveUp, RFlag, RKill, rStep, rFrame
<1> QED BY <1>1, <1>2, <1>3, <1>4, <1>5, NextCases

\* Only R fills the "fr" buffer.
LEMMA FillsFr ==
    ASSUME box \in Boxes, [Next]_vars, ~box["fr"].rdy, box'["fr"].rdy
    PROVE  R = "fill" /\ R' = "flag"
<1>1. ASSUME box'["fr"] = box["fr"] \/ box'["fr"].rdy = FALSE PROVE FALSE BY <1>1
<1>2. CASE RSendInit \/ RPacket BY <1>2 DEF RSendInit, RPacket, rStep
<1>3. CASE NotFr BY <1>1, <1>3, NotFrFrame
<1>4. CASE Ack \/ RunPacket BY <1>1, <1>4, Freed DEF Ack, RunPacket
<1>5. CASE EvHrwak \/ Stop \/ Clear \/ WBoot \/ RTest \/ RWake \/ RGiveUp \/ RFlag \/ RKill
  BY <1>1, <1>5 DEF EvHrwak, Stop, Clear, WBoot, RTest, RWake, RGiveUp, RFlag, RKill, linkVars
<1> QED BY <1>2, <1>3, <1>4, <1>5 DEF Next, Main, WSteps, RSteps, NotFr

\* Every step keeps what is known of a port that was started once.
LEMMA FirstStep == Base /\ FirstRun /\ [Next]_vars => FirstRun'
<1> SUFFICES ASSUME Base, FirstRun, [Next]_vars PROVE FirstRun' OBVIOUS
<1>1. Shape /\ box \in Boxes /\ starts \in Nat BY TypeParts, NiAssumption DEF Base, Scalars
<1>2. /\ W = "gone" /\ ~ConoStart => W' = "gone"
      /\ W' = "boot" => W = "boot" \/ ConoStart
      /\ R = "gone" /\ ~WBoot => R' = "gone"
  BY Boots
<1>3. CASE ConoStart
  <2>1. starts' = starts + 1 /\ UNCHANGED R BY <1>3 DEF ConoStart
  <2>2. starts' # 0 /\ (starts' = 1 => starts = 0) BY <2>1, <1>1
  <2> QED BY <2>1, <2>2 DEF FirstRun
<1>4. CASE ~ConoStart
  <2>1. UNCHANGED starts /\ (UNCHANGED state \/ state # "HALT") BY <1>1, <1>4, Starts
  <2>2. ASSUME starts = 0
        PROVE  W' = "gone" /\ R' = "gone" /\ ~box'["fr"].rdy /\ state' = "HALT"
    <3>1. W = "gone" /\ R = "gone" /\ ~box["fr"].rdy /\ state = "HALT" BY <2>2 DEF FirstRun
    <3>2. ~WBoot BY <3>1 DEF WBoot, wStep
    <3> QED BY <3>1, <3>2, <1>1, <1>2, <1>4, <2>1, FillsFr
  <2>3. ASSUME starts = 1, W' = "boot" PROVE R' = "gone"
    <3>1. ~WBoot BY <2>3 DEF WBoot, wStep
    <3>2. W = "boot" /\ R = "gone" BY <2>3, <1>2, <1>4 DEF FirstRun
    <3> QED BY <3>1, <3>2, <1>2
  <2> QED BY <2>1, <2>2, <2>3 DEF FirstRun
<1> QED BY <1>3, <1>4

\* What is known of a port that was started once holds in every reachable state.
LEMMA FirstAlways == Spec => []FirstRun
<1>1. Init => FirstRun
  <2> SUFFICES ASSUME Init PROVE FirstRun OBVIOUS
  <2>1. box["fr"] = [rdy |-> FALSE, cmd |-> "none", tag |-> 0] BY DEF Init
  <2> QED BY <2>1 DEF Init, FirstRun
<1> QED BY <1>1, FirstStep, BaseAlways, PTL DEF Spec

\* What could make the port forget a packet.
LEMMA Forgets ==
    ASSUME [Next]_vars
    PROVE  /\ evsig /\ ~evsig' => EvBegin
           /\ wak /\ ~wak' => EvHrwak
           /\ pktinf /\ ~pktinf' => EvHrwak \/ (RunPacket /\ dp_xrdone("fr")) \/ Clear
           /\ R = "flag" /\ R' # "flag" => RFlag \/ Stop \/ WBoot
           /\ R = "kill" /\ R' # "kill" => RKill \/ Stop \/ WBoot
<1>1. CASE Aside BY <1>1, AsideFrame
<1>2. CASE EvHrwak BY <1>2 DEF EvHrwak, dpVars
<1>3. CASE EvBegin BY <1>3 DEF EvBegin, niVars, dpVars
<1>4. CASE RunPacket BY <1>4 DEF RunPacket, dpVars
<1>5. CASE Clear BY <1>5 DEF Clear, linkVars, dpVars
<1>6. CASE Stop BY <1>6 DEF Stop, linkVars
<1>7. CASE ConoStart BY <1>7 DEF ConoStart, linkVars
<1>8. CASE WBoot BY <1>8 DEF WBoot, wFrame, niVars
<1>9. CASE WTest \/ WWake \/ WExec \/ WFail \/ WDone \/ WFlag
  BY <1>9 DEF WTest, WWake, WExec, WFail, WDone, WFlag, wFrame, niVars
<1>10. CASE WKill BY <1>10 DEF WKill, Signalled, wFrame, niVars
<1>11. CASE RTest \/ RWake \/ RSendInit \/ RPacket \/ RGiveUp
  BY <1>11 DEF RTest, RWake, RSendInit, RPacket, RGiveUp, rStep, rFrame, niVars
<1>12. CASE RFlag BY <1>12 DEF RFlag, rStep, rFrame, niVars
<1>13. CASE RKill BY <1>13 DEF RKill, Signalled, rStep, rFrame, niVars
<1> QED BY <1>1, <1>2, <1>3, <1>4, <1>5, <1>6, <1>7, <1>8, <1>9, <1>10, <1>11, <1>12, <1>13, NextCases

\* Every step keeps PacketRemembered.
LEMMA PacketStep ==
    Base /\ FrInv /\ FirstRun /\ PacketRemembered /\ [Next]_vars => PacketRemembered'
<1> SUFFICES ASSUME Base, FrInv, FirstRun, PacketRemembered, [Next]_vars,
                    box'["fr"].rdy, starts' = 1, state' # "HALT"
             PROVE  \/ R' = "flag"
                    \/ wak' /\ (R' = "kill" \/ evsig' \/ Pending("wak")')
                    \/ pktinf' \/ Pending("ack")'
  BY DEF PacketRemembered, Pending
<1>1. Shape /\ box \in Boxes /\ starts \in Nat BY TypeParts, NiAssumption DEF Base, Scalars
<1>2. CASE ~box["fr"].rdy BY <1>1, <1>2, FillsFr
<1>3. CASE box["fr"].rdy
  <2>1. ~ConoStart
    <3> SUFFICES ASSUME ConoStart PROVE FALSE OBVIOUS
    <3>1. starts = 0 BY <1>1 DEF ConoStart
    <3> QED BY <3>1, <1>3 DEF FirstRun
  <2>2. starts = 1 /\ state # "HALT" BY <1>1, <2>1, Starts
  <2>3. ~Stop /\ ~Clear
    BY <1>1, <2>2, Heads DEF Stop, Clear, StopStep
  <2>4. R = "flag" \/ R = "kill" => ~WBoot BY <2>2 DEF FirstRun, WBoot, wStep
  <2>5. /\ evsig /\ ~evsig' => EvBegin
        /\ wak /\ ~wak' => EvHrwak
        /\ pktinf /\ ~pktinf' => EvHrwak \/ (RunPacket /\ dp_xrdone("fr")) \/ Clear
        /\ R = "flag" /\ R' # "flag" => RFlag \/ Stop \/ WBoot
        /\ R = "kill" /\ R' # "kill" => RKill \/ Stop \/ WBoot
    BY Forgets
  <2>6. CASE R = "flag" BY <2>3, <2>4, <2>5, <2>6 DEF RFlag, rStep
  <2>7. CASE EvHrwak
    <3>1. wak /\ box["fr"].rdy => ~Pending("ack") BY DEF FrInv
    <3>2. \/ ~wak /\ UNCHANGED pktinf /\ (Pending("ack")' <=> Pending("ack"))
          \/ Pending("ack")' \/ pktinf'
      BY <3>1, <1>1, <1>3, <2>7, WakAck DEF FrInv
    <3> QED BY <3>2, <1>3, <2>2, <2>5, <2>3, <2>6, <2>7 DEF PacketRemembered, EvHrwak
  <2>8. CASE ~EvHrwak /\ wak /\ (R = "kill" \/ evsig \/ Pending("wak"))
    <3>1. wak' BY <2>5, <2>8
    <3>2. CASE R = "kill" BY <3>1, <3>2, <2>3, <2>4, <2>5 DEF RKill, rStep, Signalled
    <3>3. CASE evsig
      <4>1. CASE EvBegin
        <5>1. ctl' = <<"wak", "don">> BY <4>1 DEF EvBegin, Leave
        <5>2. Pending("wak")' BY <5>1 DEF Pending
        <5> QED BY <3>1, <5>2
      <4>2. CASE ~EvBegin BY <3>1, <3>3, <4>2, <2>5
      <4> QED BY <4>1, <4>2
    <3>4. CASE Pending("wak")
      <4>1. Pending("wak")' BY <3>4, <1>1, <2>8, Lost DEF Takes
      <4> QED BY <3>1, <4>1
    <3> QED BY <3>2, <3>3, <3>4, <2>8
  <2>9. CASE ~EvHrwak /\ (pktinf \/ Pending("ack"))
    <3>1. ~(dp_xrdone("fr")) BY <1>1, Freed
    <3>2. ~Ack BY <3>1 DEF Ack
    <3>3. Pending("ack") => Pending("ack")' BY <3>2, <1>1, Lost DEF Takes
    <3>4. pktinf => pktinf' BY <3>1, <2>3, <2>5, <2>9
    <3> QED BY <3>3, <3>4, <2>9
  <2> QED BY <2>2, <2>6, <2>7, <2>8, <2>9, <1>3 DEF PacketRemembered
<1> QED BY <1>2, <1>3

\* What R has put into its buffer is known to the KLH10 until the port has let go of it.
THEOREM NothingForgotten == Spec => []PacketRemembered
<1>1. Init => PacketRemembered BY DEF Init, PacketRemembered
<1> QED BY <1>1, PacketStep, BaseAlways, FrAlways, FirstAlways, PTL DEF Spec

-----------------------------------------------------------------------------
(* The "to" buffer                                                         *)

\* What is on the list when the KLH10 is in one of its two ways.
LEMMA EnableHead ==
    ASSUME Shape, Pending("enable")
    PROVE  At("enable")
<1>1. PICK i \in DOMAIN ctl : ctl[i] = "enable" BY DEF Pending
<1>2. "enable" \notin StopStep BY DEF StopStep, Wait
<1>3. ~StopShape(ctl) BY <1>1, <1>2 DEF StopShape
<1>4. RunShape(ctl) BY <1>3 DEF Shape
<1>5. Len(ctl) \in Nat /\ i \in 1..Len(ctl) BY <1>1, <1>4 DEF RunShape
<1>6. ~(i \in 2..Len(ctl)) BY <1>1, <1>4 DEF RunShape
<1>7. i = 1 BY <1>5, <1>6
<1>8. ctl # <<>> BY <1>5
<1> QED BY <1>1, <1>7, <1>8 DEF At

\* A step of a stop is on the list during a stop only.
LEMMA RunNot ==
    ASSUME NEW l \in {"quit", "stop", "clear"}, Pending(l)
    PROVE  ~RunShape(ctl)
<1>1. l \notin RunStep BY DEF RunStep
<1> QED BY <1>1 DEF RunShape, Pending

\* During a stop only these happen.
LEMMA StopOnly ==
    ASSUME Shape, [Next]_vars, ~RunShape(ctl)
    PROVE  \/ RingW \/ QuitTest \/ QuitSuspend \/ OtherSignal \/ Quit \/ Stop \/ Clear
           \/ WSteps \/ RSteps \/ RPacket \/ RGiveUp \/ UNCHANGED vars
<1>1. ~Idle BY RunFew DEF Idle
<1>2. \A a \in RunStep \ {"ringW"} : ~At(a) BY Heads
<1>3. ~(EvBegin \/ RunClk \/ Cono)
  BY <1>1 DEF EvBegin, RunClk, Cono, ConoStart, ConoEnable, ConoDisable, ConoQueue, ConoStop,
     ConoClear, Leave, Begin
<1>4. ~(RingR \/ EvHrwak \/ Ack \/ EvHsdon \/ RunBlocked \/ RunRelink \/ RunPacket \/ RunNoPacket)
  BY <1>2 DEF RingR, EvHrwak, Ack, EvHsdon, RunBlocked, RunRelink, RunPacket, RunNoPacket, RunStep
<1>5. ~(RunDone \/ RunResched \/ RunEmpty \/ RunSnddg \/ RunWrtnsa \/ Enable)
  BY <1>2 DEF RunDone, RunResched, RunEmpty, RunSnddg, RunWrtnsa, CmdReady, Enable, RunStep
<1> QED BY <1>3, <1>4, <1>5 DEF Next, Main

\* How ni20_stop begins, with and without a subprocess that listens.
LEMMA StopLists ==
    /\ ~dpstate => \A l : In(StopSteps, l) \/ In(StopSteps \o <<"clear">>, l) => l \in {"stop", "clear"}
    /\ dpstate => /\ StopSteps # <<>> /\ StopSteps[1] = "xswait"
                  /\ StopSteps \o <<"clear">> # <<>> /\ (StopSteps \o <<"clear">>)[1] = "xswait"
    /\ In(StopSteps \o <<"clear">>, "clear")
<1> DEFINE r == StopSteps \o <<"clear">>
<1>1. StopSteps \in Seq(StopStep) /\ <<"clear">> \in Seq(StopStep)
  BY StopFew DEF StopShape
<1>2. Len(StopSteps) \in Nat /\ Len(<<"clear">>) = 1 /\ <<"clear">>[1] = "clear" BY <1>1
<1>3. /\ r \in Seq(StopStep) /\ Len(r) = Len(StopSteps) + 1
      /\ \A i \in 1..(Len(StopSteps) + 1) :
            r[i] = IF i <= Len(StopSteps) THEN StopSteps[i] ELSE <<"clear">>[i - Len(StopSteps)]
  BY <1>1, <1>2, ConcatProperties
<1> HIDE DEF r
<1>4. ~dpstate => Len(StopSteps) = 1 /\ StopSteps[1] = "stop" BY DEF StopSteps
<1>5. dpstate => Len(StopSteps) = 5 /\ StopSteps[1] = "xswait" BY DEF StopSteps
<1>9. Len(r) = Len(StopSteps) + 1 BY <1>3
<1>10. (Len(StopSteps) = 5 => Len(r) = 6) /\ (Len(StopSteps) = 1 => Len(r) = 2)
  <2>1. \A n, m : m = n + 1 => (n = 5 => m = 6) /\ (n = 1 => m = 2) OBVIOUS
  <2> QED BY <1>9, <2>1
<1>6. In(r, "clear")
  <2> DEFINE n == Len(StopSteps)
  <2>1. n + 1 \in 1..(n + 1) /\ ~(n + 1 <= n) /\ (n + 1) - n = 1 BY <1>2
  <2> HIDE DEF n
  <2>2. r[n + 1] = "clear" BY <2>1, <1>2, <1>3 DEF n
  <2>3. n + 1 \in DOMAIN r BY <2>1, <1>3 DEF n
  <2> QED BY <2>2, <2>3 DEF In
<1>7. ASSUME ~dpstate, NEW l, In(StopSteps, l) \/ In(r, l) PROVE l \in {"stop", "clear"}
  <2>1. Len(StopSteps) = 1 /\ Len(r) = 2 BY <1>10, <1>4, <1>7
  <2>2. DOMAIN StopSteps = 1..1 /\ DOMAIN r = 1..2 BY <2>1, <1>1, <1>3
  <2>3. \A i \in 1..2 : r[i] \in {"stop", "clear"}
    <3>1. \A i \in 1..2 : i = 1 \/ i = 2 OBVIOUS
    <3>2. 1 \in 1..(1 + 1) /\ 1 <= 1 /\ 2 \in 1..(1 + 1) /\ ~(2 <= 1) /\ 2 - 1 = 1 OBVIOUS
    <3>3. r[1] = "stop" /\ r[2] = "clear" BY <3>2, <2>1, <1>2, <1>3, <1>4, <1>7
    <3> QED BY <3>1, <3>3
  <2>4. \A i \in 1..1 : StopSteps[i] = "stop"
    <3>1. \A i \in 1..1 : i = 1 OBVIOUS
    <3> QED BY <3>1, <1>4, <1>7
  <2> QED BY <2>2, <2>3, <2>4, <1>7 DEF In
<1>8. ASSUME dpstate PROVE StopSteps # <<>> /\ StopSteps[1] = "xswait" /\ r # <<>> /\ r[1] = "xswait"
  <2>1. Len(StopSteps) = 5 /\ Len(r) = 6 BY <1>10, <1>5, <1>8
  <2>2. 1 \in 1..(5 + 1) /\ 1 <= 5 OBVIOUS
  <2>3. r[1] = StopSteps[1] BY <2>1, <2>2, <1>3
  <2>4. StopSteps # <<>> /\ r # <<>> BY <2>1
  <2> QED BY <2>3, <2>4, <1>5, <1>8
<1> QED BY <1>6, <1>7, <1>8 DEF r

\* Only W frees the "to" buffer.
LEMMA FreesTo ==
    ASSUME box \in Boxes, [Next]_vars, box["to"].rdy, ~box'["to"].rdy
    PROVE  WDone
<1>1. ASSUME box'["to"] = box["to"] \/ box'["to"].rdy = TRUE PROVE FALSE BY <1>1
<1>2. CASE Enable \/ Quit \/ RunSnddg \/ RunWrtnsa
  BY <1>1, <1>2, Sent DEF Enable, Quit, RunSnddg, RunWrtnsa, Command
<1>3. CASE RSendInit \/ RPacket BY <1>1, <1>3, Sent DEF RSendInit, RPacket, Command
<1>4. CASE Ack \/ RunPacket BY <1>1, <1>4, Freed DEF Ack, RunPacket
<1>5. CASE \/ RingW \/ RingR \/ EvHrwak \/ EvHsdon \/ RunBlocked \/ RunRelink \/ RunNoPacket
           \/ RunDone \/ RunResched \/ RunEmpty \/ QuitTest \/ QuitSuspend \/ OtherSignal
           \/ Stop \/ Clear
  BY <1>1, <1>5 DEF RingW, RingR, EvHrwak, EvHsdon, RunBlocked, RunRelink, RunNoPacket, RunDone,
     RunResched, RunEmpty, QuitTest, QuitSuspend, OtherSignal, Stop, Clear, linkVars
<1>6. CASE EvBegin \/ RunClk \/ Cono
  BY <1>1, <1>6 DEF EvBegin, RunClk, Cono, ConoStart, ConoEnable, ConoDisable, ConoQueue,
     ConoStop, ConoClear, linkVars
<1>7. CASE \/ WBoot \/ WTest \/ WWake \/ WExec \/ WFail \/ WFlag \/ WKill
           \/ RTest \/ RWake \/ RGiveUp \/ RFlag \/ RKill \/ UNCHANGED vars
  BY <1>1, <1>7 DEF WBoot, WTest, WWake, WExec, WFail, WFlag, WKill, RTest, RWake,
     RGiveUp, RFlag, RKill, vars, linkVars
<1> QED BY <1>2, <1>3, <1>4, <1>5, <1>6, <1>7 DEF Next, Main, WSteps, RSteps

\* W executes what it has found in its buffer, once, and then lets go of it.
LEMMA Executes ==
    ASSUME [Next]_vars
    PROVE  /\ W' \in {"exec", "done"} => W \in {"exec", "done"} \/ (box["to"].rdy /\ UNCHANGED box)
           /\ W' = "done" /\ W # "done" => WExec
           /\ W = "done" /\ W' # "done" => WDone \/ Stop \/ ConoStart
<1>1. CASE Aside BY <1>1, AsideFrame
<1>2. CASE EvHrwak \/ EvBegin \/ RunPacket \/ Clear
  BY <1>2 DEF EvHrwak, EvBegin, RunPacket, Clear, dpVars
<1>3. CASE Stop \/ ConoStart BY <1>3 DEF Stop, ConoStart
<1>4. CASE WBoot \/ WTest \/ WWake \/ WExec \/ WFail \/ WDone \/ WFlag \/ WKill
  BY <1>4 DEF WBoot, WTest, WWake, WExec, WFail, WDone, WFlag, WKill, wStep
<1>5. CASE RTest \/ RWake \/ RSendInit \/ RPacket \/ RGiveUp \/ RFlag \/ RKill
  BY <1>5 DEF RTest, RWake, RSendInit, RPacket, RGiveUp, RFlag, RKill, rStep, rFrame
<1> QED BY <1>1, <1>2, <1>3, <1>4, <1>5, NextCases

\* After the walk over an event, a port that was to be enabled knows that W listens.
LEMMA WakEnable ==
    ASSUME Shape, EvHrwak
    PROVE  /\ ~Pending("enable")
           /\ Pending("enable")' => wantEna /\ dpstate'
           /\ dpstate => dpstate'
           /\ dpstate' => dpstate \/ (state = "RUN" /\ wantEna => Pending("enable")')
<1>1. At("wak") BY DEF EvHrwak
<1>2. ~Pending("enable") BY <1>1, EnableHead DEF At
<1>3. Then(<<"enable", "ack">>) => Pending("enable")' BY <1>1, StepFew, Pushed
<1>4. ASSUME NEW ls \in {<<>>, <<"run">>, <<"ack">>}, Then(ls) PROVE ~Pending("enable")'
  <2>1. <<>> \in Seq(Step) /\ <<"run">> \in Seq(Step) /\ <<"ack">> \in Seq(Step)
    BY StepFew DEF Step, RunStep
  <2>2. ~In(<<>>, "enable") /\ ~In(<<"run">>, "enable") /\ ~In(<<"ack">>, "enable") BY InFew
  <2>3. ctl' = ls \o Tail(ctl) /\ ls \in Seq(Step) /\ ~In(ls, "enable")
    BY <1>4, <2>1, <2>2 DEF Then
  <2> QED BY <2>3, <1>1, <1>2, ThenIn
<1>5. CASE ~wak \/ ~box["fr"].rdy
  <2>1. Then(<<>>) /\ UNCHANGED dpstate BY <1>5 DEF EvHrwak
  <2> QED BY <2>1, <1>2, <1>4
<1>6. CASE wak /\ box["fr"].rdy /\ box["fr"].cmd = "INIT"
  <2>1. dpstate' = TRUE /\ Then(IF state = "RUN" /\ wantEna THEN <<"enable", "ack">> ELSE <<"ack">>)
    BY <1>6 DEF EvHrwak
  <2>2. CASE state = "RUN" /\ wantEna BY <2>1, <2>2, <1>2, <1>3
  <2>3. CASE ~(state = "RUN" /\ wantEna)
    <3>1. Then(<<"ack">>) BY <2>1, <2>3
    <3> QED BY <3>1, <2>1, <2>3, <1>2, <1>4
  <2> QED BY <2>2, <2>3
<1>7. CASE wak /\ box["fr"].rdy /\ box["fr"].cmd # "INIT"
  <2>1. (Then(<<"run">>) \/ Then(<<"ack">>)) /\ UNCHANGED dpstate BY <1>7 DEF EvHrwak
  <2> QED BY <2>1, <1>2, <1>4
<1> QED BY <1>5, <1>6, <1>7

\* What changes what the port knows of itself.
LEMMA Knows ==
    ASSUME [Next]_vars
    PROVE  /\ dpstate /\ ~dpstate' => Stop
           /\ ~dpstate /\ dpstate' => EvHrwak
           /\ ~wantEna /\ wantEna' => ConoEnable
           /\ wantEna /\ wantEna' /\ state' # state => ConoDisable
           /\ state' = "ENA" /\ state # "ENA" => Enable
           /\ ~cmdqf /\ cmdqf' => ConoDisable \/ ConoQueue
<1>1. CASE \/ RingW \/ RingR \/ Ack \/ EvHsdon \/ RunRelink \/ RunNoPacket \/ QuitTest
           \/ QuitSuspend \/ OtherSignal \/ Quit \/ EvBegin \/ RunClk
  BY <1>1 DEF RingW, RingR, Ack, EvHsdon, RunRelink, RunNoPacket, QuitTest, QuitSuspend,
     OtherSignal, Quit, EvBegin, RunClk, niVars
<1>2. CASE EvHrwak BY <1>2 DEF EvHrwak
<1>3. CASE RunBlocked \/ RunPacket \/ RunDone \/ RunResched
  BY <1>3 DEF RunBlocked, RunPacket, RunDone, RunResched
<1>4. CASE RunEmpty BY <1>4 DEF RunEmpty
<1>5. CASE RunSnddg \/ RunWrtnsa BY <1>5 DEF RunSnddg, RunWrtnsa, CmdBack
<1>6. CASE Enable BY <1>6 DEF Enable
<1>7. CASE Stop BY <1>7 DEF Stop
<1>8. CASE Clear BY <1>8 DEF Clear
<1>9. CASE ConoStart BY <1>9 DEF ConoStart
<1>10. CASE ConoEnable BY <1>10 DEF ConoEnable
<1>11. CASE ConoDisable BY <1>11 DEF ConoDisable
<1>12. CASE ConoQueue BY <1>12 DEF ConoQueue
<1>13. CASE ConoStop BY <1>13 DEF ConoStop
<1>14. CASE ConoClear BY <1>14 DEF ConoClear
<1>15. CASE WSteps
  BY <1>15 DEF WSteps, WBoot, WTest, WWake, WExec, WFail, WDone, WFlag, WKill, wFrame, niVars
<1>16. CASE RSteps \/ RPacket \/ RGiveUp \/ UNCHANGED vars
  BY <1>16 DEF RSteps, RTest, RWake, RSendInit, RFlag, RKill, RPacket, RGiveUp, rFrame, niVars, vars
<1> QED BY <1>1, <1>2, <1>3, <1>4, <1>5, <1>6, <1>7, <1>8, <1>9, <1>10, <1>11, <1>12, <1>13,
           <1>14, <1>15, <1>16 DEF Next, Main, Cono

\* The list after the actions that can put QUIT or dp_stop on it.
LEMMA Stopping ==
    ASSUME Idle, ConoStop \/ ConoClear
    PROVE  /\ UNCHANGED <<box, dpstate, cmdqf>>
           /\ Pending("quit")' => dpstate
           /\ Pending("stop")' => ConoStop \/ Pending("clear")'
           /\ dpstate => \A l \in {"quit", "stop"} : ~At(l)'
<1>1. UNCHANGED <<box, dpstate, cmdqf>> BY DEF ConoStop, ConoClear, linkVars
<1>2. \A l : Pending(l)' <=> In(ctl', l) BY DEF Pending, In
<1>3. CASE ctl' = <<"clear">>
  <2>1. \A l : Pending(l)' => l = "clear" BY <1>2, <1>3, InFew
  <2>2. \A l \in {"quit", "stop"} : ~At(l)' BY <1>3 DEF At
  <2> QED BY <1>1, <2>1, <2>2
<1>4. CASE ConoStop
  <2>1. ctl' = StopSteps BY <1>4 DEF ConoStop, Begin
  <2>2. Pending("quit")' => dpstate BY <1>2, <2>1, StopLists
  <2>3. dpstate => \A l \in {"quit", "stop"} : ~At(l)' BY <2>1, StopLists DEF At
  <2> QED BY <1>1, <1>4, <2>2, <2>3
<1>5. CASE ConoClear /\ ctl' # <<"clear">>
  <2>1. ctl' = StopSteps \o <<"clear">> BY <1>5 DEF ConoClear, Begin
  <2>2. Pending("quit")' => dpstate BY <1>2, <2>1, StopLists
  <2>3. dpstate => \A l \in {"quit", "stop"} : ~At(l)' BY <2>1, StopLists DEF At
  <2>4. Pending("clear")' BY <1>2, <2>1, StopLists
  <2> QED BY <1>1, <2>2, <2>3, <2>4
<1> QED BY <1>3, <1>4, <1>5

\* The head of a list is in it.
LEMMA HeadIn ==
    ASSUME NEW S, NEW c \in Seq(S), c # <<>>
    PROVE  In(c, c[1])
<1>1. Len(c) \in Nat /\ Len(c) # 0 BY EmptySeq
<1>2. 1 \in DOMAIN c BY <1>1
<1> QED BY <1>2 DEF In

\* The head of the new list is the label put in front.
LEMMA PushHead ==
    ASSUME Shape, NEW a, At(a), NEW w \in Step, ctl' = <<w>> \o Tail(ctl)
    PROVE  ctl'[1] = w
<1>1. ctl \in Seq(Step) /\ ctl # <<>> BY Heads
<1>2. <<w>> \in Seq(Step) /\ Len(<<w>>) = 1 /\ <<w>>[1] = w OBVIOUS
<1>3. \A i \in 1..Len(<<w>>) : (<<w>> \o Tail(ctl))[i] = <<w>>[i] BY <1>1, <1>2, ThenFact
<1>4. 1 \in 1..Len(<<w>>) BY <1>2
<1> QED BY <1>2, <1>3, <1>4

\* QUIT is sent, and dp_stop called, right after a wait that found the buffer free, or at
\* once if W is not known to listen.
LEMMA Arrives ==
    ASSUME Shape, [Next]_vars, NEW l \in {"quit", "stop"}, At(l)'
    PROVE  \/ At(l) /\ (WSteps \/ RSteps \/ RPacket \/ RGiveUp \/ UNCHANGED vars)
           \/ ~box["to"].rdy /\ UNCHANGED box
           \/ Idle /\ (ConoStop \/ ConoClear)
<1>1. ctl' # <<>> /\ ctl'[1] = l BY DEF At
<1>2. In(ctl', l) /\ Pending(l)'
  <2>1. CtlShape' BY CtlStep
  <2>2. ctl' \in Seq(RunStep) \/ ctl' \in Seq(StopStep) BY <2>1 DEF CtlShape, RunShape, StopShape
  <2>3. In(ctl', ctl'[1]) BY <1>1, <2>2, HeadIn
  <2> QED BY <2>3, <1>1 DEF Pending, In
<1>3. CASE ~Pending(l)
  <2>1. ConoStop \/ ConoClear BY <1>2, <1>3, Gained
  <2>2. Idle BY <2>1 DEF ConoStop, ConoClear, Begin
  <2> QED BY <2>1, <2>2
<1>4. CASE Pending(l)
  <2>1. ~RunShape(ctl) BY <1>4, RunNot
  <2>2. StopShape(ctl) /\ ctl # <<>> BY <2>1, RunFew DEF Shape
  <2>3. /\ ctl[1] = "quit" => (<<>> \o Tail(ctl)) # <<>> /\ (<<>> \o Tail(ctl))[1] = "ringW"
        /\ ctl[1] = "ringW" /\ <<>> \o Tail(ctl) # <<>> => (<<>> \o Tail(ctl))[1] \notin {"quit", "stop"}
        /\ ctl[1] = "stop" => \A k : In(<<>> \o Tail(ctl), k) => k = "clear"
        /\ ctl[1] = "clear" => <<>> \o Tail(ctl) = <<>>
    BY <2>2, StopPop
  <2>4. CASE RingW \/ Quit \/ Stop \/ Clear
    <3>1. ctl' = <<>> \o Tail(ctl) /\ ctl[1] \in {"quit", "ringW", "stop", "clear"}
      BY <2>4 DEF RingW, Quit, Stop, Clear, At, Then
    <3> DEFINE r == <<>> \o Tail(ctl)
    <3>2. r # <<>> /\ r[1] = l /\ In(r, l) BY <3>1, <1>1, <1>2
    <3> HIDE DEF r
    <3> QED BY <3>1, <3>2, <2>3 DEF r
  <2>5. ASSUME NEW a, At(a), NEW w \in Wait, ctl' = <<w>> \o Tail(ctl) PROVE FALSE
    <3>1. w \in Step BY DEF Step, StopStep
    <3>2. ctl'[1] = w BY <3>1, <2>5, PushHead
    <3> QED BY <3>2, <1>1 DEF Wait
  <2>6. CASE QuitTest
    <3>1. At("xswait") /\ UNCHANGED box BY <2>6 DEF QuitTest, linkVars
    <3>2. CASE box["to"].rdy
      <4>1. ctl' = <<"suspend">> \o Tail(ctl) BY <2>6, <3>2 DEF QuitTest, Then
      <4> QED BY <3>1, <4>1, <2>5 DEF Wait
    <3> QED BY <3>1, <3>2
  <2>7. CASE QuitSuspend BY <2>7, <2>5 DEF QuitSuspend, Then, Wait
  <2>8. CASE OtherSignal BY <2>8, <2>5 DEF OtherSignal, Then, Wait
  <2>9. CASE WSteps \/ RSteps \/ RPacket \/ RGiveUp \/ UNCHANGED vars
    <3>1. UNCHANGED ctl \/ (At("nap") /\ ctl' = <<"xswait">> \o Tail(ctl))
      <4>1. Signalled => UNCHANGED ctl \/ (At("nap") /\ ctl' = <<"xswait">> \o Tail(ctl))
        BY DEF Signalled, At
      <4> QED BY <2>9, <4>1 DEF WSteps, WBoot, WTest, WWake, WExec, WFail, WDone, WFlag, WKill, RSteps,
              RTest, RWake, RSendInit, RFlag, RKill, RPacket, RGiveUp, vars
    <3>2. "xswait" \in Wait BY DEF Wait
    <3>3. UNCHANGED ctl BY <3>1, <3>2, <2>5
    <3> QED BY <3>3, <1>1, <2>9 DEF At
  <2> QED BY <2>1, <2>4, <2>6, <2>7, <2>8, <2>9, StopOnly
<1> QED BY <1>3, <1>4

\* ToInv in named parts.
ToBusy   == W \in {"exec", "done"} => box["to"].rdy
ToFree   == At("quit") \/ At("stop") \/ At("enable") => ~box["to"].rdy
ToKnown  == state = "ENA" \/ Pending("enable") \/ Pending("quit") => dpstate
ToWanted == wantEna => state = "RUN" /\ (~dpstate \/ Pending("enable"))
ToStop   == Pending("stop") => ~cmdqf \/ Pending("clear")
ToQuiet  == ~dpstate => ~box["to"].rdy /\ (~cmdqf \/ Pending("clear"))
\* ToInv is the conjunction of its named parts.
LEMMA ToParts == ToInv <=> ToBusy /\ ToFree /\ ToKnown /\ ToWanted /\ ToStop /\ ToQuiet
BY DEF ToInv, ToBusy, ToFree, ToKnown, ToWanted, ToStop, ToQuiet

\* Whoever fills the "to" buffer knows that W listens.
LEMMA FillsKnown ==
    ASSUME Base, ToInv, [Next]_vars, ~box["to"].rdy, box'["to"].rdy
    PROVE  dpstate /\ (Enable \/ Quit \/ RunSnddg \/ RunWrtnsa)
<1>1. Shape /\ box \in Boxes BY TypeParts DEF Base
<1>2. ToKnown /\ ToQuiet BY ToParts
<1>3. Enable \/ Quit \/ RunSnddg \/ RunWrtnsa BY <1>1, FillsTo
<1>4. CASE Enable
  <2>1. Pending("enable") BY <1>1, <1>4, AtPending DEF Enable
  <2> QED BY <2>1, <1>2, <1>3 DEF ToKnown
<1>5. CASE Quit
  <2>1. Pending("quit") BY <1>1, <1>5, AtPending DEF Quit
  <2> QED BY <2>1, <1>2, <1>3 DEF ToKnown
<1>6. CASE RunSnddg \/ RunWrtnsa
  <2>1. At("cmd") /\ cmdqf BY <1>6 DEF RunSnddg, RunWrtnsa, CmdReady
  <2>2. RunShape(ctl) BY <2>1, <1>1, Heads DEF RunStep
  <2>3. ~Pending("clear") BY <2>2, RunNot
  <2> QED BY <2>1, <2>3, <1>2, <1>3 DEF ToQuiet
<1> QED BY <1>3, <1>4, <1>5, <1>6

\* Every step keeps ToBusy: W is busy only with what is in its buffer.
LEMMA ToBusyStep ==
    ASSUME box \in Boxes, ToBusy, [Next]_vars
    PROVE  ToBusy'
<1> SUFFICES ASSUME W' \in {"exec", "done"} PROVE box'["to"].rdy BY DEF ToBusy
<1>1. W \in {"exec", "done"} \/ (box["to"].rdy /\ UNCHANGED box) BY Executes
<1>2. ~WDone BY DEF WDone, wStep
<1> QED BY <1>1, <1>2, FreesTo DEF ToBusy

\* Every step keeps ToFree, for a patient monitor.
LEMMA ToFreeStep ==
    ASSUME Patient, Base, ToInv, [Next]_vars
    PROVE  ToFree'
<1>1. Shape /\ box \in Boxes BY TypeParts DEF Base
<1>2. ToFree /\ ToWanted /\ ToQuiet BY ToParts
<1>3. ASSUME NEW l \in {"quit", "stop"}, At(l)' PROVE ~box'["to"].rdy
  <2>1. CASE At(l) /\ (WSteps \/ RSteps \/ RPacket \/ RGiveUp \/ UNCHANGED vars)
    <3>1. ~box["to"].rdy BY <2>1, <1>2, <1>3 DEF ToFree
    <3>2. ~(Enable \/ RunSnddg \/ RunWrtnsa)
      BY <2>1, <1>3 DEF Enable, RunSnddg, RunWrtnsa, CmdReady, At
    <3>3. ~Quit
      <4> SUFFICES ASSUME Quit PROVE FALSE OBVIOUS
      <4>1. At("quit") /\ ctl' = <<>> \o Tail(ctl) BY DEF Quit, Then
      <4>2. StopShape(ctl) /\ ctl # <<>> /\ ctl[1] = "quit" BY <4>1, <1>1, Heads DEF StopStep
      <4>3. (<<>> \o Tail(ctl))[1] = "ringW" BY <4>2, StopPop
      <4> QED BY <4>1, <4>3, <1>3 DEF At
    <3> QED BY <3>1, <3>2, <3>3, <1>1, FillsTo
  <2>2. CASE ~box["to"].rdy /\ UNCHANGED box BY <2>2
  <2>3. CASE Idle /\ (ConoStop \/ ConoClear)
    <3>1. UNCHANGED <<box, dpstate>> /\ (dpstate => ~At(l)') BY <2>3, Stopping
    <3> QED BY <3>1, <1>2, <1>3 DEF ToQuiet
  <2> QED BY <2>1, <2>2, <2>3, <1>1, <1>3, Arrives
<1>4. ASSUME At("enable")' PROVE ~box'["to"].rdy
  <2>1. Pending("enable")'
    <3>1. CtlShape' BY <1>1, CtlStep
    <3>2. ctl' \in Seq(RunStep) \/ ctl' \in Seq(StopStep) BY <3>1 DEF CtlShape, RunShape, StopShape
    <3>3. ctl' # <<>> /\ ctl'[1] = "enable" BY <1>4 DEF At
    <3>4. In(ctl', ctl'[1]) BY <3>2, <3>3, HeadIn
    <3> QED BY <3>3, <3>4 DEF Pending, In
  <2>2. CASE Pending("enable")
    <3>1. At("enable") /\ ~box["to"].rdy BY <2>2, <1>1, <1>2, EnableHead DEF ToFree
    <3>2. ~(Quit \/ RunSnddg \/ RunWrtnsa) BY <3>1 DEF Quit, RunSnddg, RunWrtnsa, CmdReady, At
    <3>3. ~Enable
      <4> SUFFICES ASSUME Enable PROVE FALSE OBVIOUS
      <4>1. ctl' = <<"ringW">> \o Tail(ctl) BY DEF Enable, Then
      <4>2. ctl'[1] = "ringW" BY <4>1, <3>1, <1>1, PushHead DEF Step, RunStep
      <4> QED BY <4>2, <1>4 DEF At
    <3> QED BY <3>1, <3>2, <3>3, <1>1, FillsTo
  <2>3. CASE ~Pending("enable")
    <3>1. EvHrwak \/ ConoEnable BY <2>1, <2>3, <1>1, Gained
    <3>2. CASE ConoEnable BY <3>2 DEF ConoEnable, linkVars
    <3>3. CASE EvHrwak
      <4>1. wantEna BY <2>1, <3>3, <1>1, WakEnable
      <4>2. ~box["to"].rdy BY <4>1, <2>3, <1>2 DEF ToWanted, ToQuiet
      <4> QED BY <4>2, <3>3 DEF EvHrwak
    <3> QED BY <3>1, <3>2, <3>3
  <2> QED BY <2>2, <2>3
<1> QED BY <1>3, <1>4 DEF ToFree, At

\* Every step keeps ToKnown.
LEMMA ToKnownStep ==
    ASSUME Base, ToInv, [Next]_vars
    PROVE  ToKnown'
<1>1. Shape /\ ToKnown BY ToParts DEF Base
<1>2. CASE Stop
  <2>1. At("stop") /\ ctl' = <<>> \o Tail(ctl) /\ UNCHANGED state BY <1>2 DEF Stop, Then
  <2>2. StopShape(ctl) /\ ctl # <<>> /\ ctl[1] = "stop" /\ state = "HALT"
    BY <2>1, <1>1, Heads DEF StopStep
  <2>3. \A l : In(ctl', l) => l = "clear" BY <2>1, <2>2, StopPop
  <2>4. ~Pending("enable")' /\ ~Pending("quit")' BY <2>3 DEF Pending, In
  <2> QED BY <2>1, <2>2, <2>4 DEF ToKnown, Pending
<1>3. CASE ~Stop
  <2>1. dpstate => dpstate' BY <1>3, Knows
  <2>2. ASSUME state' = "ENA" PROVE dpstate'
    <3>1. CASE state = "ENA" BY <3>1, <2>1, <1>1 DEF ToKnown
    <3>2. CASE state # "ENA"
      <4>1. Enable BY <2>2, <3>2, Knows
      <4>2. Pending("enable") BY <4>1, <1>1, AtPending DEF Enable
      <4> QED BY <4>2, <2>1, <1>1 DEF ToKnown
    <3> QED BY <3>1, <3>2
  <2>3. ASSUME Pending("enable")' PROVE dpstate'
    <3>1. CASE Pending("enable") BY <3>1, <2>1, <1>1 DEF ToKnown
    <3>2. CASE ~Pending("enable")
      <4>1. EvHrwak \/ ConoEnable BY <2>3, <3>2, <1>1, Gained
      <4>2. CASE EvHrwak BY <4>2, <2>3, <1>1, WakEnable
      <4>3. CASE ConoEnable
        <5>1. dpstate \/ ctl' = <<>> BY <4>3 DEF ConoEnable, Begin
        <5>2. ctl' # <<>> BY <2>3 DEF Pending
        <5> QED BY <5>1, <5>2, <2>1
      <4> QED BY <4>1, <4>2, <4>3
    <3> QED BY <3>1, <3>2
  <2>4. ASSUME Pending("quit")' PROVE dpstate'
    <3>1. CASE Pending("quit") BY <3>1, <2>1, <1>1 DEF ToKnown
    <3>2. CASE ~Pending("quit")
      <4>1. ConoStop \/ ConoClear BY <2>4, <3>2, <1>1, Gained
      <4>2. Idle BY <4>1 DEF ConoStop, ConoClear, Begin
      <4> QED BY <4>1, <4>2, <2>1, <2>4, Stopping
    <3> QED BY <3>1, <3>2
  <2> QED BY <2>2, <2>3, <2>4 DEF ToKnown, Pending
<1> QED BY <1>2, <1>3

\* Every step keeps ToWanted.
LEMMA ToWantedStep ==
    ASSUME Base, ToInv, [Next]_vars
    PROVE  ToWanted'
<1> SUFFICES ASSUME wantEna' PROVE state' = "RUN" /\ (~dpstate' \/ Pending("enable")')
  BY DEF ToWanted, Pending
<1>1. Shape /\ ToWanted BY ToParts DEF Base
<1>2. CASE ~wantEna
  <2>1. ConoEnable BY <1>2, Knows
  <2>2. UNCHANGED <<state, dpstate>> /\ state = "RUN" BY <2>1 DEF ConoEnable
  <2>3. ~dpstate BY <2>1, <1>2 DEF ConoEnable
  <2> QED BY <2>2, <2>3
<1>3. CASE wantEna
  <2>1. state = "RUN" /\ (~dpstate \/ Pending("enable")) BY <1>1, <1>3 DEF ToWanted
  <2>2. ~ConoDisable BY <2>1 DEF ConoDisable
  <2>3. state' = "RUN" BY <2>1, <2>2, <1>3, Knows
  <2>4. CASE Pending("enable")
    <3>1. ~Enable BY DEF Enable
    <3> QED BY <2>3, <2>4, <3>1, <1>1, Lost DEF Takes
  <2>5. CASE ~dpstate
    <3>1. CASE dpstate' BY <2>1, <2>3, <2>5, <3>1, <1>1, <1>3, Knows, WakEnable
    <3>2. CASE ~dpstate' BY <2>3, <3>2
    <3> QED BY <3>1, <3>2
  <2> QED BY <2>1, <2>4, <2>5
<1> QED BY <1>2, <1>3

\* The commands left when the monitor stops the port.
LEMMA ClearKept ==
    ASSUME Shape, [Next]_vars, ~cmdqf \/ Pending("clear")
    PROVE  ~cmdqf' \/ Pending("clear")' \/ ConoDisable \/ ConoQueue
<1>1. CASE ~cmdqf BY <1>1, Knows
<1>2. CASE Pending("clear")
  <2>1. Pending("clear")' \/ Clear BY <1>2, Lost DEF Takes
  <2>2. Clear => ~cmdqf' BY DEF Clear
  <2> QED BY <2>1, <2>2
<1> QED BY <1>1, <1>2

\* Every step keeps ToStop, for a patient monitor.
LEMMA ToStopStep ==
    ASSUME Patient, Base, ToInv, [Next]_vars
    PROVE  ToStop'
<1> SUFFICES ASSUME Pending("stop")' PROVE ~cmdqf' \/ Pending("clear")'
  BY DEF ToStop, Pending
<1>1. Shape /\ ToStop BY ToParts DEF Base
<1>2. CASE Pending("stop")
  <2>1. ~cmdqf \/ Pending("clear") BY <1>1, <1>2 DEF ToStop
  <2>2. ~Idle BY <1>2 DEF Idle, Pending
  <2>3. ~ConoDisable /\ ~ConoQueue BY <2>2 DEF ConoDisable, ConoQueue, Leave
  <2> QED BY <2>1, <2>3, <1>1, ClearKept
<1>3. CASE ~Pending("stop")
  <2>1. ConoStop \/ ConoClear BY <1>1, <1>3, Gained
  <2>2. Idle BY <2>1 DEF ConoStop, ConoClear, Begin
  <2>3. UNCHANGED cmdqf /\ (ConoStop \/ Pending("clear")') BY <2>1, <2>2, Stopping
  <2>4. ConoStop => ~cmdqf BY DEF ConoStop
  <2> QED BY <2>3, <2>4
<1> QED BY <1>2, <1>3

\* Every step keeps ToQuiet, for a patient monitor.
LEMMA ToQuietStep ==
    ASSUME Patient, Base, ToInv, [Next]_vars
    PROVE  ToQuiet'
<1> SUFFICES ASSUME ~dpstate' PROVE ~box'["to"].rdy /\ (~cmdqf' \/ Pending("clear")')
  BY DEF ToQuiet, Pending
<1>1. Shape /\ box \in Boxes BY TypeParts DEF Base
<1>2. ToFree /\ ToKnown /\ ToStop /\ ToQuiet BY ToParts
<1>3. ~(ConoDisable \/ ConoQueue)
  <2>1. CASE dpstate
    <3>1. Stop BY <2>1, Knows
    <3>2. ctl # <<>> BY <3>1 DEF Stop, At
    <3> QED BY <3>2 DEF ConoDisable, ConoQueue, Leave, Idle
  <2>2. CASE ~dpstate BY <2>2, <1>2 DEF ConoDisable, ConoQueue, ToKnown
  <2> QED BY <2>1, <2>2
<1>4. CASE dpstate
  <2>1. Stop BY <1>4, Knows
  <2>2. At("stop") /\ UNCHANGED box BY <2>1 DEF Stop, linkVars
  <2>3. Pending("stop") BY <2>2, <1>1, AtPending
  <2>4. ~box["to"].rdy /\ (~cmdqf \/ Pending("clear")) BY <2>2, <2>3, <1>2 DEF ToFree, ToStop
  <2> QED BY <2>2, <2>4, <1>1, <1>3, ClearKept
<1>5. CASE ~dpstate
  <2>1. ~box["to"].rdy /\ (~cmdqf \/ Pending("clear")) BY <1>5, <1>2 DEF ToQuiet
  <2>2. ~box'["to"].rdy BY <2>1, <1>5, FillsKnown
  <2> QED BY <2>1, <2>2, <1>1, <1>3, ClearKept
<1> QED BY <1>4, <1>5

\* Every step keeps what is known of the "to" buffer, for a patient monitor.
LEMMA ToStep ==
    ASSUME Patient, Base, ToInv, [Next]_vars
    PROVE  ToInv'
<1>1. box \in Boxes /\ ToBusy BY TypeParts, ToParts DEF Base
<1>2. ToBusy' BY <1>1, ToBusyStep
<1>3. ToFree' /\ ToKnown' /\ ToWanted' /\ ToStop' /\ ToQuiet'
  BY ToFreeStep, ToKnownStep, ToWantedStep, ToStopStep, ToQuietStep
<1> QED BY <1>2, <1>3 DEF ToInv, ToBusy, ToFree, ToKnown, ToWanted, ToStop, ToQuiet

\* Every step is a step of the mailbox of the commands, or changes nothing of it.
LEMMA ToImplements ==
    ASSUME Base, ToInv, [Next]_vars
    PROVE  [ToBox!Next]_(ToBox!vars)
<1>1. Shape /\ box \in Boxes BY TypeParts DEF Base
<1>2. box' \in Boxes BY <1>1, BoxStep
<1>3. <<box'["to"].cmd, box'["to"].tag>> \in Command \X {0, 1} BY <1>2 DEF Boxes, Buffer
<1>4. ToBusy /\ ToFree BY ToParts
<1> USE DEF ToBox!Next
<1>5. CASE Enable \/ Quit \/ RunSnddg \/ RunWrtnsa
  <2>1. UNCHANGED W BY <1>5 DEF Enable, Quit, RunSnddg, RunWrtnsa, CmdBack, dpVars
  <2>2. ~box["to"].rdy
    BY <1>4, <1>5 DEF Enable, Quit, RunSnddg, RunWrtnsa, CmdReady, ToFree
  <2>3. UNCHANGED box \/ box'["to"].rdy = TRUE
    BY <1>1, <1>5, Sent DEF Enable, Quit, RunSnddg, RunWrtnsa, Command
  <2>4. CASE box'["to"].rdy = TRUE BY <2>1, <2>2, <2>4, <1>3 DEF ToBox!Put
  <2>5. CASE UNCHANGED box BY <2>1, <2>5 DEF ToBox!vars
  <2> QED BY <2>3, <2>4, <2>5
<1>6. CASE WExec
  <2>1. W = "exec" /\ W' = "done" /\ UNCHANGED box BY <1>6 DEF WExec, wStep
  <2>2. box["to"].rdy BY <2>1, <1>4 DEF ToBusy
  <2> QED BY <2>1, <2>2 DEF ToBox!Open
<1>7. CASE WDone
  <2>1. W = "done" /\ W' = "flag" BY <1>7 DEF WDone, wStep
  <2>2. box["to"].rdy BY <2>1, <1>4 DEF ToBusy
  <2>3. box'["to"].rdy = FALSE BY <1>1, <1>7, Freed DEF WDone
  <2> QED BY <2>1, <2>2, <2>3, <1>3 DEF ToBox!Close
<1>8. CASE Stop \/ ConoStart
  <2>1. UNCHANGED box /\ W' # "done" BY <1>8 DEF Stop, ConoStart, linkVars
  <2>2. CASE W = "done" BY <2>1, <2>2 DEF ToBox!Drop
  <2>3. CASE W # "done" BY <2>1, <2>3 DEF ToBox!vars
  <2> QED BY <2>2, <2>3
<1>9. ASSUME box'["to"] = box["to"], W' = "done" <=> W = "done" PROVE [ToBox!Next]_(ToBox!vars)
  BY <1>9 DEF ToBox!vars
<1>10. ASSUME ~WExec, ~WDone, ~Stop, ~ConoStart PROVE W' = "done" <=> W = "done"
  BY <1>10, Executes
<1>11. CASE ~WExec /\ ~WDone /\ ~Stop /\ ~ConoStart /\ (RSendInit \/ RPacket \/ Ack \/ RunPacket)
  <2>1. box'["to"] = box["to"]
    BY <1>1, <1>11, Sent, Freed DEF RSendInit, RPacket, Ack, RunPacket, Command
  <2> QED BY <2>1, <1>9, <1>10, <1>11
<1>12. CASE /\ ~WExec /\ ~WDone /\ ~Stop /\ ~ConoStart
            /\ \/ RingW \/ RingR \/ EvHrwak \/ EvHsdon \/ RunBlocked \/ RunRelink \/ RunNoPacket
               \/ RunDone \/ RunResched \/ RunEmpty \/ QuitTest \/ QuitSuspend \/ OtherSignal
               \/ Clear \/ EvBegin \/ RunClk \/ Cono
  <2>1. UNCHANGED box
    BY <1>12 DEF RingW, RingR, EvHrwak, EvHsdon, RunBlocked, RunRelink, RunNoPacket, RunDone,
       RunResched, RunEmpty, QuitTest, QuitSuspend, OtherSignal, Clear, EvBegin, RunClk, Cono,
       ConoEnable, ConoDisable, ConoQueue, ConoStop, ConoClear, linkVars
  <2> QED BY <2>1, <1>9, <1>10, <1>12
<1>13. CASE /\ ~WExec /\ ~WDone /\ ~Stop /\ ~ConoStart
            /\ \/ WBoot \/ WTest \/ WWake \/ WFail \/ WFlag \/ WKill
               \/ RTest \/ RWake \/ RGiveUp \/ RFlag \/ RKill \/ UNCHANGED vars
  <2>1. UNCHANGED box
    BY <1>13 DEF WBoot, WTest, WWake, WFail, WFlag, WKill, RTest, RWake, RGiveUp, RFlag, RKill, vars,
       linkVars
  <2> QED BY <2>1, <1>9, <1>10, <1>13
<1> QED BY <1>5, <1>6, <1>7, <1>8, <1>11, <1>12, <1>13 DEF Next, Main, WSteps, RSteps

\* The other direction keeps it too, for a monitor that enables and stops the port only
\* when nothing is under way: every command is executed once and none is put over another.
THEOREM ToKeepsPromise == Patient => (Spec => ToOwned)
<1> SUFFICES ASSUME Patient PROVE Spec => ToOwned OBVIOUS
<1>1. Init => ToInv
  <2> SUFFICES ASSUME Init PROVE ToInv OBVIOUS
  <2>1. box["to"] = [rdy |-> FALSE, cmd |-> "none", tag |-> 0] BY DEF Init
  <2> QED BY <2>1 DEF Init, ToInv, At, Pending
<1>2. Base /\ ToInv /\ [Next]_vars => ToInv' BY ToStep
<1>3. Init => ToBox!Init
  <2> SUFFICES ASSUME Init PROVE ToBox!Init OBVIOUS
  <2>1. box["to"] = [rdy |-> FALSE, cmd |-> "none", tag |-> 0] BY DEF Init
  <2> QED BY <2>1 DEF Init, ToBox!Init, Command
<1>4. Base /\ ToInv /\ [Next]_vars => [ToBox!Next]_(ToBox!vars) BY ToImplements
<1> QED BY <1>1, <1>2, <1>3, <1>4, BaseAlways, PTL DEF Spec, ToOwned, ToBox!Spec
=============================================================================
