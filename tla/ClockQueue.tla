----------------------------- MODULE ClockQueue -----------------------------
(***************************************************************************)
(* The clock queue of kn10clk.c: one doubly linked list of running timers, *)
(* each holding the number of ticks after the timer ahead of it, so that a *)
(* tick has only the head to count down.                                   *)
(*                                                                         *)
(* The list is a sequence.  Storing `nce' into the link that leads to `ce' *)
(* is cutting out everything from ce up to nce: usually ce alone.          *)
(*                                                                         *)
(* clk_synctimeout picks up the entry after the one that is due BEFORE it  *)
(* calls the timer's routine, and links around the due entry AFTER it.     *)
(* What the routine itself did to the queue in between is the interesting  *)
(* part: Nested says which timers a callout may activate.  (In this system *)
(* ni20_runclk starts the NI20's echo timer, in ni_ecpstore.)              *)
(*                                                                         *)
(* One callout is a step; so is one clk_ call by code that runs outside    *)
(* clk_synctimeout.  All of it is on the CPU's thread.  The timers that go *)
(* off on every tick (clk_itmrget) have a list of their own and no         *)
(* countdown; they are left out.                                           *)
(***************************************************************************)
EXTENDS Integers, Sequences

CONSTANTS
    Timer,
    Intervals,   \* Intervals[t]: the usec values t's client asks for
    TickLens,    \* usec per tick that the PDP-10 and the operator set
    Nested,      \* Nested[t]: the timers t's callout may activate
    Forever,     \* the keep-alive timer, if any: running before the CPU does, never
                 \* stopped or set, and its callout always repeats (dte_kaltmo)
    None

ASSUME TimerAssumption ==
    /\ None \notin Timer
    /\ Nested \in [Timer -> SUBSET Timer] /\ Forever \subseteq Timer
    /\ \A t, u \in Forever : t = u
ASSUME IntervalAssumption ==
    /\ Intervals \in [Timer -> SUBSET Nat]
    /\ \A t \in Timer : Intervals[t] # {}
    /\ TickLens \subseteq Nat \ {0} /\ TickLens # {}
\* A callout that starts another timer x is not the keep-alive's, a keep-alive is running
\* (500 ms) and x, the echo timer, is no shorter (500 ms); and unless the tick keeps its
\* length no timer at all is longer than x.  (The one that is longer, the 3 s timer of
\* fe_shutdown, runs only while KLH10 is waiting for the PDP-10 to shut down.)
ASSUME NestedAssumption ==
    \A t \in Timer : \A x \in Nested[t] : \A b \in Intervals[x] :
        /\ t \notin Forever /\ Forever # {}
        /\ \A f \in Forever : \A a \in Intervals[f] : a <= b
        /\ \/ \A m, n \in TickLens : m = n
           \/ \A u \in Timer : \A a \in Intervals[u] : a <= b

VARIABLES
    st,        \* cke_state: "FREE", "MTICK" or "MQUIET"
    usec,      \* cke_usec
    oticks,    \* cke_oticks: the whole interval in ticks
    ticks,     \* cke_ticks: what is left, after the entry ahead
    queue,     \* clk_itickq
    itickusec, \* clk_itickusec
    ce         \* the entry clk_synctimeout is at, None outside it

vars == <<st, usec, oticks, ticks, queue, itickusec, ce>>

(* The queue, as a record q = [s |-> entries in order, tk |-> their ticks]. *)

OnQueue(s)  == {s[i] : i \in 1..Len(s)}
PosOf(s, t) == CHOOSE i \in 1..Len(s) : s[i] = t

\* Ticks until the n-th entry goes off.
SumTo(q, n) ==
    LET f[i \in 0..n] == IF i = 0 THEN 0 ELSE f[i-1] + q.tk[q.s[i]] IN f[n]

\* Mutant: short intervals round to no ticks at all.
usec2tick_Zero(u, len) == (u + (len \div 2)) \div len
usec2tick(u, len) ==
    LET v == (u + (len \div 2)) \div len IN IF v = 0 THEN 1 ELSE v

Init ==
    /\ itickusec \in TickLens
    /\ usec \in [Timer -> Nat \cap ({0} \cup UNION {Intervals[t] : t \in Forever})]
    /\ \A t \in Timer : IF t \in Forever THEN usec[t] \in Intervals[t] ELSE usec[t] = 0
    /\ st = [t \in Timer |-> IF t \in Forever THEN "MTICK" ELSE "FREE"]
    /\ oticks = [t \in Timer |-> IF t \in Forever THEN usec2tick(usec[t], itickusec) ELSE 0]
    /\ ticks = oticks
    /\ queue \in {<<>>} \cup {<<t>> : t \in Forever}
    /\ OnQueue(queue) = Forever
    /\ ce = None

-----------------------------------------------------------------------------
(* Linking and unlinking                                                   *)

\* Mutant: the entry that follows the new one is not adjusted.
qinsert_NoAdjust(q, t, tim) ==
    LET k == CHOOSE n \in 0..Len(q.s) :
                /\ \A i \in 1..n : SumTo(q, i) <= tim
                /\ n < Len(q.s) => SumTo(q, n + 1) > tim
    IN  [s  |-> SubSeq(q.s, 1, k) \o <<t>> \o SubSeq(q.s, k + 1, Len(q.s)),
         tk |-> [q.tk EXCEPT ![t] = tim - SumTo(q, k)]]
\* clk_qinsert: ahead of the first entry that goes off strictly later.
qinsert(q, t, tim) ==
    LET k == CHOOSE n \in 0..Len(q.s) :
                /\ \A i \in 1..n : SumTo(q, i) <= tim
                /\ n < Len(q.s) => SumTo(q, n + 1) > tim
        rest == tim - SumTo(q, k)
    IN  [s  |-> SubSeq(q.s, 1, k) \o <<t>> \o SubSeq(q.s, k + 1, Len(q.s)),
         tk |-> [x \in Timer |-> IF x = t THEN rest
                                 ELSE IF k < Len(q.s) /\ x = q.s[k + 1] THEN q.tk[x] - rest
                                 ELSE q.tk[x]]]

Cut(s, i, j) == SubSeq(s, 1, i - 1) \o SubSeq(s, j, Len(s))

\* clk_qdelete
qdelete(q, t) ==
    LET p == PosOf(q.s, t) IN
    [s  |-> Cut(q.s, p, p + 1),
     tk |-> IF p < Len(q.s) THEN [q.tk EXCEPT ![q.s[p + 1]] = @ + q.tk[t]] ELSE q.tk]

Queue == [s |-> queue, tk |-> ticks]
StoreQueue(q) == queue' = q.s /\ ticks' = q.tk

-----------------------------------------------------------------------------
(* Calls from outside clk_synctimeout                                      *)

\* clk_tmrget: an entry from the free list, running at once.
TmrGet(t, u) ==
    /\ ce = None /\ st[t] = "FREE"
    /\ st' = [st EXCEPT ![t] = "MTICK"]
    /\ usec' = [usec EXCEPT ![t] = u]
    /\ oticks' = [oticks EXCEPT ![t] = usec2tick(u, itickusec)]
    /\ StoreQueue(qinsert(Queue, t, oticks'[t]))
    /\ UNCHANGED <<itickusec, ce>>

\* clk_tmrset: a running timer starts over with the new interval.
TmrSet(t, u) ==
    /\ ce = None /\ st[t] # "FREE" /\ t \notin Forever
    /\ usec' = [usec EXCEPT ![t] = u]
    /\ oticks' = [oticks EXCEPT ![t] = usec2tick(u, itickusec)]
    /\ IF st[t] = "MTICK"
       THEN StoreQueue(qinsert(qdelete(Queue, t), t, oticks'[t]))
       ELSE UNCHANGED <<queue, ticks>>
    /\ UNCHANGED <<st, itickusec, ce>>

\* clk_tmrquiet
TmrQuiet(t) ==
    /\ ce = None /\ st[t] = "MTICK" /\ t \notin Forever
    /\ st' = [st EXCEPT ![t] = "MQUIET"]
    /\ StoreQueue(qdelete(Queue, t))
    /\ UNCHANGED <<usec, oticks, itickusec, ce>>

\* clk_tmractiv
TmrActiv(t) ==
    /\ ce = None /\ st[t] = "MQUIET"
    /\ st' = [st EXCEPT ![t] = "MTICK"]
    /\ StoreQueue(qinsert(Queue, t, oticks[t]))
    /\ UNCHANGED <<usec, oticks, itickusec, ce>>

\* Mutant: a dead timer stays linked.
TmrKill_Linked(t) ==
    /\ ce = None /\ st[t] # "FREE" /\ t \notin Forever
    /\ st' = [st EXCEPT ![t] = "FREE"]
    /\ UNCHANGED <<queue, ticks, usec, oticks, itickusec, ce>>
\* clk_tmrkill
TmrKill(t) ==
    /\ ce = None /\ st[t] # "FREE" /\ t \notin Forever
    /\ st' = [st EXCEPT ![t] = "FREE"]
    /\ IF st[t] = "MTICK" THEN StoreQueue(qdelete(Queue, t)) ELSE UNCHANGED <<queue, ticks>>
    /\ UNCHANGED <<usec, oticks, itickusec, ce>>

\* clk_itusset, from CONO MTR (clk_itickset) or the operator (clk_ithzset): intervals
\* are converted again and every running timer starts over, in the queue's old order.
\* An entry that would now have to go off before the one ahead of it goes off with it.
Latest(o, n) == CHOOSE m \in {o[queue[i]] : i \in 1..n} : \A i \in 1..n : o[queue[i]] <= m
ItusSet(len) ==
    /\ ce = None /\ len # itickusec
    /\ itickusec' = len
    /\ oticks' = [t \in Timer |-> IF st[t] = "FREE" THEN oticks[t] ELSE usec2tick(usec[t], len)]
    /\ ticks' = [t \in Timer |->
                    IF t \notin OnQueue(queue) THEN ticks[t]
                    ELSE LET p == PosOf(queue, t)
                         IN  IF p = 1 THEN oticks'[t]
                             ELSE Latest(oticks', p) - Latest(oticks', p - 1)]
    /\ UNCHANGED <<st, usec, queue, ce>>

-----------------------------------------------------------------------------
(* clk_synctimeout                                                         *)

\* The interval clock ticked: count down the head; the loop starts if it is due.
Synctimeout ==
    /\ ce = None /\ queue # <<>>
    /\ ticks' = [ticks EXCEPT ![Head(queue)] = @ - 1]
    /\ ce' = IF ticks'[Head(queue)] <= 0 THEN Head(queue) ELSE None
    /\ UNCHANGED <<st, usec, oticks, queue, itickusec>>

\* Mutant: a timer that repeats while others are queued is not reinserted in order.
AfterCallout_InPlace(q, r, p, n) ==
    CASE r = "REPEAT" -> [q EXCEPT !.tk[ce] = oticks[ce]]
      [] OTHER        -> [q EXCEPT !.s = Cut(q.s, p, n)]
\* Mutant: a timer that repeats is put back in order only if the next one is due too.
AfterCallout_Front(q, r, p, n) ==
    CASE r = "REPEAT" /\ n <= Len(q.s) /\ q.tk[q.s[n]] <= 0 ->
            qinsert([q EXCEPT !.s = Cut(q.s, p, n)], ce, oticks[ce])
      [] r = "REPEAT" /\ ~(n <= Len(q.s) /\ q.tk[q.s[n]] <= 0) -> [q EXCEPT !.tk[ce] = oticks[ce]]
      [] OTHER -> [q EXCEPT !.s = Cut(q.s, p, n)]
\* The loop's switch on what the callout returned.  p is where the due entry is now, n
\* where the entry saved before the callout is now (one past the end if there was none).
AfterCallout(q, r, p, n) ==
    CASE r = "REPEAT" /\ n <= Len(q.s) -> qinsert([q EXCEPT !.s = Cut(q.s, p, n)], ce, oticks[ce])
      [] r = "REPEAT" /\ n > Len(q.s)  -> [q EXCEPT !.tk[ce] = oticks[ce]]
      [] r # "REPEAT"                  -> [q EXCEPT !.s = Cut(q.s, p, n)]

\* One turn of the loop.  X: the quiescent timers the routine activates (none or one).
Callout(r, X) ==
    /\ ce # None
    /\ ce \in Forever => r = "REPEAT"
    /\ \A x \in X : st[x] = "MQUIET"
    /\ LET p    == PosOf(queue, ce)
           nce  == IF p < Len(queue) THEN queue[p + 1] ELSE None
           q    == IF X = {} THEN Queue
                   ELSE LET x == CHOOSE x \in X : TRUE IN qinsert(Queue, x, oticks[x])
           n    == IF nce = None THEN Len(q.s) + 1 ELSE PosOf(q.s, nce)
           done == AfterCallout(q, r, PosOf(q.s, ce), n)
       IN  /\ StoreQueue(done)
           /\ ce' = IF nce # None /\ done.tk[nce] <= 0 THEN nce ELSE None
           /\ st' = [t \in Timer |->
                        IF t = ce THEN CASE r = "REPEAT" -> "MTICK" [] r = "QUIET" -> "MQUIET"
                                         [] r = "KILL" -> "FREE"
                        ELSE IF t \in X THEN "MTICK" ELSE st[t]]
    /\ UNCHANGED <<usec, oticks, itickusec>>

CalloutOf(t) ==
    ce = t /\ \E r \in {"REPEAT", "QUIET", "KILL"}, X \in {{}} \cup {{x} : x \in Nested[t]} :
                 Callout(r, X)

Next ==
    \/ \E t \in Timer :
          \/ \E u \in Intervals[t] : TmrGet(t, u) \/ TmrSet(t, u)
          \/ TmrQuiet(t) \/ TmrActiv(t) \/ TmrKill(t)
          \/ CalloutOf(t)
    \/ \E len \in TickLens : ItusSet(len)
    \/ Synctimeout

Spec == Init /\ [][Next]_vars
\* The host's interval timer keeps going off while the CPU runs, and the loop ends.
FairSpec == Spec /\ WF_vars(Synctimeout) /\ WF_vars(\E t \in Timer : CalloutOf(t))

-----------------------------------------------------------------------------
(* Properties                                                              *)

\* Counts stay in range; in particular the interval of a timer in use is at least one
\* tick, whatever the length of a tick (clk_usec2tick).
TypeOK ==
    /\ st \in [Timer -> {"FREE", "MTICK", "MQUIET"}]
    /\ usec \in [Timer -> Nat] /\ oticks \in [Timer -> Nat] /\ ticks \in [Timer -> Int]
    /\ \A t \in Timer : st[t] # "FREE" => oticks[t] > 0
    /\ queue \in Seq(Timer)
    /\ itickusec \in TickLens
    /\ ce \in Timer \cup {None}

\* A timer is on the queue exactly when it is active, and there once: one that is
\* active and on no queue would never go off, and clk_tmractiv would do nothing for it.
Linked ==
    /\ OnQueue(queue) = {t \in Timer : st[t] = "MTICK"}
    /\ \A i, j \in 1..Len(queue) : queue[i] = queue[j] => i = j

\* The head is the only entry that can be due: it is due during the loop, which is at
\* it, and at least a tick away outside it.
HeadDue ==
    /\ \A i \in 1..Len(queue) : ticks[queue[i]] >= 0
    /\ ce # None => queue # <<>> /\ ce = Head(queue) /\ ticks[ce] = 0
    /\ ce = None /\ queue # <<>> => ticks[Head(queue)] >= 1

\* A timer that always repeats and that nobody stops keeps going off, whatever the other
\* timers do, unless the length of a tick is changed again and again.
KeepsFiring ==
    \A t \in Forever : []<>(ce = t) \/ []<><<itickusec' # itickusec>>_itickusec

\* The queue keeps the promises of TimerService: what an entry has left is the sum of
\* the ticks up to it.
Remaining == [t \in Timer |-> IF t \in OnQueue(queue) THEN SumTo(Queue, PosOf(queue, t)) ELSE 0]
ModeOf    == [t \in Timer |-> CASE st[t] = "FREE" -> "free" [] st[t] = "MTICK" -> "running"
                                [] st[t] = "MQUIET" -> "quiet"]
PeriodOf  == [t \in Timer |-> IF st[t] = "FREE" THEN 0 ELSE oticks[t]]
Service == INSTANCE TimerService
             WITH mode <- ModeOf, left <- Remaining, per <- PeriodOf, firing <- (ce # None)
KeepsPromise == Service!Spec
=============================================================================
