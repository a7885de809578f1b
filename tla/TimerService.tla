---------------------------- MODULE TimerService ----------------------------
(***************************************************************************)
(* What kn10clk.h promises the clients of the clock queue, with no queue.  *)
(*                                                                         *)
(* A running timer has a number of ticks left.  Every tick of the interval *)
(* clock takes one from each of them; a timer that has none left is called *)
(* out before the next tick, once, and then repeats, goes quiescent or     *)
(* dies.  Nothing but its own client and its own callout changes when a    *)
(* timer goes off, except a change of the tick itself, which restarts all  *)
(* the running timers and keeps them in order.                             *)
(***************************************************************************)
EXTENDS Integers

CONSTANT Timer

VARIABLES
    mode,      \* "free", "running" or "quiet"
    left,      \* ticks until a running timer goes off
    per,       \* its interval in ticks
    firing     \* a tick has come and some timer has none left

vars == <<mode, left, per, firing>>

Running == {t \in Timer : mode[t] = "running"}

\* Some timers may be running from the start.
Init ==
    /\ mode \in [Timer -> {"free", "running"}]
    /\ per \in [Timer -> Nat]
    /\ \A t \in Timer : per[t] = 0 <=> mode[t] = "free"
    /\ left = per
    /\ firing = FALSE

\* A client's request of timer t: what it is afterwards, and whether its countdown
\* starts again from interval n, which is the client's choice in Get and Set.
Request(t, m, n) ==
    /\ ~firing
    /\ mode' = [mode EXCEPT ![t] = m]
    /\ per' = [per EXCEPT ![t] = n]
    /\ left' = [left EXCEPT ![t] = IF m = "running" THEN n ELSE 0]
    /\ UNCHANGED firing

Get(t)    == mode[t] = "free" /\ per'[t] > 0 /\ Request(t, "running", per'[t])
Set(t)    == mode[t] # "free" /\ per'[t] > 0 /\ Request(t, mode[t], per'[t])
Quiet(t)  == mode[t] = "running" /\ Request(t, "quiet", per[t])
Activ(t)  == mode[t] = "quiet" /\ Request(t, "running", per[t])
Kill(t)   == mode[t] # "free" /\ Request(t, "free", 0)

Tick ==
    /\ ~firing
    /\ left' = [t \in Timer |-> IF t \in Running THEN left[t] - 1 ELSE 0]
    /\ firing' = (\E t \in Running : left'[t] = 0)
    /\ UNCHANGED <<mode, per>>

\* The callout may activate quiescent timers.
Fire(t) ==
    /\ firing /\ t \in Running /\ left[t] = 0
    /\ \E m \in {"free", "running", "quiet"}, A \in SUBSET {x \in Timer : mode[x] = "quiet"} :
          /\ mode' = [x \in Timer |-> IF x = t THEN m ELSE IF x \in A THEN "running" ELSE mode[x]]
          /\ per' = [per EXCEPT ![t] = IF m = "free" THEN 0 ELSE @]
          /\ left' = [x \in Timer |-> IF x \in A \/ (x = t /\ m = "running") THEN per[x]
                                      ELSE IF x = t THEN 0 ELSE left[x]]
    /\ firing' = (\E x \in Timer : mode'[x] = "running" /\ left'[x] = 0)

\* The length of a tick changes.
Rescale ==
    /\ ~firing
    /\ per' \in [Timer -> Nat]
    /\ left' \in [Timer -> Nat]
    /\ \A t \in Timer : IF t \in Running THEN left'[t] >= per'[t] ELSE left'[t] = 0
    /\ \A t, u \in Running : left[t] < left[u] => left'[t] <= left'[u]
    /\ \A t \in Running : \E u \in Running : left[u] <= left[t] /\ left'[t] = per'[u]
    /\ UNCHANGED <<mode, firing>>

Next ==
    \/ \E t \in Timer : Get(t) \/ Set(t) \/ Quiet(t) \/ Activ(t) \/ Kill(t) \/ Fire(t)
    \/ Tick \/ Rescale

Spec == Init /\ [][Next]_vars
=============================================================================
