---------------------------- MODULE MCClockQueue ----------------------------
(* Timers with intervals of a few ticks. *)
EXTENDS ClockQueue
CONSTANTS chk, ec, kal, c

\* The NI20's check timer and its echo timer, which the check timer's callout starts, the
\* DTE20's keep-alive, and a client c that asks for different intervals.  The check timer
\* is the most frequent and no timer is less frequent than the echo timer (1 ms and 500 ms
\* in the code, where the keep-alive goes off every 500 ms too).
MCIntervals ==
    [t \in {chk, ec, kal, c} |-> CASE t = chk -> {1} [] t \in {ec, kal} -> {3} [] t = c -> 1..3]

MCNested == [t \in {chk, ec, kal, c} |-> IF t = chk THEN {ec} ELSE {}]
=============================================================================
