----------------------------- MODULE MCInsBreak -----------------------------
(* Two registrations on one signal, as an RP disk's done and wake events are. *)
EXTENDS InsBreak
CONSTANTS done, wake

MCDev     == {done, wake}
MCSig     == {"SIGUSR1"}
MCSigOf   == [d \in MCDev |-> "SIGUSR1"]
MCSigList == <<"SIGUSR1">>
MCRegList == [s \in MCSig |-> <<wake, done>>]
MCPolled  == <<"ctyio", "clk">>
=============================================================================
