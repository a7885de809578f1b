----------------------------- MODULE MCPiSystem -----------------------------
(* Two devices in RH20 slots, which share a group mask, and one DTE20.  The RH20 is
   given any channel; the others have one each, which the RH20 may come to share. *)
EXTENDS PiSystem
CONSTANTS rh0, ni0, dte0

Channels == [d \in {rh0, ni0, dte0} |->
                CASE d = rh0 -> 0..NLev [] d = ni0 -> {1} [] d = dte0 -> {2}]
=============================================================================
