------------------------------ MODULE Mailbox ------------------------------
(***************************************************************************)
(* What one direction of the device-process link promises: a single buffer *)
(* that the sender owns while it is empty and the receiver while it is     *)
(* full.  Every message is put once, is not touched until the receiver has *)
(* let go of it, and makes room for the next one.  The receiver may die or *)
(* be reset with a message in hand; the message then stays where it is.    *)
(***************************************************************************)
EXTENDS Naturals

CONSTANT Message

VARIABLES
    full,     \* the receiver owns the buffer
    msg,      \* what the sender last put into it
    open      \* the receiver is working on it

vars == <<full, msg, open>>

Init == full = FALSE /\ open = FALSE /\ msg \in Message

Put   == ~full /\ full' = TRUE /\ msg' \in Message /\ UNCHANGED open
Open  == full /\ ~open /\ open' = TRUE /\ UNCHANGED <<full, msg>>
Close == full /\ open /\ full' = FALSE /\ open' = FALSE /\ msg' \in Message
Drop  == open /\ open' = FALSE /\ UNCHANGED <<full, msg>>

Next == Put \/ Open \/ Close \/ Drop
Spec == Init /\ [][Next]_vars
=============================================================================
