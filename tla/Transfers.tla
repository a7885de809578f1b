----------------------------- MODULE Transfers ------------------------------
(***************************************************************************)
(* What a Massbus controller promises the program: a transfer under way    *)
(* and one waiting behind it.  Each transfer moves the words of its blocks *)
(* once, in order, and ends with exactly one report; the next one does not *)
(* begin before that report has been acknowledged, and a report of success *)
(* means that every word has been moved.                                   *)
(***************************************************************************)
EXTENDS Integers, Sequences

CONSTANTS Request, Size(_), Nobody

VARIABLES
    active,    \* the transfer under way
    waiting,   \* the transfer loaded behind it
    report,    \* "none", "ok" or "error"
    moved      \* <<disk word, word of the program's>>, in order, of the last transfer begun

Init == active = Nobody /\ waiting = Nobody /\ report = "none" /\ moved = <<>>

\* Words moved are consecutive on the disk; what comes from the program is consecutive
\* too, possibly followed by padding.
InOrder(m) ==
    \A i \in 1..Len(m) : /\ m[i][1] = m[1][1] + i - 1
                         /\ m[i][2] \in {i, 0}
                         /\ i > 1 /\ m[i-1][2] = 0 => m[i][2] = 0
Complete(r, m) == Len(m) = Size(r) /\ \A i \in 1..Len(m) : m[i][2] = i

\* The program loads a transfer: it begins, waits, or is refused at once.
Begin(r) ==
    /\ active = Nobody /\ report = "none"
    /\ active' = r /\ moved' = <<>> /\ UNCHANGED <<waiting, report>>
Load(r) ==
    /\ active # Nobody \/ report # "none"
    /\ waiting' = r /\ UNCHANGED <<active, report, moved>>
Refuse(r) ==
    /\ active = Nobody /\ report = "none"
    /\ report' = "error" /\ moved' \in {moved, <<>>} /\ UNCHANGED <<active, waiting>>

\* Words move only while a transfer is under way, and only forward.
Move ==
    /\ active # Nobody /\ active' = active
    /\ Len(moved') > Len(moved) /\ SubSeq(moved', 1, Len(moved)) = moved
    /\ InOrder(moved') /\ UNCHANGED <<waiting, report>>

\* The one report; the last words may come with it.
Finish ==
    /\ active # Nobody /\ active' = Nobody /\ report = "none"
    /\ Len(moved') >= Len(moved) /\ SubSeq(moved', 1, Len(moved)) = moved /\ InOrder(moved')
    /\ report' \in {"ok", "error"} /\ (report' = "ok" => Complete(active, moved'))
    /\ UNCHANGED waiting

\* The program acknowledges, which lets the waiting transfer begin (it may be refused), or
\* gives the waiting one up, with or without acknowledging.  (Nothing is under way while a
\* report is on.)
Acknowledge ==
    /\ report # "none" /\ report' = "none"
    /\ \/ waiting = Nobody /\ UNCHANGED <<active, waiting>> /\ moved' \in {moved, <<>>}
       \/ waiting # Nobody /\ active' = waiting /\ waiting' = Nobody /\ moved' = <<>>
AcknowledgeRefused ==
    /\ report # "none" /\ waiting # Nobody
    /\ waiting' = Nobody /\ report' = "error" /\ moved' \in {moved, <<>>} /\ UNCHANGED active
GiveUp ==
    /\ active = Nobody /\ waiting # Nobody /\ waiting' = Nobody /\ report' \in {report, "none"}
    /\ moved' \in {moved, <<>>} /\ UNCHANGED active

Next ==
    \/ \E r \in Request : Begin(r) \/ Load(r) \/ Refuse(r)
    \/ Move \/ Finish \/ Acknowledge \/ AcknowledgeRefused \/ GiveUp

Spec == Init /\ [][Next]_<<active, waiting, report, moved>>
=============================================================================
