------------------------------ MODULE LossyFifo ------------------------------
(***************************************************************************)
(* What a receive path promises to the one who takes from it: a channel     *)
(* that may lose what it holds, and neither reorders, repeats nor invents.  *)
(***************************************************************************)
EXTENDS Integers, Sequences

CONSTANT Message

VARIABLES
    chan,   \* what is on its way, oldest first
    out     \* what was taken last

Init == chan = <<>> /\ out \notin Message

Put == \E m \in Message : chan' = Append(chan, m) /\ UNCHANGED out

Get == chan # <<>> /\ out' = Head(chan) /\ chan' = Tail(chan)

(* A stretch of it is lost, wherever.                                      *)
Lose ==
    /\ \E i \in 0 .. Len(chan) : \E j \in i .. Len(chan) :
          chan' = SubSeq(chan, 1, i) \o SubSeq(chan, j + 1, Len(chan))
    /\ UNCHANGED out

(* What was taken is done with.                                            *)
Forget == out' \notin Message /\ UNCHANGED chan

Next == Put \/ Get \/ Lose \/ Forget

Spec == Init /\ [][Next]_<<chan, out>>
===============================================================================
