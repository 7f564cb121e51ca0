---------------------------- MODULE FrameChannel ----------------------------
(***************************************************************************)
(* What a transport codec promises to its application: the frames that the *)
(* peer wrote come out whole, once, and in the order they were written.    *)
(* One call may return several of them.                                    *)
(***************************************************************************)
EXTENDS Naturals, Sequences

VARIABLES
    written,    \* what the peer wrote
    received    \* what the codec returned

vars == <<written, received>>

Init == written = <<>> /\ received = <<>>

(* One more frame, whatever it is.                                         *)
Write ==
    /\ Len(written') = Len(written) + 1
    /\ written = SubSeq(written', 1, Len(written))
    /\ UNCHANGED received

Receive ==
    /\ \E n \in Len(received) + 1 .. Len(written) :
           received' = SubSeq(written, 1, n)
    /\ UNCHANGED written

Next == Write \/ Receive

Spec == Init /\ [][Next]_vars

(* What was written does not stay unread.                                  *)
FairSpec == Spec /\ WF_vars(Receive)
=============================================================================
