--------------------------- MODULE RequestChannel ---------------------------
(***************************************************************************)
(* What a request queue promises: a channel of bounded capacity that loses, *)
(* repeats and reorders nothing.                                            *)
(***************************************************************************)
EXTENDS Naturals, Sequences

CONSTANTS Request, capacity

VARIABLES inTransit, taken

Init == inTransit = <<>> /\ taken = <<>>

Send(r) ==
    /\ Len(inTransit) < capacity
    /\ inTransit' = Append(inTransit, r)
    /\ UNCHANGED taken

Receive ==
    /\ inTransit # <<>>
    /\ taken' = Append(taken, Head(inTransit))
    /\ inTransit' = Tail(inTransit)

Next == Receive \/ \E r \in Request : Send(r)

Spec == Init /\ [][Next]_<<inTransit, taken>>
=============================================================================
