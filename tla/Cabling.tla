------------------------------ MODULE Cabling -------------------------------
(***************************************************************************)
(* What attaching means: every point takes at most one cable, a cable has  *)
(* two ends that know each other, plugging takes two free points, and      *)
(* pulling frees both.                                                     *)
(***************************************************************************)
CONSTANTS Point, NoPoint

VARIABLE peer       \* the point at the other end of the cable, or NoPoint

Init == peer = [p \in Point |-> NoPoint]

Plug == \E p \in Point : LET q == peer'[p] IN
    /\ peer[p] = NoPoint
    /\ q \in Point \ {p} /\ peer[q] = NoPoint
    /\ peer' = [peer EXCEPT ![p] = q, ![q] = p]

Pull == \E p \in Point :
    /\ peer[p] # NoPoint
    /\ peer' = [peer EXCEPT ![p] = NoPoint, ![peer[p]] = NoPoint]

Next == Plug \/ Pull

Spec == Init /\ [][Next]_peer
=============================================================================
