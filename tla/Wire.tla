-------------------------------- MODULE Wire --------------------------------
(***************************************************************************)
(* What a program sees of the cable into one port of its HIC: words come   *)
(* out in the order they were put in; a word is lost on its way only when  *)
(* the receiver's buffer is full, and then the next word read comes with a *)
(* warning; apart from that, only moving the cable or resetting one of its *)
(* ends loses words.                                                       *)
(***************************************************************************)
EXTENDS Naturals, Sequences

CONSTANTS Payload, BufLimit

VARIABLES
    cable,      \* where the other end is plugged in
    transit,    \* words given to the transmitter for this cable
    arrived,    \* words at the receiver, not read yet
    gap,        \* a word was lost and the receiver was not told yet
    got         \* the word just read, and whether it came with a warning

vars == <<cable, transit, arrived, gap, got>>

Init == transit = << >> /\ arrived = << >> /\ gap = FALSE /\ got = << >>

Send ==
    /\ Len(transit) < BufLimit
    /\ \E w \in Payload : transit' = Append(transit, w)
    /\ got' = << >>
    /\ UNCHANGED <<cable, arrived, gap>>

Move ==
    /\ transit # << >>
    /\ transit' = Tail(transit)
    /\ \/ arrived' = Append(arrived, Head(transit)) /\ gap' = gap
       \/ Len(arrived) = BufLimit /\ arrived' = arrived /\ gap' = TRUE
    /\ got' = << >>
    /\ UNCHANGED cable

Read ==
    /\ arrived # << >>
    /\ arrived' = Tail(arrived)
    /\ got' = <<Head(arrived), gap>>
    /\ gap' = FALSE
    /\ UNCHANGED <<cable, transit>>

(* The other end may have words under way when it is plugged in.           *)
Replug == cable' # cable /\ got' = << >> /\ UNCHANGED <<arrived, gap>>

(* A reset of the transmitter, of the receiver, or of both in one device.  *)
ResetEnds ==
    /\ transit' \in {transit, << >>}
    /\ \/ arrived' = << >> /\ gap' = FALSE
       \/ UNCHANGED <<arrived, gap>>
    /\ got' = << >>
    /\ UNCHANGED cable

Next == Send \/ Move \/ Read \/ Replug \/ ResetEnds

Spec == Init /\ [][Next]_vars
=============================================================================
