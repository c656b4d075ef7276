------------------------------- MODULE MCDcpu -------------------------------
(***************************************************************************)
(* Model-checking Dcpu, with the shift of IQU compared to the loop of the  *)
(* code run entry by entry.                                                *)
(***************************************************************************)
EXTENDS Dcpu

(* for(oa = IQC; oa > 0; oa--) IQU[oa - 1] = IQU[oa], with IQC already     *)
(* decremented, on IQU numbered from 1.                                    *)
RECURSIVE ShiftLoop(_, _)
ShiftLoop(q, oa) ==
    IF oa = 0 THEN SubSeq(q, 1, Len(q) - 1)
              ELSE ShiftLoop([q EXCEPT ![oa] = q[oa + 1]], oa - 1)

ASSUME ShiftIsTheLoop ==
    \A n \in 1 .. 5 : \A q \in [1 .. n -> 0 .. 2] : Shift(q) = ShiftLoop(q, n - 1)
=============================================================================
