------------------------------ MODULE PdiPort -------------------------------
(***************************************************************************)
(* One buffer of a PDI port (hardware/pdi.cpp).  A word that was added     *)
(* takes one transfer time, one call of Process, before it counts as       *)
(* moved: dat holds the words (count C of the stat field), the first rc of *)
(* them moved (count R), ov is PDI_OVFLAG.  PDI_IBUSY is written but never *)
(* read, and is left out.                                                  *)
(***************************************************************************)
EXTENDS Naturals, Sequences

CONSTANT BufLimit       \* PDI_BUFLIMIT (3)

ASSUME BufAssumption == BufLimit \in 1 .. 15    \* C and R have four bits

Idle == [rc |-> 0, dat |-> << >>, ov |-> FALSE]

IsBusy(p) == p.rc < Len(p.dat)
HasData(p) == p.rc > 0
HasFreeLate(p) == Len(p.dat) <= BufLimit
HasFree(p) == Len(p.dat) < BufLimit

AddRxWordSilently(p, w) == IF HasFree(p) THEN [p EXCEPT !.dat = Append(@, w)] ELSE p
AddRxWord(p, w) ==
    IF HasFree(p) THEN [p EXCEPT !.dat = Append(@, w)] ELSE [p EXCEPT !.ov = TRUE]

AddTxWord(p, w) ==
    IF HasFree(p) THEN [p EXCEPT !.dat = Append(@, w)] ELSE p

(* There is a word to get, and the port without it.                        *)
CanGet(p) == Len(p.dat) > 0 /\ p.rc > 0
GetWord(p) == [p EXCEPT !.rc = @ - 1, !.dat = Tail(@)]

ClearOverflow(p) == [p EXCEPT !.ov = FALSE]

Process(p) == IF IsBusy(p) THEN [p EXCEPT !.rc = @ + 1] ELSE p
=============================================================================
