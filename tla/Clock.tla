------------------------------- MODULE Clock --------------------------------
(***************************************************************************)
(* The generic clock (hardware/clock.cpp).  Base ticks come at 60 Hz; an   *)
(* accumulator divides them by the rate the program set.                   *)
(***************************************************************************)
EXTENDS Naturals

CONSTANTS
    AccLimit,   \* values of raccum, an 8-bit number (256)
    TimeLimit   \* values of ctime, a 16-bit number

ASSUME LimitAssumption == AccLimit \in Nat \ {0} /\ TimeLimit \in Nat \ {0}

ClockOff == [rate |-> 0, raccum |-> 0, iword |-> 0, ctime |-> 0]

(* HWI 0; a clock that was stopped also forgets the base ticks due.        *)
SetRateOnly(clk, r) == [clk EXCEPT !.rate = r]
SetRate(clk, r) == [clk EXCEPT !.rate = r, !.raccum = 0]

(* HWI 1: the ticks since it was last asked.                               *)
ReadTime(clk) == [clk EXCEPT !.ctime = 0]

(* HWI 2 *)
SetMessage(clk, m) == [clk EXCEPT !.iword = m]

(* A base tick is a tick of the clock when the accumulator has come to the *)
(* rate, so every rate + 1 base ticks; when the rate is too large for the  *)
(* accumulator it never does.                                              *)
IsTickLate(clk) == clk.raccum > clk.rate
IsTick(clk) == ~(clk.raccum < clk.rate)

BaseTickUncut(clk) ==
    IF IsTick(clk)
      THEN [clk EXCEPT !.raccum = 0, !.ctime = (@ + 1) % TimeLimit]
      ELSE [clk EXCEPT !.raccum = @ + 1]
BaseTick(clk) ==
    IF IsTick(clk)
      THEN [clk EXCEPT !.raccum = 0, !.ctime = (@ + 1) % TimeLimit]
      ELSE [clk EXCEPT !.raccum = (@ + 1) % AccLimit]
=============================================================================
