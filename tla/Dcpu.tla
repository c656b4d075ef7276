-------------------------------- MODULE Dcpu --------------------------------
(***************************************************************************)
(* The interrupt core of the DCPU-16 emulator (dcpu.cpp): the MODE word,   *)
(* the interrupt queue IQU/IQC, the handler address IA, and register A,    *)
(* in which a handler finds its message.  One step of Iterate is one turn  *)
(* of the loop in DCPU16::Run, dispatch included; devices and sessions     *)
(* call MsgIn and Reset between turns.                                     *)
(*                                                                         *)
(* The program is arbitrary: what an instruction computes is any word, and *)
(* its operand fetches, cycle count and other registers are left out.      *)
(***************************************************************************)
EXTENDS Naturals, Sequences

CONSTANTS
    Word,       \* the 16-bit words; 0 is the false one
    QLimit      \* entries of IQU (256)

ASSUME WordAssumption == 0 \in Word /\ Word \subseteq 0 .. 65535
ASSUME QLimitAssumption == QLimit \in Nat \ {0}

(***************************************************************************)
(* MODE is the set of its bits.  "FIRE" is the pattern above the low four  *)
(* bits of BURNING; only a reset takes it away.                            *)
(***************************************************************************)
Flag == {"SKIP", "INTQ", "PROCINT", "EXTINT", "FIRE"}
BURNING == {"INTQ", "PROCINT", "EXTINT", "FIRE"}

VARIABLE cpu    \* [ia, mode, iqu, a]: IA, MODE, IQU[0 .. IQC - 1], R[0]

PowerOn == [ia |-> 0, mode |-> {}, iqu |-> << >>, a |-> 0]

Init == cpu = PowerOn

Has(c, f) == f \in c.mode
FullLate(c) == Len(c.iqu) > QLimit
Full(c) == Len(c.iqu) >= QLimit

Enqueue(c, m) == [c EXCEPT !.iqu = Append(@, m)]
SetOnFireOr(c) == [c EXCEPT !.mode = @ \cup BURNING]
SetOnFire(c) == [c EXCEPT !.mode = BURNING]

(* An interrupt from a device, by way of the bus.                          *)
XInt(c, m) ==
    IF c.ia = 0 THEN c ELSE IF Full(c) THEN SetOnFire(c) ELSE Enqueue(c, m)

(* The loop that moves the queue up after a dispatch runs from the last    *)
(* entry to the first, so every entry becomes a copy of the last one.      *)
Shift(q) == [i \in 1 .. Len(q) - 1 |-> q[Len(q)]]

(* The end of a turn that reaches the dispatch.                            *)
Dispatch(c) ==
    IF ~Has(c, "SKIP") /\ ~Has(c, "INTQ") /\ c.iqu # << >>
      THEN [c EXCEPT !.a = c.iqu[1], !.mode = @ \cup {"INTQ"}, !.iqu = Shift(@)]
      ELSE c

-----------------------------------------------------------------------------
(* The turns of the loop in Run.                                           *)

(* The turn after a device asked for time: nothing is fetched.             *)
WaitTurnOnly ==
    /\ Has(cpu, "EXTINT")
    /\ cpu' = [cpu EXCEPT !.mode = @ \ {"EXTINT"}]
WaitTurn ==
    /\ Has(cpu, "EXTINT")
    /\ cpu' = Dispatch([cpu EXCEPT !.mode = @ \ {"EXTINT"}])

(* A fetched instruction is skipped; a skipped conditional takes the one   *)
(* it guards with it.  This turn never reaches the dispatch.               *)
SkipTurnFallsThrough ==
    /\ ~Has(cpu, "EXTINT")
    /\ Has(cpu, "SKIP")
    /\ cpu' = Dispatch([cpu EXCEPT !.mode = @ \ {"SKIP"}])
SkipTurn ==
    /\ ~Has(cpu, "EXTINT")
    /\ Has(cpu, "SKIP")
    /\ \E conditional \in BOOLEAN :
          cpu' = IF conditional THEN cpu ELSE [cpu EXCEPT !.mode = @ \ {"SKIP"}]

Fetches == ~Has(cpu, "EXTINT") /\ ~Has(cpu, "SKIP")

(* Instructions that only compute, jump, or read from the bus.             *)
Compute ==
    /\ Fetches
    /\ \E w \in Word : cpu' = Dispatch([cpu EXCEPT !.a = w])

(* IFB .. IFU whose condition fails; when it holds they only compute.      *)
IfFails ==
    /\ Fetches
    /\ cpu' = Dispatch([cpu EXCEPT !.mode = @ \cup {"SKIP"}])

SopInt ==
    /\ Fetches
    /\ \E m \in Word :
          cpu' = Dispatch(IF cpu.ia # 0 /\ ~Full(cpu) THEN Enqueue(cpu, m) ELSE cpu)

SopIasKeepsQueue ==
    /\ Fetches
    /\ \E v \in Word : cpu' = Dispatch([cpu EXCEPT !.ia = v])
SopIas ==
    /\ Fetches
    /\ \E v \in Word :
          cpu' = Dispatch([cpu EXCEPT !.ia = v, !.iqu = IF v = 0 THEN << >> ELSE @])

(* RFI pops A, and the PC, from the program's stack.                       *)
SopRfi ==
    /\ Fetches
    /\ \E w \in Word :
          cpu' = Dispatch([cpu EXCEPT !.a = w, !.mode = @ \ {"INTQ"}])

SopIaq ==
    /\ Fetches
    /\ \E w \in Word :
          cpu' = Dispatch([cpu EXCEPT !.mode = IF w # 0 THEN @ \cup {"INTQ"}
                                                        ELSE @ \ {"INTQ"}])

(* HWI: the device may raise an interrupt before it answers, and the       *)
(* answer replaces the registers; a positive result asks for time.         *)
SopHwi ==
    /\ Fetches
    /\ \E c \in {cpu} \cup {XInt(cpu, m) : m \in Word}, w \in Word, wait \in BOOLEAN :
          cpu' = IF wait THEN [c EXCEPT !.a = w, !.mode = @ \cup {"EXTINT"}]
                         ELSE Dispatch([c EXCEPT !.a = w])

Iterate ==
    WaitTurn \/ SkipTurn \/ Compute \/ IfFails
    \/ SopInt \/ SopIas \/ SopRfi \/ SopIaq \/ SopHwi

-----------------------------------------------------------------------------
(* Calls that arrive between turns.                                        *)

DeviceInterrupt == \E m \in Word : cpu' = XInt(cpu, m)

SetRegistersUncut == \E w \in Word : cpu' = [cpu EXCEPT !.a = w + 65536]
SetRegisters == \E w \in Word : cpu' = [cpu EXCEPT !.a = w]

(* A CPU with memory; without, Reset gives up before it clears the queue.  *)
Reset == cpu' = PowerOn

Next == Iterate \/ DeviceInterrupt \/ SetRegisters \/ Reset

Spec == Init /\ [][Next]_cpu

(* The main loop keeps running a CPU that was started; nothing makes       *)
(* devices or sessions do anything.                                        *)
FairSpec == Spec /\ WF_cpu(Iterate)

-----------------------------------------------------------------------------
State == [ia : Word, mode : SUBSET Flag, iqu : Seq(Word), a : Word]
TypeOK == cpu \in State

Armed(c) == Len(c.iqu) <= QLimit /\ (c.iqu # << >> => c.ia # 0)

(* IQU is never written past its last entry, and while IA is 0 nothing is  *)
(* pending: an interrupt queued for a handler that was removed since would *)
(* be dispatched to address 0 (MsgIn, INT and IAS guard this separately).  *)
QueueIsArmed == Armed(cpu)

(* While a device keeps the CPU waiting no instruction is being skipped:   *)
(* the waiting turn reaches the dispatch, which must not come between a    *)
(* failed conditional and the instruction it guards.                       *)
WaitIsNotSkip == ~(Has(cpu, "EXTINT") /\ Has(cpu, "SKIP"))

(* From a failed conditional to the end of the instruction it guards, only *)
(* device interrupts (which may set the CPU on fire) and SREG have any     *)
(* effect: no dispatch, no change of IA, nothing taken off the queue.      *)
SkipKept ==
    /\ cpu'.ia = cpu.ia
    /\ Len(cpu.iqu) <= Len(cpu'.iqu)
    /\ cpu.iqu = SubSeq(cpu'.iqu, 1, Len(cpu.iqu))
    /\ Has(cpu, "INTQ") = Has(cpu', "INTQ") \/ cpu'.mode = BURNING

SkippedHasNoEffect == [][Has(cpu, "SKIP") /\ cpu' # PowerOn => SkipKept]_cpu

(* A program that leaves interrupts unmasked is served, unless all it      *)
(* executes is failing conditionals: neither devices that keep asking for  *)
(* time (HWI skips the dispatch) nor more interrupts can hold it off.      *)
PendingIsServed ==
    <>[](cpu.iqu # << >> /\ ~Has(cpu, "INTQ")) => []<>Has(cpu, "SKIP")

(* What the unit promises (see IntQueue): a queue, and what is left of one *)
(* when Shift is what it is.                                               *)
Fifo == INSTANCE IntQueue WITH
    InOrder <- TRUE, armed <- cpu.ia # 0, masked <- Has(cpu, "INTQ"),
    pend <- cpu.iqu, a <- cpu.a

Pending == INSTANCE IntQueue WITH
    InOrder <- FALSE, armed <- cpu.ia # 0, masked <- Has(cpu, "INTQ"),
    pend <- cpu.iqu, a <- cpu.a

(* Interrupts are delivered first in, first out.                           *)
DeliveredInOrder == Fifo!Spec

(* No interrupt accepted is lost or invented while its handler stays       *)
(* installed, none overtakes the two oldest, none is served while masked.  *)
NoneLost == Pending!Spec
=============================================================================
