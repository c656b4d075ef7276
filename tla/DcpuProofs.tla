----------------------------- MODULE DcpuProofs -----------------------------
(***************************************************************************)
(* Proofs about Dcpu for every set of words and every queue size.          *)
(*                                                                         *)
(* Good is inductive.  It is stated of a state of the CPU rather than of   *)
(* the variable, because a turn of the loop builds intermediate states     *)
(* (an instruction's effect, then the dispatch).                           *)
(***************************************************************************)
EXTENDS Dcpu, SequenceTheorems, TLAPS

Good(c) ==
    /\ c \in State
    /\ Armed(c)
    /\ ~(Has(c, "EXTINT") /\ Has(c, "SKIP"))

-----------------------------------------------------------------------------
(* Shift drops one message and invents none: it has one entry less, all of *)
(* them from behind the front, the last one still last.                    *)
LEMMA ShiftProperties ==
  ASSUME NEW q \in Seq(Word), q # << >>
  PROVE  /\ Shift(q) \in Seq(Word)
         /\ Len(Shift(q)) = Len(q) - 1
         /\ Shift(q) \in Pending!Rest(q)
<1>1. Len(q) \in Nat \ {0} /\ \A i \in 1 .. Len(q) : q[i] \in Word
  BY EmptySeq, LenProperties
<1>2. /\ Shift(q) \in Seq(Word)
      /\ Len(Shift(q)) = Len(q) - 1
      /\ \A i \in 1 .. Len(q) - 1 : Shift(q)[i] = q[Len(q)]
  BY <1>1 DEF Shift
<1>3. CASE Len(q) <= 2
  <2>1. /\ Tail(q) \in Seq(Word)
        /\ Len(Tail(q)) = Len(q) - 1
        /\ \A i \in 1 .. Len(Tail(q)) : Tail(q)[i] = q[i + 1]
    BY HeadTailProperties
  <2>2. \A i \in 1 .. Len(Shift(q)) : Shift(q)[i] = Tail(q)[i]
    BY <1>1, <1>2, <1>3, <2>1
  <2>3. Shift(q) = Tail(q)
    BY <1>2, <2>1, <2>2, SeqEqual
  <2> QED
    BY <1>2, <1>3, <2>3 DEF Pending!Rest
<1>4. CASE ~(Len(q) <= 2)
  <2>1. Shift(q) \in [1 .. Len(q) - 1 -> {q[i] : i \in 2 .. Len(q)}]
    BY <1>1, <1>4 DEF Shift
  <2> QED
    BY <1>1, <1>2, <1>4, <2>1 DEF Pending!Rest
<1> QED
  BY <1>2, <1>3, <1>4

LEMMA PowerOnGood == Good(PowerOn)
<1>1. << >> \in Seq(Word) /\ Len(<< >>) = 0
  BY EmptySeq
<1>2. PowerOn \in State
  BY <1>1, WordAssumption DEF PowerOn, State
<1> QED
  BY <1>1, <1>2, QLimitAssumption DEF PowerOn, Good, Armed, Has

(* Queueing, catching fire and dispatching keep a good state good.         *)
LEMMA EnqueueGood ==
  ASSUME NEW c, Good(c), c.ia # 0, ~Full(c), NEW m \in Word
  PROVE  Good(Enqueue(c, m))
<1>1. c.iqu \in Seq(Word) /\ Len(c.iqu) \in Nat
  BY LenProperties DEF Good, State
<1>2. /\ Append(c.iqu, m) \in Seq(Word)
      /\ Len(Append(c.iqu, m)) = Len(c.iqu) + 1
  BY <1>1, AppendProperties
<1>3. Len(c.iqu) + 1 <= QLimit
  BY <1>1, QLimitAssumption DEF Full
<1> QED
  BY <1>2, <1>3 DEF Good, State, Armed, Has, Enqueue

LEMMA XIntGood ==
  ASSUME NEW c, Good(c), NEW m \in Word
  PROVE  Good(XInt(c, m))
<1>1. CASE c.ia = 0
  BY <1>1 DEF XInt
<1>2. CASE c.ia # 0 /\ ~Full(c)
  BY <1>2, EnqueueGood DEF XInt
<1>3. CASE c.ia # 0 /\ Full(c)
  <2>1. BURNING \in SUBSET Flag /\ "SKIP" \notin BURNING
    BY DEF BURNING, Flag
  <2>2. Good(SetOnFire(c))
    BY <2>1 DEF Good, State, Armed, Has, SetOnFire
  <2> QED
    BY <1>3, <2>2 DEF XInt
<1> QED
  BY <1>1, <1>2, <1>3

LEMMA DispatchGood ==
  ASSUME NEW c, Good(c)
  PROVE  Good(Dispatch(c))
<1>1. CASE ~Has(c, "SKIP") /\ ~Has(c, "INTQ") /\ c.iqu # << >>
  <2>1. c.iqu \in Seq(Word) /\ Len(c.iqu) \in Nat \ {0}
    BY <1>1, EmptySeq DEF Good, State
  <2>2. c.iqu[1] \in Word
    BY <2>1, ElementOfSeq
  <2>3. Shift(c.iqu) \in Seq(Word) /\ Len(Shift(c.iqu)) = Len(c.iqu) - 1
    BY <1>1, <2>1, ShiftProperties
  <2>4. /\ Dispatch(c) \in State
        /\ Dispatch(c).ia = c.ia
        /\ Dispatch(c).iqu = Shift(c.iqu)
        /\ Dispatch(c).mode = c.mode \cup {"INTQ"}
    BY <1>1, <2>2, <2>3 DEF Good, State, Dispatch, Flag
  <2>5. Len(Dispatch(c).iqu) <= QLimit /\ Dispatch(c).ia # 0
    BY <1>1, <2>1, <2>3, <2>4, QLimitAssumption DEF Good, Armed
  <2> QED
    BY <1>1, <2>4, <2>5 DEF Good, Armed, Has
<1>2. CASE ~(~Has(c, "SKIP") /\ ~Has(c, "INTQ") /\ c.iqu # << >>)
  BY <1>2 DEF Dispatch
<1> QED
  BY <1>1, <1>2

-----------------------------------------------------------------------------
(* Every turn of the loop and every call leaves a good state.              *)
LEMMA GoodIsInductive == Good(cpu) /\ [Next]_cpu => Good(cpu')
<1> SUFFICES ASSUME Good(cpu), [Next]_cpu
             PROVE  Good(cpu')
  OBVIOUS
<1> DEFINE Mode(m) == [cpu EXCEPT !.mode = m]
<1>1. ASSUME NEW m \in SUBSET Flag, ~("EXTINT" \in m /\ "SKIP" \in m)
      PROVE  Good(Mode(m))
  BY <1>1 DEF Good, State, Armed, Has
<1>2. ASSUME NEW c, Good(c), NEW w \in Word
      PROVE  Good([c EXCEPT !.a = w])
  BY <1>2 DEF Good, State, Armed, Has
<1>m. cpu.mode \in SUBSET Flag
  BY DEF Good, State
<1>3. CASE WaitTurn
  <2>1. Good(Mode(cpu.mode \ {"EXTINT"}))
    BY <1>1, <1>m
  <2> QED
    BY <1>3, <2>1, DispatchGood DEF WaitTurn
<1>4. CASE SkipTurn
  <2>1. Good(Mode(cpu.mode \ {"SKIP"}))
    BY <1>1, <1>m
  <2> QED
    BY <1>4, <2>1 DEF SkipTurn
<1>5. CASE Compute
  BY <1>2, <1>5, DispatchGood DEF Compute
<1>6. CASE IfFails
  <2>1. Good(Mode(cpu.mode \cup {"SKIP"}))
    BY <1>1, <1>6, <1>m DEF IfFails, Fetches, Has, Flag
  <2> QED
    BY <1>6, <2>1, DispatchGood DEF IfFails
<1>7. CASE SopInt
  BY <1>7, EnqueueGood, DispatchGood DEF SopInt
<1>8. CASE SopIas
  <2> PICK v \in Word :
          cpu' = Dispatch([cpu EXCEPT !.ia = v, !.iqu = IF v = 0 THEN << >> ELSE @])
    BY <1>8 DEF SopIas
  <2>1. << >> \in Seq(Word) /\ Len(<< >>) = 0
    BY EmptySeq
  <2>2. Good([cpu EXCEPT !.ia = v, !.iqu = IF v = 0 THEN << >> ELSE @])
    <3>1. CASE v = 0
      <4>1. [cpu EXCEPT !.ia = v, !.iqu = IF v = 0 THEN << >> ELSE @]
              = [cpu EXCEPT !.ia = 0, !.iqu = << >>]
        BY <3>1 DEF Good, State
      <4>2. [cpu EXCEPT !.ia = 0, !.iqu = << >>] \in State
        <5>1. cpu \in State /\ 0 \in Word /\ << >> \in Seq(Word)
          BY <2>1, WordAssumption DEF Good
        <5> QED
          BY <5>1 DEF State
      <4>3. Good([cpu EXCEPT !.ia = 0, !.iqu = << >>])
        BY <2>1, <4>2, QLimitAssumption DEF Good, State, Armed, Has
      <4> QED
        BY <4>1, <4>3
    <3>2. CASE v # 0
      <4>1. [cpu EXCEPT !.ia = v, !.iqu = IF v = 0 THEN << >> ELSE @] = [cpu EXCEPT !.ia = v]
        BY <3>2 DEF Good, State
      <4>2. Good([cpu EXCEPT !.ia = v])
        BY <3>2 DEF Good, State, Armed, Has
      <4> QED
        BY <4>1, <4>2
    <3> QED
      BY <3>1, <3>2
  <2> QED
    BY <2>2, DispatchGood
<1>9. CASE SopRfi
  <2>1. Good(Mode(cpu.mode \ {"INTQ"}))
    BY <1>1, <1>m DEF Good, Has
  <2>2. ASSUME NEW w \in Word
        PROVE  Good([cpu EXCEPT !.a = w, !.mode = @ \ {"INTQ"}])
    <3>1. [cpu EXCEPT !.a = w, !.mode = @ \ {"INTQ"}]
            = [Mode(cpu.mode \ {"INTQ"}) EXCEPT !.a = w]
      BY DEF Good, State
    <3> QED
      BY <1>2, <2>1, <3>1
  <2> QED
    BY <1>9, <2>2, DispatchGood DEF SopRfi
<1>10. CASE SopIaq
  <2>1. Good(Mode(cpu.mode \ {"INTQ"})) /\ Good(Mode(cpu.mode \cup {"INTQ"}))
    BY <1>1, <1>m DEF Good, Has, Flag
  <2> QED
    BY <1>10, <2>1, DispatchGood DEF SopIaq
<1>11. CASE SopHwi
  <2> PICK c \in {cpu} \cup {XInt(cpu, m) : m \in Word}, w \in Word, wait \in BOOLEAN :
          cpu' = IF wait THEN [c EXCEPT !.a = w, !.mode = @ \cup {"EXTINT"}]
                         ELSE Dispatch([c EXCEPT !.a = w])
    BY <1>11 DEF SopHwi
  <2>1. Good(c) /\ ~Has(c, "SKIP")
    <3>1. ~Has(cpu, "SKIP")
      BY <1>11 DEF SopHwi, Fetches
    <3>2. ASSUME NEW m \in Word
          PROVE  Good(XInt(cpu, m)) /\ ~Has(XInt(cpu, m), "SKIP")
      <4>1. XInt(cpu, m).mode \in {cpu.mode, BURNING}
        BY DEF XInt, Enqueue, SetOnFire, Good, State
      <4> QED
        BY <3>1, <4>1, XIntGood DEF Has, BURNING
    <3> QED
      BY <3>1, <3>2
  <2>2. CASE wait
    BY <2>1, <2>2 DEF Good, State, Armed, Has, Flag
  <2>3. CASE ~wait
    BY <1>2, <2>1, <2>3, DispatchGood
  <2> QED
    BY <2>2, <2>3
<1>12. CASE DeviceInterrupt
  BY <1>12, XIntGood DEF DeviceInterrupt
<1>13. CASE SetRegisters
  BY <1>2, <1>13 DEF SetRegisters
<1>14. CASE Reset
  <2>1. cpu' = PowerOn
    BY <1>14 DEF Reset
  <2> QED
    BY <2>1, PowerOnGood
<1>15. CASE UNCHANGED cpu
  BY <1>15
<1> QED
  BY <1>3, <1>4, <1>5, <1>6, <1>7, <1>8, <1>9, <1>10, <1>11, <1>12, <1>13, <1>14, <1>15
  DEF Next, Iterate

IInv == Good(cpu)

LEMMA GoodInvariant == Spec => []IInv
<1>1. Init => IInv
  BY PowerOnGood DEF Init, IInv
<1>2. IInv /\ [Next]_cpu => IInv'
  BY GoodIsInductive DEF IInv
<1> QED
  BY <1>1, <1>2, PTL DEF Spec

(* The CPU's state keeps its shape.                                        *)
THEOREM TypeCorrect == Spec => []TypeOK
<1>1. IInv => TypeOK
  BY DEF IInv, Good, TypeOK
<1> QED
  BY <1>1, GoodInvariant, PTL

(* IQU never overflows, and nothing is pending while no handler is         *)
(* installed.                                                              *)
THEOREM QueueArmed == Spec => []QueueIsArmed
<1>1. IInv => QueueIsArmed
  BY DEF IInv, Good, QueueIsArmed
<1> QED
  BY <1>1, GoodInvariant, PTL

(* Waiting for a device never overlaps skipping an instruction.            *)
THEOREM WaitApartFromSkip == Spec => []WaitIsNotSkip
<1>1. IInv => WaitIsNotSkip
  BY DEF IInv, Good, WaitIsNotSkip
<1> QED
  BY <1>1, GoodInvariant, PTL

(* Between a failed conditional and the end of what it guards nothing is   *)
(* dispatched and no part of the interrupt state is lost.                  *)
THEOREM SkipIsQuiet == Spec => SkippedHasNoEffect
<1>1. IInv /\ [Next]_cpu => [Has(cpu, "SKIP") /\ cpu' # PowerOn => SkipKept]_cpu
  <2> SUFFICES ASSUME Good(cpu), Next, Has(cpu, "SKIP"), cpu' # PowerOn
               PROVE  SkipKept
    BY DEF IInv
  <2>1. /\ cpu \in State /\ ~Has(cpu, "EXTINT")
        /\ cpu.iqu \in Seq(Word) /\ Len(cpu.iqu) \in Nat
        /\ SubSeq(cpu.iqu, 1, Len(cpu.iqu)) = cpu.iqu
    BY LenProperties, SubSeqFull DEF Good, State
  <2>2. CASE SkipTurn
    <3>1. cpu'.ia = cpu.ia /\ cpu'.iqu = cpu.iqu /\ Has(cpu', "INTQ") = Has(cpu, "INTQ")
      BY <2>1, <2>2 DEF SkipTurn, State, Has
    <3> QED
      BY <2>1, <3>1 DEF SkipKept
  <2>3. CASE DeviceInterrupt
    <3> PICK m \in Word : cpu' = XInt(cpu, m)
      BY <2>3 DEF DeviceInterrupt
    <3>1. SubSeq(Append(cpu.iqu, m), 1, Len(cpu.iqu)) = cpu.iqu
      BY <2>1, AppendProperties, SubSeqProperties, SeqEqual
    <3>2. CASE cpu.ia = 0
      BY <2>1, <3>2 DEF XInt, SkipKept
    <3>3. CASE cpu.ia # 0 /\ Full(cpu)
      BY <2>1, <3>3 DEF XInt, SkipKept, SetOnFire, State
    <3>4. CASE cpu.ia # 0 /\ ~Full(cpu)
      BY <2>1, <3>1, <3>4 DEF XInt, SkipKept, Enqueue, State, Has
    <3> QED
      BY <3>2, <3>3, <3>4
  <2>4. CASE SetRegisters
    <3>1. cpu'.ia = cpu.ia /\ cpu'.iqu = cpu.iqu /\ cpu'.mode = cpu.mode
      BY <2>1, <2>4 DEF SetRegisters, State
    <3> QED
      BY <2>1, <3>1 DEF SkipKept, Has
  <2> QED
    BY <2>1, <2>2, <2>3, <2>4
    DEF Next, Iterate, Reset, Fetches, WaitTurn,
        Compute, IfFails, SopInt, SopIas, SopRfi, SopIaq, SopHwi
<1> QED
  BY <1>1, GoodInvariant, PTL DEF Spec, SkippedHasNoEffect

-----------------------------------------------------------------------------
(***************************************************************************)
(* The refinement of IntQueue.  A turn first builds the state c that its   *)
(* instruction leaves, with at most one more message than before, and then *)
(* dispatches from c.                                                      *)
(***************************************************************************)
LEMMA XIntArrives ==
  ASSUME Good(cpu), NEW m \in Word
  PROVE  /\ XInt(cpu, m).ia = cpu.ia
         /\ XInt(cpu, m).iqu \in {cpu.iqu} \cup Pending!Arrivals
         /\ "INTQ" \in cpu.mode => "INTQ" \in XInt(cpu, m).mode
<1>1. CASE cpu.ia = 0
  BY <1>1 DEF XInt
<1>2. CASE cpu.ia # 0 /\ Full(cpu)
  BY <1>2 DEF XInt, SetOnFire, BURNING, Good, State
<1>3. CASE cpu.ia # 0 /\ ~Full(cpu)
  <2>1. Len(cpu.iqu) < QLimit
    BY <1>3, LenProperties, QLimitAssumption DEF Full, Good, State
  <2> QED
    BY <1>3, <2>1 DEF XInt, Enqueue, Good, State, Pending!Arrivals
<1> QED
  BY <1>1, <1>2, <1>3

LEMMA DispatchRefines ==
  ASSUME Good(cpu), NEW c, Good(c),
         (c.ia # 0) = (cpu.ia # 0),
         c.iqu \in {cpu.iqu} \cup Pending!Arrivals,
         c.iqu = cpu.iqu \/ ("INTQ" \in cpu.mode => "INTQ" \in c.mode),
         cpu' = Dispatch(c)
  PROVE  Pending!Next
<1>1. CASE ~Has(c, "SKIP") /\ ~Has(c, "INTQ") /\ c.iqu # << >>
  <2>1. c.iqu \in Seq(Word) /\ Len(c.iqu) \in Nat
    BY LenProperties DEF Good, State
  <2>2. /\ cpu'.ia = c.ia
        /\ cpu'.iqu = Shift(c.iqu)
        /\ cpu'.a = c.iqu[1]
        /\ "INTQ" \in cpu'.mode
    BY <1>1 DEF Good, State, Dispatch
  <2>3. Pending!ServeFrom(c.iqu)
    BY <1>1, <2>1, <2>2, ShiftProperties DEF Pending!ServeFrom, Has
  <2>4. c.iqu = cpu.iqu \/ (~Has(cpu, "INTQ") /\ c.iqu \in Pending!Arrivals)
    BY <1>1 DEF Has
  <2> QED
    BY <2>3, <2>4 DEF Pending!Next, Pending!Serve
<1>2. CASE ~(~Has(c, "SKIP") /\ ~Has(c, "INTQ") /\ c.iqu # << >>)
  <2>1. cpu' = c
    BY <1>2 DEF Dispatch
  <2>2. cpu'.a \in Word
    BY <2>1 DEF Good, State
  <2>3. Pending!Accept
    BY <2>1, <2>2 DEF Pending!Accept, Has
  <2> QED
    BY <2>3 DEF Pending!Next
<1> QED
  BY <1>1, <1>2

LEMMA StepRefines == IInv /\ IInv' /\ [Next]_cpu => [Pending!Next]_Pending!vars
<1> SUFFICES ASSUME Good(cpu), Good(cpu'), [Next]_cpu
             PROVE  [Pending!Next]_Pending!vars
  BY DEF IInv
<1> DEFINE Mode(m) == [cpu EXCEPT !.mode = m]
<1>0. cpu \in State /\ cpu' \in State
  BY DEF Good
<1>1. ASSUME cpu'.ia = cpu.ia,
             cpu'.iqu \in {cpu.iqu} \cup Pending!Arrivals
      PROVE  Pending!Next
  BY <1>0, <1>1 DEF Pending!Next, Pending!Accept, State, Has
<1>2. ASSUME NEW m \in SUBSET Flag, ~("EXTINT" \in m /\ "SKIP" \in m),
             cpu' = Dispatch(Mode(m))
      PROVE  Pending!Next
  <2>1. Good(Mode(m)) /\ Mode(m).ia = cpu.ia /\ Mode(m).iqu = cpu.iqu
    BY <1>2 DEF Good, State, Armed, Has
  <2> QED
    BY <1>2, <2>1, DispatchRefines
<1>3. CASE WaitTurn
  BY <1>0, <1>2, <1>3 DEF WaitTurn, State
<1>4. CASE SkipTurn
  <2>1. cpu'.ia = cpu.ia /\ cpu'.iqu = cpu.iqu
    BY <1>0, <1>4 DEF SkipTurn, State
  <2> QED
    BY <1>1, <2>1
<1>5. CASE Compute
  <2> PICK w \in Word : cpu' = Dispatch([cpu EXCEPT !.a = w])
    BY <1>5 DEF Compute
  <2>1. /\ Good([cpu EXCEPT !.a = w])
        /\ [cpu EXCEPT !.a = w].ia = cpu.ia
        /\ [cpu EXCEPT !.a = w].iqu = cpu.iqu
    BY DEF Good, State, Armed, Has
  <2> QED
    BY <2>1, DispatchRefines
<1>6. CASE IfFails
  <2>1. cpu.mode \cup {"SKIP"} \in SUBSET Flag /\ "EXTINT" \notin cpu.mode
    BY <1>0, <1>6 DEF IfFails, Fetches, Has, State, Flag
  <2> QED
    BY <1>2, <1>6, <2>1 DEF IfFails
<1>7. CASE SopInt
  <2> PICK m \in Word :
          cpu' = Dispatch(IF cpu.ia # 0 /\ ~Full(cpu) THEN Enqueue(cpu, m) ELSE cpu)
    BY <1>7 DEF SopInt
  <2>1. CASE cpu.ia # 0 /\ ~Full(cpu)
    <3>1. Enqueue(cpu, m) = XInt(cpu, m)
      BY <2>1 DEF XInt
    <3>2. (Enqueue(cpu, m).ia # 0) = (cpu.ia # 0)
      BY <3>1, XIntArrives
    <3> QED
      BY <2>1, <3>1, <3>2, XIntArrives, XIntGood, DispatchRefines
  <2>2. CASE ~(cpu.ia # 0 /\ ~Full(cpu))
    BY <2>2, DispatchRefines
  <2> QED
    BY <2>1, <2>2
<1>8. CASE SopIas
  <2> PICK v \in Word :
          cpu' = Dispatch([cpu EXCEPT !.ia = v, !.iqu = IF v = 0 THEN << >> ELSE @])
    BY <1>8 DEF SopIas
  <2>1. CASE v = 0
    <3>1. /\ cpu'.ia = 0 /\ cpu'.iqu = << >> /\ cpu'.mode = cpu.mode
      BY <1>0, <2>1 DEF State, Dispatch
    <3> QED
      BY <1>0, <3>1 DEF Pending!Next, Pending!Remove, State, Has
  <2>2. CASE v # 0
    <3> DEFINE c == [cpu EXCEPT !.ia = v]
    <3>1. cpu' = Dispatch(c)
      <4>1. [cpu EXCEPT !.ia = v, !.iqu = IF v = 0 THEN << >> ELSE @] = c
        BY <1>0, <2>2 DEF State
      <4> QED
        BY <4>1
    <3>2. c.ia = v /\ c.iqu = cpu.iqu /\ c.mode = cpu.mode /\ c.a = cpu.a
      BY <1>0 DEF State
    <3>3. CASE cpu.ia # 0
      <4>1. Good(c)
        BY <2>2 DEF Good, State, Armed, Has
      <4> HIDE DEF c
      <4> QED
        BY <2>2, <3>1, <3>2, <3>3, <4>1, DispatchRefines
    <3>4. CASE cpu.ia = 0
      <4>1. cpu.iqu = << >>
        BY <3>4 DEF Good, Armed
      <4>2. cpu' = c
        BY <3>1, <3>2, <4>1 DEF Dispatch
      <4> HIDE DEF c
      <4> QED
        BY <1>0, <2>2, <3>2, <4>2 DEF Pending!Next, Pending!Install, State, Has
    <3> QED
      BY <3>3, <3>4
  <2> QED
    BY <2>1, <2>2
<1>9. CASE SopRfi
  <2> PICK w \in Word : cpu' = Dispatch([cpu EXCEPT !.a = w, !.mode = @ \ {"INTQ"}])
    BY <1>9 DEF SopRfi
  <2> DEFINE c == [cpu EXCEPT !.a = w, !.mode = @ \ {"INTQ"}]
  <2>1. Good(c) /\ c.ia = cpu.ia /\ c.iqu = cpu.iqu
    BY DEF Good, State, Armed, Has
  <2> QED
    BY <2>1, DispatchRefines
<1>10. CASE SopIaq
  <2> PICK w \in Word :
          cpu' = Dispatch(Mode(IF w # 0 THEN cpu.mode \cup {"INTQ"}
                                        ELSE cpu.mode \ {"INTQ"}))
    BY <1>10 DEF SopIaq
  <2>1. CASE w # 0
    BY <1>0, <1>2, <2>1 DEF Good, Has, State, Flag
  <2>2. CASE w = 0
    BY <1>0, <1>2, <2>2 DEF Good, Has, State, Flag
  <2> QED
    BY <2>1, <2>2
<1>11. CASE SopHwi
  <2> PICK c \in {cpu} \cup {XInt(cpu, m) : m \in Word}, w \in Word, wait \in BOOLEAN :
          cpu' = IF wait THEN [c EXCEPT !.a = w, !.mode = @ \cup {"EXTINT"}]
                         ELSE Dispatch([c EXCEPT !.a = w])
    BY <1>11 DEF SopHwi
  <2>1. /\ Good(c)
        /\ c.ia = cpu.ia
        /\ c.iqu \in {cpu.iqu} \cup Pending!Arrivals
        /\ "INTQ" \in cpu.mode => "INTQ" \in c.mode
    BY XIntGood, XIntArrives
  <2>2. CASE wait
    <3>1. cpu'.ia = c.ia /\ cpu'.iqu = c.iqu
      BY <2>1, <2>2 DEF Good, State
    <3> QED
      BY <1>1, <2>1, <3>1
  <2>3. CASE ~wait
    <3> DEFINE d == [c EXCEPT !.a = w]
    <3>1. Good(d) /\ d.ia = c.ia /\ d.iqu = c.iqu /\ d.mode = c.mode
      BY <2>1 DEF Good, State, Armed, Has
    <3>2. cpu' = Dispatch(d)
      BY <2>3
    <3> HIDE DEF d
    <3> QED
      BY <2>1, <3>1, <3>2, DispatchRefines
  <2> QED
    BY <2>2, <2>3
<1>12. CASE DeviceInterrupt
  BY <1>1, <1>12, XIntArrives DEF DeviceInterrupt
<1>13. CASE SetRegisters
  <2>1. cpu'.ia = cpu.ia /\ cpu'.iqu = cpu.iqu
    BY <1>0, <1>13 DEF SetRegisters, State
  <2> QED
    BY <1>1, <2>1
<1>14. CASE Reset
  <2>1. cpu'.ia = 0 /\ cpu'.iqu = << >> /\ cpu'.mode = {} /\ cpu'.a = 0
    BY <1>14 DEF Reset, PowerOn
  <2>2. ~Has(cpu', "INTQ")
    BY <2>1 DEF Has
  <2>3. Has(cpu, "INTQ")' = FALSE
    BY <2>2 DEF Has
  <2>4. (cpu.ia # 0)' = FALSE /\ cpu.iqu' = << >> /\ cpu.a' \in Word
    BY <2>1, WordAssumption
  <2>5. Pending!Remove
    BY <2>3, <2>4 DEF Pending!Remove
  <2> QED
    BY <2>5 DEF Pending!Next
<1>15. CASE UNCHANGED cpu
  BY <1>15 DEF Pending!vars, Has
<1> QED
  BY <1>3, <1>4, <1>5, <1>6, <1>7, <1>8, <1>9, <1>10, <1>11, <1>12, <1>13, <1>14, <1>15
  DEF Next, Iterate

(* The emulator's interrupt unit implements the abstract one: no message   *)
(* accepted is lost or invented while its handler stays installed, and     *)
(* none is served while interrupts are masked.                             *)
THEOREM NoneIsLost == Spec => NoneLost
<1>1. Init => Pending!Init
  BY DEF Init, PowerOn, Pending!Init, Has
<1> QED
  BY <1>1, StepRefines, GoodInvariant, PTL DEF Spec, NoneLost, Pending!Spec
=============================================================================
