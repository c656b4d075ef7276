----------------------------- MODULE HicProofs ------------------------------
(***************************************************************************)
(* Proofs about Hic for every set of cards and ports and every buffer      *)
(* size.  Bounded is what holds of one buffer between two calls; IInv adds *)
(* what is special to a transmitter, which never holds a moved word, and   *)
(* is inductive.  Symmetric is what a Wire needs of the cables besides.    *)
(***************************************************************************)
EXTENDS Hic, SequenceTheorems, TLAPS

Bounded(p) == p \in Buffer /\ p.rc <= Len(p.dat) /\ Len(p.dat) <= BufLimit

-----------------------------------------------------------------------------
LEMMA IdleBounded == Bounded(Idle)
<1>1. << >> \in Seq(Payload) /\ Len(<< >>) = 0
  BY EmptySeq
<1> QED
  BY <1>1, BufAssumption DEF Idle, Bounded, Buffer

LEMMA AppendBounded ==
  ASSUME NEW p, Bounded(p), NEW w \in Payload, HasFree(p)
  PROVE  /\ Bounded([p EXCEPT !.dat = Append(@, w)])
         /\ Len(Append(p.dat, w)) = Len(p.dat) + 1
<1>1. p.dat \in Seq(Payload) /\ Len(p.dat) \in Nat /\ p.rc \in Nat
  BY LenProperties DEF Bounded, Buffer
<1>2. Append(p.dat, w) \in Seq(Payload) /\ Len(Append(p.dat, w)) = Len(p.dat) + 1
  BY <1>1, AppendProperties
<1> QED
  BY <1>1, <1>2, BufAssumption DEF Bounded, Buffer, HasFree

LEMMA AddRxBounded ==
  ASSUME NEW p, Bounded(p), NEW w \in Payload
  PROVE  Bounded(AddRxWord(p, w))
<1>1. CASE HasFree(p)
  BY <1>1, AppendBounded DEF AddRxWord
<1>2. CASE ~HasFree(p)
  BY <1>2 DEF AddRxWord, Bounded, Buffer
<1> QED
  BY <1>1, <1>2

LEMMA GetBounded ==
  ASSUME NEW p, Bounded(p), CanGet(p)
  PROVE  /\ Bounded(GetWord(p))
         /\ Bounded(ClearOverflow(GetWord(p)))
         /\ Head(p.dat) \in Payload
<1>1. p.dat \in Seq(Payload) /\ p.dat # << >> /\ Len(p.dat) \in Nat \ {0}
  BY EmptySeq, LenProperties DEF Bounded, Buffer, CanGet
<1>2. /\ Tail(p.dat) \in Seq(Payload)
      /\ Len(Tail(p.dat)) = Len(p.dat) - 1
      /\ Head(p.dat) \in Payload
  BY <1>1, HeadTailProperties
<1>3. p.rc \in Nat /\ p.rc > 0 /\ p.rc - 1 \in Nat
  BY DEF Bounded, Buffer, CanGet
<1>4. Bounded(GetWord(p))
  <2> DEFINE q == [p EXCEPT !.rc = @ - 1]
  <2>0. GetWord(p) = [q EXCEPT !.dat = Tail(p.dat)] /\ q \in Buffer
        /\ q.rc = p.rc - 1 /\ q.dat = p.dat /\ q.ov = p.ov
    BY <1>3 DEF GetWord, Bounded, Buffer
  <2>1. GetWord(p) = [rc |-> p.rc - 1, dat |-> Tail(p.dat), ov |-> p.ov]
    BY <2>0 DEF Bounded, Buffer
  <2>2. GetWord(p) \in Buffer
    BY <1>2, <1>3, <2>1 DEF Bounded, Buffer
  <2>3. p.rc - 1 <= Len(p.dat) - 1 /\ Len(p.dat) - 1 <= BufLimit
    BY <1>1, <1>3, BufAssumption DEF Bounded
  <2> QED
    BY <1>2, <2>1, <2>2, <2>3 DEF Bounded
<1> QED
  BY <1>2, <1>4 DEF Bounded, Buffer, ClearOverflow

LEMMA ProcessBounded ==
  ASSUME NEW p, Bounded(p)
  PROVE  Bounded(Process(p))
<1>1. p.rc \in Nat /\ Len(p.dat) \in Nat
  BY LenProperties DEF Bounded, Buffer
<1>2. CASE IsBusy(p)
  BY <1>1, <1>2 DEF Bounded, Buffer, Process, IsBusy
<1>3. CASE ~IsBusy(p)
  BY <1>3 DEF Process
<1> QED
  BY <1>2, <1>3

-----------------------------------------------------------------------------
(* What holds of the transmitter of card d bound to port c.                *)
Transmitter(d, c, p) ==
    /\ Bounded(p) /\ p.rc = 0 /\ ~p.ov
    /\ \A i \in DOMAIN p.dat : p.dat[i].from = d /\ p.dat[i].port = c

Typed ==
    /\ tx \in [Dev -> Buffer]
    /\ txport \in [Dev -> Port]
    /\ rx \in [Ends -> Buffer]
    /\ iword \in [Dev -> SUBSET Kind]
    /\ peer \in [Ends -> Ends \cup {NoEnd}]
    /\ irq \in [Dev -> SUBSET Kind]

Got == got \in {NoEnd} \cup (Ends \X Payload \X BOOLEAN)

IInv ==
    /\ Typed
    /\ Got
    /\ \A e \in Ends : Bounded(rx[e])
    /\ \A d \in Dev : Transmitter(d, txport[d], tx[d])

LEMMA IdleTransmits ==
  ASSUME NEW d, NEW c
  PROVE  Transmitter(d, c, Idle)
<1>1. DOMAIN << >> = {}
  OBVIOUS
<1> QED
  BY <1>1, IdleBounded DEF Transmitter, Idle

(* The program adds a word for the port the transmitter is bound to, or    *)
(* for any port when it is idle.                                           *)
LEMMA AddTransmits ==
  ASSUME NEW d \in Dev, NEW c0, NEW c \in Port, NEW w \in Data, NEW p,
         Transmitter(d, c0, p), c = c0 \/ ~IsBusy(p)
  PROVE  Transmitter(d, c, AddTxWord(p, [from |-> d, port |-> c, data |-> w]))
<1> DEFINE word == [from |-> d, port |-> c, data |-> w]
<1>1. word \in Payload
  BY DEF Payload
<1>2. /\ p.dat \in Seq(Payload) /\ Len(p.dat) \in Nat /\ p.rc = 0
      /\ DOMAIN p.dat = 1 .. Len(p.dat)
  BY LenProperties DEF Transmitter, Bounded, Buffer
<1>3. \A i \in DOMAIN p.dat : p.dat[i].from = d /\ p.dat[i].port = c
  BY <1>2 DEF Transmitter, IsBusy
<1>4. CASE HasFree(p)
  <2>1. AddTxWord(p, word) = [p EXCEPT !.dat = Append(@, word)]
    BY <1>4 DEF AddTxWord
  <2>2. Bounded(AddTxWord(p, word))
    BY <1>1, <1>4, <2>1, AppendBounded DEF Transmitter
  <2>3. AddTxWord(p, word).dat = Append(p.dat, word)
        /\ AddTxWord(p, word).rc = 0 /\ ~AddTxWord(p, word).ov
    BY <2>1 DEF Transmitter, Bounded, Buffer
  <2>4. \A i \in DOMAIN Append(p.dat, word) :
            Append(p.dat, word)[i].from = d /\ Append(p.dat, word)[i].port = c
    BY <1>1, <1>2, <1>3, AppendProperties
  <2> QED
    BY <2>2, <2>3, <2>4 DEF Transmitter
<1>5. CASE ~HasFree(p)
  BY <1>3, <1>5 DEF AddTxWord, Transmitter
<1> QED
  BY <1>4, <1>5

(* A busy transmitter has a word, sends it, and keeps the others.          *)
LEMMA SendTransmits ==
  ASSUME NEW d, NEW c, NEW p, Transmitter(d, c, p), IsBusy(p)
  PROVE  /\ Transmitter(d, c, GetWord(Process(p)))
         /\ p.dat # << >> /\ Head(p.dat) \in Payload
<1>1. /\ p.dat \in Seq(Payload) /\ Len(p.dat) \in Nat \ {0} /\ p.rc = 0
      /\ DOMAIN p.dat = 1 .. Len(p.dat) /\ p.dat # << >>
  BY LenProperties, EmptySeq DEF Transmitter, Bounded, Buffer, IsBusy
<1>2. /\ Process(p).dat = p.dat /\ Process(p).rc = 1
      /\ Process(p).ov = p.ov /\ Bounded(Process(p))
  BY <1>1, ProcessBounded DEF Process, Transmitter, Bounded, Buffer
<1>3. CanGet(Process(p))
  BY <1>1, <1>2 DEF CanGet
<1>4. Bounded(GetWord(Process(p))) /\ Head(p.dat) \in Payload
  BY <1>2, <1>3, GetBounded
<1>5. /\ GetWord(Process(p)).dat = Tail(p.dat)
      /\ GetWord(Process(p)).rc = 0
      /\ ~GetWord(Process(p)).ov
  BY <1>2 DEF GetWord, Bounded, Buffer, Transmitter
<1>6. \A i \in DOMAIN Tail(p.dat) : Tail(p.dat)[i].from = d /\ Tail(p.dat)[i].port = c
  BY <1>1, HeadTailProperties DEF Transmitter
<1> QED
  BY <1>1, <1>4, <1>5, <1>6 DEF Transmitter

-----------------------------------------------------------------------------
LEMMA InitIInv == Init => IInv
<1> SUFFICES ASSUME Init PROVE IInv
  OBVIOUS
<1>1. Typed
  BY IdleBounded, PortAssumption DEF Init, Typed, Bounded
<1>2. Got
  BY DEF Init, Got, NoEnd
<1> QED
  BY <1>1, <1>2, IdleBounded, IdleTransmits DEF Init, IInv

LEMMA ReceiveKeeps ==
  ASSUME IInv, NEW d \in Dev, NEW c \in Port, Receive(d, c)
  PROVE  IInv'
<1> DEFINE e == <<d, c>>
           q == ClearOverflow(GetWord(rx[e]))
<1>1. e \in Ends /\ Bounded(rx[e]) /\ CanGet(rx[e]) /\ rx[e].ov \in BOOLEAN
  BY DEF IInv, Ends, Bounded, Buffer, Receive
<1>2. Bounded(q) /\ Head(rx[e].dat) \in Payload
  BY <1>1, GetBounded
<1>3. rx' = [rx EXCEPT ![e] = q] /\ UNCHANGED <<tx, txport, iword, peer, irq>>
  BY DEF Receive
<1>4. \A f \in Ends : Bounded(rx'[f])
  BY <1>2, <1>3 DEF IInv, Typed
<1>5. Typed'
  BY <1>2, <1>3 DEF IInv, Typed, Bounded
<1>6. Got'
  BY <1>1, <1>2 DEF Receive, Got
<1> QED
  BY <1>3, <1>4, <1>5, <1>6 DEF IInv

LEMMA TransmitKeeps ==
  ASSUME IInv, NEW d \in Dev, NEW c \in Port, NEW w \in Data, Transmit(d, c, w)
  PROVE  IInv'
<1> DEFINE q == AddTxWord(tx[d], [from |-> d, port |-> c, data |-> w])
<1>1. Transmitter(d, c, q)
  BY AddTransmits DEF IInv, Transmit
<1>2. /\ txport' = [txport EXCEPT ![d] = c] /\ tx' = [tx EXCEPT ![d] = q]
      /\ got' = << >> /\ UNCHANGED <<rx, iword, peer, irq>>
  BY DEF Transmit
<1>3. \A x \in Dev : Transmitter(x, txport'[x], tx'[x])
  BY <1>1, <1>2 DEF IInv, Typed
<1>4. Typed'
  BY <1>1, <1>2 DEF IInv, Typed, Transmitter, Bounded
<1> QED
  BY <1>2, <1>3, <1>4 DEF IInv, Got, NoEnd

LEMMA RunKeeps ==
  ASSUME IInv, NEW d \in Dev, Run(d)
  PROVE  IInv'
<1>1. Transmitter(d, txport[d], TxAfter(d))
  BY SendTransmits DEF IInv, TxAfter, Sent
<1>2. \A e \in Ends : Bounded(Delivered(d)[e])
  <2>1. CASE Sent(d) /\ peer[<<d, txport[d]>>] # NoEnd
    <3> DEFINE to == peer[<<d, txport[d]>>]
    <3>1. Head(tx[d].dat) \in Payload
      BY <2>1, SendTransmits DEF IInv, Sent
    <3>2. to \in Ends
      BY <2>1 DEF IInv, Typed, Ends
    <3>3. Delivered(d) = [rx EXCEPT ![to] = AddRxWord(@, Head(tx[d].dat))]
      BY <2>1 DEF Delivered
    <3> QED
      BY <3>1, <3>2, <3>3, AddRxBounded DEF IInv, Typed
  <2>2. CASE ~(Sent(d) /\ peer[<<d, txport[d]>>] # NoEnd)
    BY <2>2 DEF Delivered, IInv
  <2> QED
    BY <2>1, <2>2
<1>3. \A e \in Ends : Bounded(RxAfter(d)[e])
  BY <1>2, ProcessBounded DEF RxAfter
<1>4. RxAfter(d) \in [Ends -> Buffer]
  BY <1>3 DEF RxAfter, Bounded
<1>5. Raised(d) \in SUBSET Kind
  BY DEF IInv, Typed, Raised
<1>6. /\ tx' = [tx EXCEPT ![d] = TxAfter(d)] /\ rx' = RxAfter(d)
      /\ irq' = [irq EXCEPT ![d] = @ \cup Raised(d)]
      /\ got' = << >> /\ UNCHANGED <<txport, iword, peer>>
  BY DEF Run
<1>7. Typed'
  <2>1. tx' \in [Dev -> Buffer]
    BY <1>1, <1>6 DEF IInv, Typed, Transmitter, Bounded
  <2>2. irq' \in [Dev -> SUBSET Kind]
    BY <1>5, <1>6 DEF IInv, Typed
  <2> QED
    BY <1>4, <1>6, <2>1, <2>2 DEF IInv, Typed
<1>8. \A x \in Dev : Transmitter(x, txport'[x], tx'[x])
  BY <1>1, <1>6 DEF IInv, Typed
<1> QED
  BY <1>3, <1>6, <1>7, <1>8 DEF IInv, Got, NoEnd

LEMMA ResetKeeps ==
  ASSUME IInv, NEW d \in Dev, Reset(d)
  PROVE  IInv'
<1>1. \A e \in Ends : Bounded(rx'[e])
  BY IdleBounded DEF IInv, Reset
<1>2. \A x \in Dev : Transmitter(x, txport'[x], tx'[x])
  BY IdleTransmits DEF IInv, Typed, Reset
<1>3. Typed'
  <2>1. Idle \in Buffer
    BY IdleBounded DEF Bounded
  <2> QED
    BY <2>1, PortAssumption DEF IInv, Typed, Reset
<1> QED
  BY <1>1, <1>2, <1>3 DEF IInv, Got, NoEnd, Reset

(* Steps that leave the buffers alone.                                     *)
LEMMA OthersKeep ==
  ASSUME IInv,
         \/ \E d \in Dev : \/ \E s \in SUBSET Kind : SetInterrupts(d, s)
                           \/ TakeInterrupts(d)
         \/ \E e \in Ends : Pull(e) \/ \E f \in Ends : Plug(e, f)
         \/ UNCHANGED vars
  PROVE  IInv'
<1>1. UNCHANGED <<tx, txport, rx>>
  BY DEF SetInterrupts, TakeInterrupts, Pull, Plug, vars
<1>2. Got'
  BY DEF SetInterrupts, TakeInterrupts, Pull, Plug, vars, IInv, Got, NoEnd
<1>3. Typed'
  <2>1. CASE \E d \in Dev : \/ \E s \in SUBSET Kind : SetInterrupts(d, s)
                            \/ TakeInterrupts(d)
    BY <2>1 DEF SetInterrupts, TakeInterrupts, IInv, Typed
  <2>2. CASE \E e \in Ends : Pull(e)
    BY <2>2 DEF Pull, IInv, Typed
  <2>3. CASE \E e, f \in Ends : Plug(e, f)
    BY <2>3 DEF Plug, IInv, Typed
  <2>4. CASE UNCHANGED vars
    BY <2>4 DEF vars, IInv, Typed
  <2> QED
    BY <2>1, <2>2, <2>3, <2>4
<1> QED
  BY <1>1, <1>2, <1>3 DEF IInv

LEMMA NextKeeps == IInv /\ [Next]_vars => IInv'
<1> SUFFICES ASSUME IInv, [Next]_vars PROVE IInv'
  OBVIOUS
<1>1. CASE \E d \in Dev, c \in Port : Receive(d, c)
  BY <1>1, ReceiveKeeps
<1>2. CASE \E d \in Dev, c \in Port, w \in Data : Transmit(d, c, w)
  BY <1>2, TransmitKeeps
<1>3. CASE \E d \in Dev : Run(d)
  BY <1>3, RunKeeps
<1>4. CASE \E d \in Dev : Reset(d)
  BY <1>4, ResetKeeps
<1>5. CASE \/ \E d \in Dev : \/ \E s \in SUBSET Kind : SetInterrupts(d, s)
                             \/ TakeInterrupts(d)
           \/ \E e \in Ends : Pull(e) \/ \E f \in Ends : Plug(e, f)
           \/ UNCHANGED vars
  BY <1>5, OthersKeep
<1> QED
  BY <1>1, <1>2, <1>3, <1>4, <1>5 DEF Next, Program

LEMMA Invariant == Spec => []IInv
<1> QED
  BY InitIInv, NextKeeps, PTL DEF Spec

-----------------------------------------------------------------------------
(* Every buffer, cable and interrupt of a card has its type, and the       *)
(* counts of every port's stat field stay in bounds (kaihic.cpp and        *)
(* pdi.cpp), whatever the program, the cables and the resets do.           *)
THEOREM TypeCorrect == Spec => []TypeOK
<1>1. IInv => CountsInBounds
  BY DEF IInv, Transmitter, Bounded, CountsInBounds
<1>2. IInv => TypeOK
  BY <1>1 DEF IInv, Typed, Got, TypeOK
<1> QED
  BY <1>2, Invariant, PTL

(* A word never leaves by another port than the one its program named.     *)
THEOREM RightPort == Spec => []LeavesByItsPort
<1>1. IInv => LeavesByItsPort
  BY DEF IInv, Transmitter, LeavesByItsPort
<1> QED
  BY <1>1, Invariant, PTL

-----------------------------------------------------------------------------
(* Every end of a cable is a Wire.  What is under way to an end is in the  *)
(* transmitter at the other end, so that a word that leaves a transmitter  *)
(* must come to that very end: cables have two ends that name each other.  *)
Symmetric == \A e \in Ends : peer[e] # NoEnd => peer[peer[e]] = e

LEMMA NoEndIsNone == NoEnd \notin Ends
<1>1. \A e \in Ends : Len(e) = 2
  BY DEF Ends
<1>2. Len(NoEnd) = 0
  BY DEF NoEnd
<1> QED
  BY <1>1, <1>2

LEMMA SymmetricStep == IInv /\ Symmetric /\ [Next]_vars => Symmetric'
<1> SUFFICES ASSUME IInv, Symmetric, [Next]_vars PROVE Symmetric'
  OBVIOUS
<1>1. peer \in [Ends -> Ends \cup {NoEnd}]
  BY DEF IInv, Typed
<1>2. CASE UNCHANGED peer
  BY <1>2 DEF Symmetric
<1>3. ASSUME NEW e \in Ends, NEW f \in Ends, Plug(e, f) PROVE Symmetric'
  <2>1. peer' = [peer EXCEPT ![e] = f, ![f] = e] /\ e # f /\ peer[e] = NoEnd /\ peer[f] = NoEnd
    BY <1>3 DEF Plug
  <2>2. ASSUME NEW g \in Ends, peer'[g] # NoEnd PROVE peer'[peer'[g]] = g
    <3>1. CASE g = e \/ g = f
      BY <1>1, <2>1, <3>1
    <3>2. CASE g # e /\ g # f
      <4>1. peer'[g] = peer[g] /\ peer[peer[g]] = g /\ peer[g] \in Ends
        BY <1>1, <2>1, <2>2, <3>2 DEF Symmetric
      <4>2. peer[g] # e /\ peer[g] # f
        BY <2>1, <4>1, NoEndIsNone
      <4> QED
        BY <1>1, <2>1, <4>1, <4>2
    <3> QED
      BY <3>1, <3>2
  <2> QED
    BY <2>2 DEF Symmetric
<1>4. ASSUME NEW e \in Ends, Pull(e) PROVE Symmetric'
  <2> DEFINE f == peer[e]
  <2>1. f \in Ends /\ peer[f] = e /\ peer' = [peer EXCEPT ![e] = NoEnd, ![f] = NoEnd]
    BY <1>1, <1>4 DEF Pull, Symmetric
  <2> HIDE DEF f
  <2>2. ASSUME NEW g \in Ends, peer'[g] # NoEnd PROVE peer'[peer'[g]] = g
    <3>1. g # e /\ g # f
      BY <1>1, <2>1, <2>2
    <3>2. peer'[g] = peer[g] /\ peer[peer[g]] = g /\ peer[g] \in Ends
      BY <1>1, <2>1, <2>2, <3>1 DEF Symmetric
    <3>3. peer[g] # e /\ peer[g] # f
      BY <2>1, <3>1, <3>2 DEF f
    <3> QED
      BY <1>1, <2>1, <3>2, <3>3
  <2> QED
    BY <2>2 DEF Symmetric
<1> QED
  BY <1>2, <1>3, <1>4 DEF Next, Program, Receive, Transmit, SetInterrupts, TakeInterrupts,
                          Run, Reset, vars

(* What changes at an end a step has nothing to do with: a word that was   *)
(* just read there is of the past, and a reset may lose what was under way.*)
LEMMA Quiet ==
  ASSUME NEW e \in Ends, peer'[e] = peer[e],
         Under(e)' \in {Under(e), << >>},
         \/ rx'[e].dat = rx[e].dat /\ rx'[e].ov = rx[e].ov
         \/ rx'[e].dat = << >> /\ rx'[e].ov = FALSE,
         got' # << >> => got'[1] # e
  PROVE  WireInto(e)!Next
BY DEF WireInto!Next, WireInto!ResetEnds

LEMMA UnderStays ==
  ASSUME NEW e \in Ends, peer'[e] = peer[e], UNCHANGED <<tx, txport>>
  PROVE  Under(e)' = Under(e)
BY DEF Under

LEMMA ReceiveReads ==
  ASSUME IInv, NEW d \in Dev, NEW c \in Port, Receive(d, c), NEW e \in Ends
  PROVE  WireInto(e)!Next
<1>1. /\ rx \in [Ends -> Buffer] /\ <<d, c>> \in Ends
      /\ rx' = [rx EXCEPT ![<<d, c>>] = ClearOverflow(GetWord(rx[<<d, c>>]))]
      /\ got' = <<<<d, c>>, Head(rx[<<d, c>>].dat), rx[<<d, c>>].ov>>
      /\ UNCHANGED <<tx, txport, peer>> /\ CanGet(rx[<<d, c>>])
  BY DEF Receive, IInv, Typed, Ends
<1>2. Under(e)' = Under(e)
  BY <1>1, UnderStays
<1>3. CASE e # <<d, c>>
  BY <1>1, <1>2, <1>3, Quiet
<1>4. CASE e = <<d, c>>
  <2>1. rx'[e].dat = Tail(rx[e].dat) /\ rx'[e].ov = FALSE
    BY <1>1, <1>4 DEF ClearOverflow, GetWord, Buffer
  <2>2. rx[e].dat # << >>
    BY <1>1, <1>4 DEF CanGet
  <2>3. got' # << >> /\ got'[1] = e /\ Tail(got') = <<Head(rx[e].dat), rx[e].ov>>
    BY <1>1, <1>4
  <2>4. WireInto(e)!Read
    BY <1>1, <1>2, <2>1, <2>2, <2>3 DEF WireInto!Read
  <2> QED
    BY <2>4 DEF WireInto!Next
<1> QED
  BY <1>3, <1>4

(* A word given to the transmitter is under way to the end its port leads  *)
(* to.  Binding an idle transmitter to another port takes no word from the *)
(* end the old one led to.                                                 *)
LEMMA TransmitSends ==
  ASSUME IInv, NEW d \in Dev, NEW c \in Port, NEW w \in Data, Transmit(d, c, w), NEW e \in Ends
  PROVE  WireInto(e)!Next
<1> DEFINE word == [from |-> d, port |-> c, data |-> w]
<1>1. /\ tx \in [Dev -> Buffer] /\ txport \in [Dev -> Port] /\ word \in Payload
      /\ peer \in [Ends -> Ends \cup {NoEnd}]
      /\ tx' = [tx EXCEPT ![d] = AddTxWord(tx[d], word)] /\ txport' = [txport EXCEPT ![d] = c]
      /\ got' = << >> /\ UNCHANGED <<rx, peer>>
      /\ c = txport[d] \/ ~IsBusy(tx[d])
      /\ Transmitter(d, txport[d], tx[d])
  BY DEF Transmit, IInv, Typed, Payload
<1> HIDE DEF word
<1>2. CASE peer[e] = <<d, c>>
  <2>1. Under(e)' = AddTxWord(tx[d], word).dat
    BY <1>1, <1>2 DEF Under, NoEnd
  <2>2. Under(e) = tx[d].dat
    <3>1. CASE c = txport[d]
      BY <1>1, <1>2, <3>1 DEF Under, NoEnd
    <3>2. CASE c # txport[d]
      <4>1. tx[d].dat = << >>
        BY <1>1, <3>2, EmptySeq, LenProperties DEF IsBusy, Transmitter, Bounded, Buffer
      <4> QED
        BY <1>1, <1>2, <3>2, <4>1 DEF Under
    <3> QED
      BY <3>1, <3>2
  <2>3. CASE HasFree(tx[d])
    <3>1. Under(e)' = Append(Under(e), word) /\ Len(Under(e)) < BufLimit
      BY <1>1, <2>1, <2>2, <2>3 DEF AddTxWord, HasFree, Buffer
    <3>2. WireInto(e)!Send
      BY <1>1, <3>1 DEF WireInto!Send
    <3> QED
      BY <3>2 DEF WireInto!Next
  <2>4. CASE ~HasFree(tx[d])
    <3>1. Under(e)' = Under(e)
      BY <2>1, <2>2, <2>4 DEF AddTxWord
    <3> QED
      BY <1>1, <3>1, Quiet
  <2> QED
    BY <2>3, <2>4
<1>3. CASE peer[e] # <<d, c>>
  <2>1. Under(e)' \in {Under(e), << >>}
    <3>1. CASE peer[e] = NoEnd
      BY <1>1, <3>1 DEF Under
    <3>2. CASE peer[e] # NoEnd
      <4>1. PICK x \in Dev, z \in Port : peer[e] = <<x, z>>
        BY <1>1, <3>2 DEF Ends
      <4>2. CASE x = d
        BY <1>1, <1>3, <4>1, <4>2 DEF Under
      <4>3. CASE x # d
        BY <1>1, <4>1, <4>3 DEF Under
      <4> QED
        BY <4>2, <4>3
    <3> QED
      BY <3>1, <3>2
  <2> QED
    BY <1>1, <2>1, Quiet
<1> QED
  BY <1>2, <1>3

(* The word that leaves comes to the end it was under way to, or finds the *)
(* buffer there full.                                                      *)
LEMMA RunMoves ==
  ASSUME IInv, Symmetric, NEW d \in Dev, Run(d), NEW e \in Ends
  PROVE  WireInto(e)!Next
<1>1. /\ tx \in [Dev -> Buffer] /\ txport \in [Dev -> Port] /\ rx \in [Ends -> Buffer]
      /\ peer \in [Ends -> Ends \cup {NoEnd}]
      /\ tx' = [tx EXCEPT ![d] = TxAfter(d)] /\ rx' = RxAfter(d)
      /\ got' = << >> /\ UNCHANGED <<txport, peer>>
      /\ Transmitter(d, txport[d], tx[d]) /\ <<d, txport[d]>> \in Ends
  BY DEF Run, IInv, Typed, Ends
<1>2. Delivered(d) \in [Ends -> Buffer]
  <2>1. ASSUME Sent(d) PROVE Head(tx[d].dat) \in Payload
    BY <1>1, <2>1, SendTransmits DEF Sent
  <2>2. \A p \in Buffer, w \in Payload : AddRxWord(p, w) \in Buffer
    BY AppendProperties DEF AddRxWord, Buffer
  <2> QED
    BY <1>1, <2>1, <2>2 DEF Delivered
<1>3. /\ rx'[e].dat = Delivered(d)[e].dat /\ rx'[e].ov = Delivered(d)[e].ov
  <2>1. \A p \in Buffer : Process(p).dat = p.dat /\ Process(p).ov = p.ov
    BY DEF Process, Buffer
  <2> QED
    BY <1>1, <1>2, <2>1 DEF RxAfter
<1>4. CASE Sent(d) /\ peer[e] = <<d, txport[d]>>
  <2>1. Under(e) = tx[d].dat /\ Under(e)' = Tail(tx[d].dat) /\ tx[d].dat # << >>
    <3>1. TxAfter(d).dat = Tail(tx[d].dat)
      BY <1>1, <1>4 DEF TxAfter, GetWord, Process, Sent, Buffer
    <3>2. tx[d].dat # << >>
      BY <1>1, <1>4, SendTransmits DEF Sent
    <3> QED
      BY <1>1, <1>4, <3>1, <3>2 DEF Under, NoEnd
  <2>2. peer[<<d, txport[d]>>] = e /\ e # NoEnd
    BY <1>4, NoEndIsNone DEF Symmetric, NoEnd
  <2>3. Delivered(d)[e] = AddRxWord(rx[e], Head(tx[d].dat))
    BY <1>1, <1>4, <2>2 DEF Delivered
  <2>4. \/ rx'[e].dat = Append(rx[e].dat, Head(tx[d].dat)) /\ rx'[e].ov = rx[e].ov
        \/ Len(rx[e].dat) = BufLimit /\ rx'[e].dat = rx[e].dat /\ rx'[e].ov = TRUE
    <3>1. rx[e] \in Buffer /\ Len(rx[e].dat) \in Nat /\ Len(rx[e].dat) <= BufLimit
      BY <1>1, LenProperties DEF IInv, Bounded, Buffer
    <3>2. CASE HasFree(rx[e])
      <4>1. Delivered(d)[e] = [rx[e] EXCEPT !.dat = Append(@, Head(tx[d].dat))]
        BY <2>3, <3>2 DEF AddRxWord
      <4> QED
        BY <1>3, <3>1, <4>1 DEF Buffer
    <3>3. CASE ~HasFree(rx[e])
      <4>1. Delivered(d)[e] = [rx[e] EXCEPT !.ov = TRUE]
        BY <2>3, <3>3 DEF AddRxWord
      <4>2. Len(rx[e].dat) = BufLimit
        BY <3>1, <3>3, BufAssumption DEF HasFree
      <4> QED
        BY <1>3, <3>1, <4>1, <4>2 DEF Buffer
    <3> QED
      BY <3>2, <3>3
  <2>5. WireInto(e)!Move
    BY <1>1, <2>1, <2>4 DEF WireInto!Move
  <2> QED
    BY <2>5 DEF WireInto!Next
<1>5. CASE ~(Sent(d) /\ peer[e] = <<d, txport[d]>>)
  <2>1. Under(e)' = Under(e)
    <3>1. CASE peer[e] = NoEnd
      BY <1>1, <3>1 DEF Under
    <3>2. CASE peer[e] # NoEnd
      <4>1. PICK x \in Dev, z \in Port : peer[e] = <<x, z>>
        BY <1>1, <3>2 DEF Ends
      <4>2. CASE x = d /\ z = txport[d]
        BY <1>1, <1>5, <4>1, <4>2 DEF Under, TxAfter
      <4>3. CASE x = d /\ z # txport[d]
        BY <1>1, <4>1, <4>3 DEF Under
      <4>4. CASE x # d
        BY <1>1, <4>1, <4>4 DEF Under
      <4> QED
        BY <4>2, <4>3, <4>4
    <3> QED
      BY <3>1, <3>2
  <2>2. Delivered(d)[e] = rx[e]
    <3>1. CASE Sent(d) /\ peer[<<d, txport[d]>>] # NoEnd
      <4>1. peer[<<d, txport[d]>>] # e
        BY <1>1, <1>5, <3>1 DEF Symmetric
      <4> QED
        BY <1>1, <3>1, <4>1 DEF Delivered
    <3>2. CASE ~(Sent(d) /\ peer[<<d, txport[d]>>] # NoEnd)
      BY <3>2 DEF Delivered
    <3> QED
      BY <3>1, <3>2
  <2> QED
    BY <1>1, <1>3, <2>1, <2>2, Quiet
<1> QED
  BY <1>4, <1>5

LEMMA ResetLoses ==
  ASSUME IInv, NEW d \in Dev, Reset(d), NEW e \in Ends
  PROVE  WireInto(e)!Next
<1>1. /\ tx \in [Dev -> Buffer] /\ txport \in [Dev -> Port]
      /\ peer \in [Ends -> Ends \cup {NoEnd}]
      /\ tx' = [tx EXCEPT ![d] = Idle] /\ txport' = [txport EXCEPT ![d] = 0]
      /\ rx'[e] = IF e[1] = d THEN Idle ELSE rx[e]
      /\ got' = << >> /\ UNCHANGED peer
  BY DEF Reset, IInv, Typed
<1>2. Under(e)' \in {Under(e), << >>}
  <2>1. CASE peer[e] = NoEnd
    BY <1>1, <2>1 DEF Under
  <2>2. CASE peer[e] # NoEnd
    <3>1. PICK x \in Dev, z \in Port : peer[e] = <<x, z>>
      BY <1>1, <2>2 DEF Ends
    <3>2. CASE x = d
      BY <1>1, <3>1, <3>2 DEF Under, Idle
    <3>3. CASE x # d
      BY <1>1, <3>1, <3>3 DEF Under
    <3> QED
      BY <3>2, <3>3
  <2> QED
    BY <2>1, <2>2
<1>3. \/ rx'[e].dat = rx[e].dat /\ rx'[e].ov = rx[e].ov
      \/ rx'[e].dat = << >> /\ rx'[e].ov = FALSE
  <2>1. Idle.dat = << >> /\ Idle.ov = FALSE
    BY DEF Idle
  <2>2. CASE e[1] = d
    BY <1>1, <2>1, <2>2
  <2>3. CASE e[1] # d
    BY <1>1, <2>3
  <2> QED
    BY <2>2, <2>3
<1> QED
  BY <1>1, <1>2, <1>3, Quiet

LEMMA CableMoves ==
  ASSUME IInv, Symmetric, NEW e \in Ends,
         \E x \in Ends : Pull(x) \/ \E y \in Ends : Plug(x, y)
  PROVE  WireInto(e)!Next
<1>1. got' = << >> /\ UNCHANGED <<tx, txport, rx>>
  BY DEF Pull, Plug
<1>2. CASE peer'[e] = peer[e]
  BY <1>1, <1>2, UnderStays, Quiet
<1>3. CASE peer'[e] # peer[e]
  <2>1. WireInto(e)!Replug
    BY <1>1, <1>3 DEF WireInto!Replug
  <2> QED
    BY <2>1 DEF WireInto!Next
<1> QED
  BY <1>2, <1>3

(* Every end of a cable between two ports does what a Wire does, for every *)
(* number of cards and ports and every size of the buffers: words come out *)
(* in the order they were put in, a word is lost on its way only when the  *)
(* receive buffer is full, and the program that reads the next one is told *)
(* by the overflow flag (pdi.cpp, and Run and the interrupts of            *)
(* kaihic.cpp).                                                            *)
THEOREM EveryEndIsAWire == Spec => IsWire
<1>1. Init => Symmetric /\ \A e \in Ends : WireInto(e)!Init
  BY DEF Init, Symmetric, WireInto!Init, Under, Idle
<1>2. IInv /\ Symmetric /\ [Next]_vars
        => [\A e \in Ends : [WireInto(e)!Next]_(WireInto(e)!vars)]_vars
  <2> SUFFICES ASSUME IInv, Symmetric, Next, NEW e \in Ends PROVE WireInto(e)!Next
    OBVIOUS
  <2>1. CASE \E d \in Dev, c \in Port : Receive(d, c)
    BY <2>1, ReceiveReads
  <2>2. CASE \E d \in Dev, c \in Port, w \in Data : Transmit(d, c, w)
    BY <2>2, TransmitSends
  <2>3. CASE \E d \in Dev : Run(d)
    BY <2>3, RunMoves
  <2>4. CASE \E d \in Dev : Reset(d)
    BY <2>4, ResetLoses
  <2>5. CASE \E d \in Dev : TakeInterrupts(d) \/ \E s \in SUBSET Kind : SetInterrupts(d, s)
    <3>1. got' = << >> /\ UNCHANGED <<tx, txport, rx, peer>>
      BY <2>5 DEF TakeInterrupts, SetInterrupts
    <3> QED
      BY <3>1, UnderStays, Quiet
  <2>6. CASE \E x \in Ends : Pull(x) \/ \E y \in Ends : Plug(x, y)
    BY <2>6, CableMoves
  <2> QED
    BY <2>1, <2>2, <2>3, <2>4, <2>5, <2>6 DEF Next, Program
<1> QED
  BY <1>1, <1>2, SymmetricStep, InitIInv, NextKeeps, PTL DEF Spec, IsWire

(* The cables are those of Cabling, which the links of the emulator are    *)
(* for careful clients (see DeviceTreeProofs): nothing a card does, a      *)
(* reset included, moves one.                                              *)
CardCables == INSTANCE Cabling WITH Point <- Ends, NoPoint <- NoEnd

THEOREM CablesAreCabling == Spec => CardCables!Spec
<1>1. Init => CardCables!Init
  BY DEF Init, CardCables!Init
<1>2. IInv /\ [Next]_vars => [CardCables!Next]_peer
  <2> SUFFICES ASSUME IInv, [Next]_vars PROVE CardCables!Plug \/ CardCables!Pull \/ UNCHANGED peer
    BY DEF CardCables!Next
  <2>1. peer \in [Ends -> Ends \cup {NoEnd}]
    BY DEF IInv, Typed
  <2>2. ASSUME NEW e \in Ends, NEW f \in Ends, Plug(e, f) PROVE CardCables!Plug
    <3>1. /\ e # f /\ peer[e] = NoEnd /\ peer[f] = NoEnd
          /\ peer' = [peer EXCEPT ![e] = f, ![f] = e] /\ peer'[e] = f
      BY <2>1, <2>2 DEF Plug
    <3> QED
      BY <3>1 DEF CardCables!Plug
  <2>3. ASSUME NEW e \in Ends, Pull(e) PROVE CardCables!Pull
    BY <2>3 DEF Pull, CardCables!Pull
  <2> QED
    BY <2>2, <2>3 DEF Next, Program, Receive, Transmit, SetInterrupts, TakeInterrupts,
                      Run, Reset, vars
<1> QED
  BY <1>1, <1>2, Invariant, PTL DEF Spec, CardCables!Spec
=============================================================================
