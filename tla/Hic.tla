-------------------------------- MODULE Hic ---------------------------------
(***************************************************************************)
(* KaiComm hardware interface cards (hardware/kaihic.cpp) and the cables   *)
(* between them.  Each card has one transmit buffer, bound to one port at  *)
(* a time, and one receive buffer per port.  A Run of the card, scheduled  *)
(* every 100 microseconds, moves one word out and makes at most one more   *)
(* word of every port readable.                                            *)
(***************************************************************************)
EXTENDS PdiPort

CONSTANTS
    Dev,        \* the cards
    Port,       \* the ports of a card, 0 .. portcount - 1
    Data,       \* the words a program transmits
    Kind        \* the interrupts a program may enable

ASSUME PortAssumption == 0 \in Port
ASSUME KindAssumption == Kind \subseteq {"receive", "transmit"}

(* A word under way; from and port say who sent it where, and are not seen *)
(* by any card.                                                            *)
Payload == [from : Dev, port : Port, data : Data]

Ends == Dev \X Port
NoEnd == << >>

VARIABLES
    tx,         \* the transmit buffer of each card
    txport,     \* the port it is bound to
    rx,         \* the receive buffer of each end of a cable
    iword,      \* which interrupts the program enabled
    peer,       \* the other end of the cable plugged in, or NoEnd
    got,        \* <<end, word, warned>> after a read, otherwise nothing
    irq         \* interrupts sent to the CPU that the program did not take yet

vars == <<tx, txport, rx, iword, peer, got, irq>>

Init ==
    /\ tx = [d \in Dev |-> Idle]
    /\ txport = [d \in Dev |-> 0]
    /\ rx = [e \in Ends |-> Idle]
    /\ iword = [d \in Dev |-> {}]
    /\ peer = [e \in Ends |-> NoEnd]
    /\ got = << >>
    /\ irq = [d \in Dev |-> {}]

-----------------------------------------------------------------------------
(* Hardware interrupts from the program.  HWI 0 (status) changes nothing,  *)
(* HWI 4 only writes the program's memory, and requests that name a port   *)
(* the card does not have only return an error.                            *)

(* HWI 1: a word is returned only when it has moved; the overflow flag is  *)
(* reported, and cleared, with it.                                         *)
Receive(d, c) ==
    /\ CanGet(rx[<<d, c>>])
    /\ got' = <<<<d, c>>, Head(rx[<<d, c>>].dat), rx[<<d, c>>].ov>>
    /\ rx' = [rx EXCEPT ![<<d, c>>] = ClearOverflow(GetWord(@))]
    /\ UNCHANGED <<tx, txport, iword, peer, irq>>

(* HWI 2: refused without a cable, and while the transmitter is busy with  *)
(* another port.                                                           *)
TransmitAnyTime(d, c, w) ==
    /\ peer[<<d, c>>] # NoEnd
    /\ txport' = [txport EXCEPT ![d] = c]
    /\ tx' = [tx EXCEPT ![d] = AddTxWord(@, [from |-> d, port |-> c, data |-> w])]
    /\ got' = << >>
    /\ UNCHANGED <<rx, iword, peer, irq>>
Transmit(d, c, w) ==
    /\ peer[<<d, c>>] # NoEnd
    /\ c = txport[d] \/ ~IsBusy(tx[d])
    /\ txport' = [txport EXCEPT ![d] = c]
    /\ tx' = [tx EXCEPT ![d] = AddTxWord(@, [from |-> d, port |-> c, data |-> w])]
    /\ got' = << >>
    /\ UNCHANGED <<rx, iword, peer, irq>>

(* HWI 3 *)
SetInterrupts(d, s) ==
    /\ iword' = [iword EXCEPT ![d] = s]
    /\ got' = << >>
    /\ UNCHANGED <<tx, txport, rx, peer, irq>>

-----------------------------------------------------------------------------
(* Run: the transmitter first.  A word whose time is over leaves for the   *)
(* other end of the cable, if there is one, and the interrupt tells that   *)
(* the buffer is empty; then every receive buffer, the one the word has    *)
(* just come to included.                                                  *)
Sent(d) == IsBusy(tx[d])
TxAfterPlugged(d) ==
    IF Sent(d) /\ peer[<<d, txport[d]>>] # NoEnd THEN GetWord(Process(tx[d])) ELSE tx[d]
TxAfter(d) == IF Sent(d) THEN GetWord(Process(tx[d])) ELSE tx[d]

Delivered(d) ==
    LET to == peer[<<d, txport[d]>>]
    IN  IF Sent(d) /\ to # NoEnd
          THEN [rx EXCEPT ![to] = AddRxWord(@, Head(tx[d].dat))]
          ELSE rx

RxAfter(d) ==
    [e \in Ends |-> IF e[1] = d THEN Process(Delivered(d)[e]) ELSE Delivered(d)[e]]

RaisedWhenEmpty(d) ==
    {k \in iword[d] :
        \/ k = "transmit" /\ Sent(d) /\ ~IsBusy(TxAfter(d))
        \/ k = "receive" /\ \E c \in Port : ~HasData(Delivered(d)[<<d, c>>])
                                         /\ IsBusy(Delivered(d)[<<d, c>>])}
Raised(d) ==
    {k \in iword[d] :
        \/ k = "transmit" /\ Sent(d) /\ ~IsBusy(TxAfter(d))
        \/ k = "receive" /\ \E c \in Port : IsBusy(Delivered(d)[<<d, c>>])}

Run(d) ==
    /\ tx' = [tx EXCEPT ![d] = TxAfter(d)]
    /\ rx' = RxAfter(d)
    /\ irq' = [irq EXCEPT ![d] = @ \cup Raised(d)]
    /\ got' = << >>
    /\ UNCHANGED <<txport, iword, peer>>

(* A card is reset by its CPU, which forgets its pending interrupts.       *)
Reset(d) ==
    /\ tx' = [tx EXCEPT ![d] = Idle]
    /\ rx' = [e \in Ends |-> IF e[1] = d THEN Idle ELSE rx[e]]
    /\ txport' = [txport EXCEPT ![d] = 0]
    /\ iword' = [iword EXCEPT ![d] = {}]
    /\ irq' = [irq EXCEPT ![d] = {}]
    /\ got' = << >>
    /\ UNCHANGED peer

-----------------------------------------------------------------------------
(* The CPU takes the interrupts; sessions plug and pull cables             *)
(* (isi_attach, isi_deattach), which the cards are not told of.            *)

TakeInterrupts(d) ==
    /\ irq[d] # {}
    /\ irq' = [irq EXCEPT ![d] = {}]
    /\ got' = << >>
    /\ UNCHANGED <<tx, txport, rx, iword, peer>>

Plug(e, f) ==
    /\ e # f /\ peer[e] = NoEnd /\ peer[f] = NoEnd
    /\ peer' = [peer EXCEPT ![e] = f, ![f] = e]
    /\ got' = << >>
    /\ UNCHANGED <<tx, txport, rx, iword, irq>>

Pull(e) ==
    /\ peer[e] # NoEnd
    /\ peer' = [peer EXCEPT ![e] = NoEnd, ![peer[e]] = NoEnd]
    /\ got' = << >>
    /\ UNCHANGED <<tx, txport, rx, iword, irq>>

Program(d) ==
    \/ \E c \in Port : Receive(d, c) \/ \E w \in Data : Transmit(d, c, w)
    \/ \E s \in SUBSET Kind : SetInterrupts(d, s)
    \/ TakeInterrupts(d)

Next ==
    \/ \E d \in Dev : Program(d) \/ Run(d) \/ Reset(d)
    \/ \E e \in Ends : Pull(e) \/ \E f \in Ends : Plug(e, f)

Spec == Init /\ [][Next]_vars

(* The bus runs every card again and again; programs, sessions and resets  *)
(* need never do anything.                                                 *)
FairSpec == Spec /\ \A d \in Dev : WF_vars(Run(d))

-----------------------------------------------------------------------------
Buffer == [rc : Nat, dat : Seq(Payload), ov : BOOLEAN]

(* The counts packed in a port's stat field stay within its four bits, and *)
(* never more words have moved than there are; between two Runs no word    *)
(* has left half: the transmitter is busy exactly while it holds words.    *)
CountsInBounds ==
    /\ \A e \in Ends : rx[e].rc <= Len(rx[e].dat) /\ Len(rx[e].dat) <= BufLimit
    /\ \A d \in Dev : tx[d].rc = 0 /\ Len(tx[d].dat) <= BufLimit /\ ~tx[d].ov

TypeOK ==
    /\ tx \in [Dev -> Buffer]
    /\ txport \in [Dev -> Port]
    /\ rx \in [Ends -> Buffer]
    /\ iword \in [Dev -> SUBSET Kind]
    /\ peer \in [Ends -> Ends \cup {NoEnd}]
    /\ got \in {NoEnd} \cup (Ends \X Payload \X BOOLEAN)
    /\ irq \in [Dev -> SUBSET Kind]
    /\ CountsInBounds

(* A word waiting in the transmitter leaves by the port it was given for,  *)
(* although the program may name another port meanwhile.                   *)
LeavesByItsPort ==
    \A d \in Dev : \A i \in DOMAIN tx[d].dat :
        tx[d].dat[i].from = d /\ tx[d].dat[i].port = txport[d]

(* Every end of a cable is a Wire.                                         *)
Under(e) ==
    IF peer[e] # NoEnd /\ txport[peer[e][1]] = peer[e][2]
      THEN tx[peer[e][1]].dat ELSE << >>

WireInto(e) == INSTANCE Wire WITH
    cable <- peer[e], transit <- Under(e), arrived <- rx[e].dat, gap <- rx[e].ov,
    got <- IF got # << >> /\ got[1] = e THEN Tail(got) ELSE << >>

IsWire ==
    /\ \A e \in Ends : WireInto(e)!Init
    /\ [][\A e \in Ends : [WireInto(e)!Next]_(WireInto(e)!vars)]_vars

(* A word that reaches a card whose program enabled the interrupt raises   *)
(* it, also when the word comes just as others are read, unless the        *)
(* program disables the interrupt, or the card is reset, first.            *)
ArrivalIsSignalled ==
    \A e \in Ends :
        (IsBusy(rx[e]) /\ "receive" \in iword[e[1]])
            ~> ("receive" \in irq[e[1]] \/ "receive" \notin iword[e[1]])

(* A transmitter falls idle unless its program keeps giving it words, with *)
(* or without a cable.                                                     *)
TransmitterDrains ==
    \A d \in Dev :
        []<>~IsBusy(tx[d]) \/ []<><<\E c \in Port, w \in Data : Transmit(d, c, w)>>_vars
=============================================================================
