-------------------------- MODULE BackplaneProofs ---------------------------
(***************************************************************************)
(* Proofs about Backplane for any keys, rates, messages and sizes.         *)
(***************************************************************************)
EXTENDS Backplane, DataLemmas

Place0 == Device \cup {NoDevice}

-----------------------------------------------------------------------------
(* What is cut off a table behind its last device holds no device.         *)
LEMMA TrimmedKeeps ==
  ASSUME NEW t \in Seq(Place0)
  PROVE  /\ Trimmed(t) \in Seq(Place0)
         /\ \A i \in DOMAIN t : t[i] # NoDevice => i \in DOMAIN Trimmed(t)
         /\ \A i \in DOMAIN Trimmed(t) : i \in DOMAIN t /\ Trimmed(t)[i] = t[i]
<1>1. Len(t) \in Nat /\ DOMAIN t = 1 .. Len(t)
  BY LenProperties
<1>2. Used(t) \subseteq 0 .. Len(t) /\ 0 \in Used(t)
  BY <1>1 DEF Used
<1>3. \E m \in Used(t) : \A i \in Used(t) : i <= m
  BY <1>1, <1>2, LastExists
<1> DEFINE n == CHOOSE m \in Used(t) : \A i \in Used(t) : i <= m
<1>4. n \in Used(t) /\ \A i \in Used(t) : i <= n
  BY <1>3
<1>5. n \in 0 .. Len(t) /\ Trimmed(t) = SubSeq(t, 1, n)
  BY <1>2, <1>4 DEF Trimmed
<1> HIDE DEF n
<1>6. /\ Trimmed(t) = [i \in 1 .. n |-> t[i]]
      /\ \A i \in 1 .. n : t[i] \in Place0
  BY <1>1, <1>5, ElementOfSeq, Z3
<1>7. Trimmed(t) \in Seq(Place0) /\ DOMAIN Trimmed(t) = 1 .. n
  BY <1>5, <1>6
<1>8. ASSUME NEW i \in DOMAIN t, t[i] # NoDevice PROVE i \in 1 .. n
  BY <1>1, <1>4, <1>5, <1>8 DEF Used
<1> QED
  BY <1>1, <1>5, <1>6, <1>7, <1>8

-----------------------------------------------------------------------------
(* What attaching and taking off do to the table: a device that stays is   *)
(* where it was, and one that is taken off is gone.                        *)
LEMMA AttachTable ==
  ASSUME table \in Seq(Place0), NEW d \in Device, NEW p \in Nat, Attach(d, p)
  PROVE  /\ table' \in Seq(Place0)
         /\ \A i \in DOMAIN table : table[i] # NoDevice =>
                i \in DOMAIN table' /\ table'[i] = table[i]
<1>1. CASE table' = Append(table, d)
  <2>1. table' \in Seq(Place0) /\ Len(table') = Len(table) + 1
    BY <1>1 DEF Place0
  <2>2. \A i \in 1 .. Len(table) : table'[i] = table[i]
    BY <1>1, AppendProperties DEF Place0
  <2> QED
    BY <2>1, <2>2
<1>2. CASE IsAt(p - 1, NoDevice) /\ table' = [table EXCEPT ![p] = d]
  <2>1. p \in DOMAIN table /\ table[p] = NoDevice
    BY <1>2 DEF IsAt
  <2>2. table' \in Seq(Place0)
    BY <1>2, <2>1, ExceptSeq DEF Place0
  <2> QED
    BY <1>2, <2>1, <2>2
<1> QED
  BY <1>1, <1>2 DEF Attach

LEMMA DeattachTable ==
  ASSUME table \in Seq(Place0), NEW d \in Device, Deattach(d)
  PROVE  /\ table' \in Seq(Place0)
         /\ \A i \in DOMAIN table : table[i] \notin {d, NoDevice} =>
                i \in DOMAIN table' /\ table'[i] = table[i]
         /\ d \notin OnBus'
<1> DEFINE t == Emptied(d)
<1>1. DOMAIN t = DOMAIN table /\ DOMAIN table = 1 .. Len(table) /\ Len(table) \in Nat
  BY DEF Emptied
<1>2. \A i \in DOMAIN table : table[i] \in Place0
  BY ElementOfSeq, <1>1
<1>3. \A i \in DOMAIN table : t[i] = IF table[i] = d THEN NoDevice ELSE table[i]
  BY DEF Emptied
<1>4. t = [i \in 1 .. Len(table) |-> t[i]]
  BY <1>1 DEF Emptied
<1> HIDE DEF t
<1>5. t \in Seq(Place0)
  <2>1. \A i \in 1 .. Len(table) : t[i] \in Place0
    BY <1>1, <1>2, <1>3 DEF Place0
  <2> QED
    BY <1>1, <1>4, <2>1
<1>6. table' = Trimmed(t)
  BY DEF Deattach, t
<1>7. d # NoDevice
  BY DEF Device, NoDevice
<1> QED
  BY <1>1, <1>3, <1>5, <1>6, <1>7, TrimmedKeeps DEF OnBus

-----------------------------------------------------------------------------
(* The types of what the clock and the keyboard do.                        *)
ClockType == [rate : Rate \cup {0}, raccum : 0 .. AccLimit - 1, iword : Message,
              ctime : 0 .. TimeLimit - 1]
KeyboardType == [imsg : Message, keybf : Seq(Key), keydown : [Slot -> Key \cup {0}]]

LEMMA ModRange ==
  ASSUME NEW a \in Nat, NEW b \in Nat \ {0}
  PROVE  a % b \in 0 .. b - 1
OBVIOUS

LEMMA OffTypes == ClockOff \in ClockType /\ KeyboardOff \in KeyboardType
<1>1. 0 \in 0 .. AccLimit - 1 /\ 0 \in 0 .. TimeLimit - 1 /\ 0 \in Message
  BY LimitAssumption, MessageAssumption
<1>2. << >> \in Seq(Key) /\ NoKeys \in [Slot -> Key \cup {0}]
  BY EmptySeq DEF NoKeys
<1>3. KeyboardOff \in KeyboardType
  BY <1>1, <1>2 DEF KeyboardType, KeyboardOff
<1> QED
  BY <1>1, <1>3 DEF ClockType, ClockOff

LEMMA ClockTypes ==
  ASSUME NEW c \in ClockType
  PROVE  /\ BaseTick(c) \in ClockType
         /\ ReadTime(c) \in ClockType
         /\ \A r \in Rate : SetRate(c, r) \in ClockType
         /\ \A m \in Message : SetMessage(c, m) \in ClockType
<1>1. 0 \in 0 .. AccLimit - 1 /\ 0 \in 0 .. TimeLimit - 1 /\ 0 \in Message
  BY LimitAssumption, MessageAssumption
<1>2. (c.raccum + 1) % AccLimit \in 0 .. AccLimit - 1
  BY ModRange, LimitAssumption DEF ClockType
<1>3. (c.ctime + 1) % TimeLimit \in 0 .. TimeLimit - 1
  BY ModRange, LimitAssumption DEF ClockType
<1>4. BaseTick(c) \in ClockType
  BY <1>1, <1>2, <1>3 DEF ClockType, BaseTick
<1> QED
  BY <1>1, <1>4 DEF ClockType, ReadTime, SetRate, SetMessage

LEMMA KeyboardTypes ==
  ASSUME NEW b \in KeyboardType
  PROVE  /\ \A k \in Key : KDown(b, k) \in KeyboardType /\ KUp(b, k) \in KeyboardType
         /\ Clear(b) \in KeyboardType /\ Get(b) \in KeyboardType
         /\ \A m \in Message : SetInterrupt(b, m) \in KeyboardType
<1>1. ASSUME NEW k \in Key PROVE KDown(b, k) \in KeyboardType
  <2>1. b.keybf \in Seq(Key) /\ Len(b.keybf) \in Nat
    BY DEF KeyboardType
  <2>2. ~(Len(b.keybf) < KeySlots) => Tail(b.keybf) \in Seq(Key)
    BY <2>1, SlotsAssumption, HeadTailProperties
  <2>3. Buffered(b.keybf, k) \in Seq(Key)
    BY <2>1, <2>2 DEF Buffered
  <2>4. [b.keydown EXCEPT ![Place(b)] = k] \in [Slot -> Key \cup {0}]
    BY DEF KeyboardType
  <2> QED
    BY <2>3, <2>4 DEF KeyboardType, KDown
<1>2. ASSUME NEW k \in Key PROVE KUp(b, k) \in KeyboardType
  BY DEF KeyboardType, KUp
<1>3. Get(b) \in KeyboardType
  BY HeadTailProperties DEF KeyboardType, Get
<1>4. Clear(b) \in KeyboardType
  BY EmptySeq DEF KeyboardType, Clear
<1>5. \A m \in Message : SetInterrupt(b, m) \in KeyboardType
  BY DEF KeyboardType, SetInterrupt
<1> QED
  BY <1>1, <1>2, <1>3, <1>4, <1>5

-----------------------------------------------------------------------------
(* Every variable keeps to its type, whatever the sizes and the rates.     *)
THEOREM TypeCorrect == Spec => []TypeOK
<1> USE DEF Device, NoDevice
<1>1. Init => TypeOK
  <2> SUFFICES ASSUME Init PROVE TypeOK
    OBVIOUS
  <2>1. table \in Seq(Device \cup {NoDevice})
    BY EmptySeq DEF Init
  <2>2. clk \in ClockType /\ kbd \in KeyboardType
    BY OffTypes DEF Init
  <2>3. due \in 0 .. MaxDue /\ hwcount \in Nat /\ elapsed \in Nat
    BY DueAssumption DEF Init
  <2>4. /\ sent \in {<< >>} \cup (Device \X Message)
        /\ drained \in BOOLEAN
        /\ held \in SUBSET Key /\ told \in SUBSET Device /\ counted \in SUBSET Device
    BY DEF Init
  <2> QED
    BY <2>1, <2>2, <2>3, <2>4 DEF TypeOK, ClockType, KeyboardType
<1>2. TypeOK /\ [Next]_vars => TypeOK'
  <2> SUFFICES ASSUME TypeOK, [Next]_vars PROVE TypeOK'
    OBVIOUS
  <2> USE DueAssumption, MessageAssumption, PlaceAssumption
  <2>1. clk \in ClockType /\ kbd \in KeyboardType /\ table \in Seq(Place0)
    BY DEF TypeOK, ClockType, KeyboardType, Place0
  <2>2. \A d \in Device, m \in Message : Signal(d, m) \in {<< >>} \cup (Device \X Message)
    BY DEF Signal
  <2>3. CASE Run
    <3>1. clk' \in ClockType
      BY <2>1, <2>3, ClockTypes DEF Run
    <3>2. due' \in 0 .. MaxDue /\ elapsed' \in Nat
      BY <2>3 DEF Run, Tick, TypeOK
    <3>3. sent' \in {<< >>} \cup (Device \X Message)
      BY <2>1, <2>2, <2>3 DEF Run, ClockType
    <3> QED
      BY <2>3, <3>1, <3>2, <3>3 DEF Run, TypeOK, ClockType
  <2>4. CASE TimePasses
    BY <2>4 DEF TimePasses, TypeOK
  <2>5. ASSUME NEW k \in Key, KeyDown(k) \/ KeyUp(k) PROVE TypeOK'
    <3>1. kbd' \in KeyboardType
      BY <2>1, <2>5, KeyboardTypes DEF KeyDown, KeyUp
    <3>2. sent' \in {<< >>} \cup (Device \X Message)
      BY <2>1, <2>2, <2>5 DEF KeyDown, KeyUp, KeyboardType
    <3>3. held' \in SUBSET Key /\ drained' \in BOOLEAN
      BY <2>5 DEF KeyDown, KeyUp, TypeOK
    <3> QED
      BY <2>5, <3>1, <3>2, <3>3 DEF KeyDown, KeyUp, TypeOK, KeyboardType
  <2>6. ASSUME NEW d \in Device, NEW p \in 1 .. MaxPlace, Attach(d, p) PROVE TypeOK'
    BY <2>1, <2>6, AttachTable DEF Attach, TypeOK, Place0
  <2>7. ASSUME NEW d \in Device, Deattach(d) PROVE TypeOK'
    <3>1. drained' \in BOOLEAN
      BY <2>7 DEF Deattach, TypeOK
    <3> QED
      BY <2>1, <2>7, <3>1, DeattachTable DEF Deattach, TypeOK, Place0
  <2>8. CASE Reset
    <3>1. clk' \in ClockType /\ kbd' \in KeyboardType
      BY <2>1, <2>8, OffTypes DEF Reset
    <3>2. hwcount' \in Nat /\ counted' \in SUBSET Device
      BY <2>1, <2>8 DEF Reset, Count, OnBus, Place0
    <3> QED
      BY <2>8, <3>1, <3>2 DEF Reset, TypeOK, ClockType, KeyboardType
  <2>9. ASSUME NEW n \in 0 .. MaxPlace, Hwi(n) PROVE TypeOK'
    <3>1. CASE IsAt(n, "clock") /\ (ClockTime \/ \E r \in Rate : ClockRate(r)
                                    \/ \E m \in Message : ClockMessage(m))
      <4>1. clk' \in ClockType
        BY <2>1, <3>1, ClockTypes DEF ClockTime, ClockRate, ClockMessage
      <4>2. due' \in 0 .. MaxDue
        BY <3>1 DEF ClockTime, ClockRate, ClockMessage, TypeOK
      <4> QED
        BY <2>9, <3>1, <4>1, <4>2
           DEF Hwi, TypeOK, ClockType, ClockTime, ClockRate, ClockMessage
    <3>2. CASE IsAt(n, "keyboard") /\ (KeyboardClear \/ KeyboardGet
                                       \/ \E m \in Message : KeyboardMessage(m))
      <4>1. kbd' \in KeyboardType
        BY <2>1, <3>2, KeyboardTypes DEF KeyboardClear, KeyboardGet, KeyboardMessage
      <4>2. drained' \in BOOLEAN /\ told' \in SUBSET Device
        BY <3>2 DEF KeyboardClear, KeyboardGet, KeyboardMessage, TypeOK
      <4> QED
        BY <2>9, <3>2, <4>1, <4>2
           DEF Hwi, TypeOK, KeyboardType, KeyboardClear, KeyboardGet, KeyboardMessage
    <3> QED
      BY <2>9, <3>1, <3>2 DEF Hwi
  <2>10. CASE UNCHANGED vars
    BY <2>10 DEF vars, hwVars, TypeOK
  <2> QED
    BY <2>3, <2>4, <2>5, <2>6, <2>7, <2>8, <2>9, <2>10 DEF Next, Session
<1> QED
  BY <1>1, <1>2, PTL DEF Spec

-----------------------------------------------------------------------------
(* What a step does to the devices on the bus.                             *)
LEMMA OthersStay ==
  ASSUME TypeOK, [Next]_vars
  PROVE  \A d \in Device : \A i \in DOMAIN table :
            table[i] = d /\ d \in OnBus' => i \in DOMAIN table' /\ table'[i] = d
<1> USE DEF Device, NoDevice
<1>1. table \in Seq(Place0)
  BY DEF TypeOK, Place0
<1>2. ASSUME NEW d \in Device, NEW p \in 1 .. MaxPlace, Attach(d, p)
      PROVE  \A i \in DOMAIN table : table[i] # NoDevice =>
                i \in DOMAIN table' /\ table'[i] = table[i]
  BY <1>1, <1>2, AttachTable, PlaceAssumption
<1>3. ASSUME NEW e \in Device, Deattach(e)
      PROVE  /\ \A i \in DOMAIN table : table[i] \notin {e, NoDevice} =>
                    i \in DOMAIN table' /\ table'[i] = table[i]
             /\ e \notin OnBus'
  BY <1>1, <1>3, DeattachTable
<1>4. \/ \E d \in Device, p \in 1 .. MaxPlace : Attach(d, p)
      \/ \E d \in Device : Deattach(d)
      \/ UNCHANGED table
  BY DEF Next, Session, Run, TimePasses, KeyDown, KeyUp, Reset, Hwi, vars, hwVars
<1> QED
  BY <1>2, <1>3, <1>4

(* A device keeps its number while it is attached.                         *)
THEOREM NumbersKept == Spec => KeepsItsNumber
<1>1. TypeOK /\ [Next]_vars =>
        [\A d \in Device : \A i \in DOMAIN table :
            table[i] = d /\ d \in OnBus' => i \in DOMAIN table' /\ table'[i] = d]_vars
  BY OthersStay
<1> QED
  BY <1>1, TypeCorrect, PTL DEF Spec, KeepsItsNumber

(* No key is reported to be down that is not.                              *)
THEOREM NoneStuck == Spec => []NoStuckKeys
<1> USE KeyAssumption DEF Check, NoStuckKeys, TypeOK
<1>1. Init => NoStuckKeys
  BY DEF Init, KeyboardOff, NoKeys
<1>2. TypeOK /\ NoStuckKeys /\ [Next]_vars => NoStuckKeys'
  <2> SUFFICES ASSUME TypeOK, NoStuckKeys, [Next]_vars PROVE NoStuckKeys'
    OBVIOUS
  <2>1. ASSUME NEW k \in Key, KeyDown(k) PROVE NoStuckKeys'
    BY <2>1 DEF KeyDown, KDown
  <2>2. ASSUME NEW k \in Key, KeyUp(k) PROVE NoStuckKeys'
    <3>1. \A s \in Slot : kbd'.keydown[s] = IF kbd.keydown[s] = k THEN 0 ELSE kbd.keydown[s]
      BY <2>2 DEF KeyUp, KUp
    <3>2. held' = held \ {k}
      BY <2>2 DEF KeyUp
    <3> QED
      BY <3>1, <3>2
  <2>3. CASE Reset
    <3>1. kbd' = KeyboardOff \/ kbd' = kbd
      BY <2>3 DEF Reset
    <3> QED
      BY <2>3, <3>1 DEF Reset, KeyboardOff, NoKeys
  <2>4. ASSUME NEW n \in 0 .. MaxPlace, Hwi(n) PROVE NoStuckKeys'
    <3>1. kbd'.keydown = kbd.keydown
      BY <2>4 DEF Hwi, ClockTime, ClockRate, ClockMessage, KeyboardClear,
                  KeyboardGet, KeyboardMessage, Clear, Get, SetInterrupt
    <3> QED
      BY <2>4, <3>1 DEF Hwi
  <2>5. CASE Run \/ TimePasses \/ UNCHANGED vars
    BY <2>5 DEF Run, TimePasses, vars, hwVars
  <2>6. ASSUME NEW d \in Device, NEW p, Attach(d, p) \/ Deattach(d) PROVE NoStuckKeys'
    BY <2>6 DEF Attach, Deattach
  <2> QED
    BY <2>1, <2>2, <2>3, <2>4, <2>5, <2>6 DEF Next, Session
<1> QED
  BY <1>1, <1>2, TypeCorrect, PTL DEF Spec

-----------------------------------------------------------------------------
(* A program that waits for an interrupt waits for one that would come: it *)
(* asked for it and the keyboard is on the bus.                            *)
WouldBeTold == drained => kbd.imsg # 0 /\ "keyboard" \in OnBus

(* A program that has read all keys, and asked to be interrupted, misses   *)
(* none.                                                                   *)
THEOREM NoneMissed == Spec => []NothingMissed
<1> DEFINE Inv == NothingMissed /\ WouldBeTold
<1> USE DEF NothingMissed, WouldBeTold
<1>1. Init => Inv
  BY DEF Init
<1>2. TypeOK /\ Inv /\ [Next]_vars => Inv'
  <2> SUFFICES ASSUME TypeOK, Inv, [Next]_vars PROVE Inv'
    OBVIOUS
  <2>1. ASSUME NEW k \in Key, KeyDown(k) \/ KeyUp(k) PROVE Inv'
    <3>1. drained => sent' # << >>
      BY <2>1 DEF KeyDown, KeyUp, Signal
    <3> QED
      BY <2>1, <3>1 DEF KeyDown, KeyUp
  <2>2. CASE Reset
    BY <2>2 DEF Reset
  <2>3. ASSUME NEW n \in 0 .. MaxPlace, Hwi(n) PROVE Inv'
    <3>1. UNCHANGED table
      BY <2>3 DEF Hwi
    <3>2. CASE ClockTime \/ (\E r \in Rate : ClockRate(r)) \/ \E m \in Message : ClockMessage(m)
      BY <3>1, <3>2 DEF ClockTime, ClockRate, ClockMessage, OnBus
    <3>3. CASE KeyboardClear
      <4>1. kbd'.keybf = << >> /\ kbd'.imsg = kbd.imsg /\ drained' = drained
        BY <3>3 DEF KeyboardClear, Clear, TypeOK
      <4> QED
        BY <3>1, <4>1 DEF OnBus
    <3>4. ASSUME NEW m \in Message, KeyboardMessage(m) PROVE Inv'
      <4>1. /\ kbd'.keybf = kbd.keybf /\ kbd'.imsg = m
            /\ drained' => drained /\ m # 0
        BY <3>4 DEF KeyboardMessage, SetInterrupt, TypeOK
      <4> QED
        BY <3>1, <4>1 DEF OnBus
    <3>5. CASE IsAt(n, "keyboard") /\ KeyboardGet
      <4>1. "keyboard" \in OnBus
        BY <3>5 DEF IsAt, OnBus, NoDevice
      <4>2. kbd'.imsg = kbd.imsg /\ (kbd.keybf = << >> => kbd'.keybf = << >>)
        BY <3>5 DEF KeyboardGet, Get, TypeOK
      <4> QED
        BY <3>1, <3>5, <4>1, <4>2 DEF KeyboardGet, OnBus
    <3> QED
      BY <2>3, <3>2, <3>3, <3>4, <3>5 DEF Hwi
  <2>4. CASE Run \/ TimePasses \/ UNCHANGED vars
    BY <2>4 DEF Run, TimePasses, vars, hwVars, OnBus
  <2>5. ASSUME NEW d \in Device, NEW p \in 1 .. MaxPlace, Attach(d, p) PROVE Inv'
    <3>1. drained => "keyboard" \in OnBus'
      BY <2>5, AttachTable, PlaceAssumption DEF TypeOK, Place0, OnBus, Device, NoDevice
    <3> QED
      BY <2>5, <3>1 DEF Attach
  <2>6. ASSUME NEW d \in Device, Deattach(d) PROVE Inv'
    <3>1. CASE d = "keyboard"
      BY <2>6, <3>1 DEF Deattach
    <3>2. CASE d = "clock"
      <4>1. drained => "keyboard" \in OnBus'
        BY <2>6, <3>2, DeattachTable DEF TypeOK, Place0, OnBus, Device, NoDevice
      <4> QED
        BY <2>6, <4>1 DEF Deattach
    <3> QED
      BY <3>1, <3>2 DEF Device
  <2> QED
    BY <2>1, <2>2, <2>3, <2>4, <2>5, <2>6 DEF Next, Session
<1> QED
  BY <1>1, <1>2, TypeCorrect, PTL DEF Spec

-----------------------------------------------------------------------------
(* A device that was there at the reset and was not taken off since is     *)
(* among those the program was told of: an invariant that is inductive     *)
(* because devices keep their numbers.                                     *)
THEOREM CountedReachable == Spec => []CountedIsReachable
<1> USE DEF Device, NoDevice
<1>1. Init => CountedIsReachable
  BY DEF Init, CountedIsReachable
<1>2. TypeOK /\ CountedIsReachable /\ [Next]_vars => CountedIsReachable'
  <2> SUFFICES ASSUME TypeOK, CountedIsReachable, [Next]_vars PROVE CountedIsReachable'
    OBVIOUS
  <2>1. table \in Seq(Place0) /\ hwcount \in Nat
    BY DEF TypeOK, Place0
  <2>2. CASE Reset
    <3>1. DOMAIN table = 1 .. Len(table) /\ Len(table) \in Nat
      BY <2>1
    <3>2. ASSUME NEW d \in OnBus PROVE \E n \in 0 .. Len(table) - 1 : IsAt(n, d)
      <4>1. PICK i \in DOMAIN table : table[i] = d
        BY DEF OnBus
      <4>2. i - 1 \in 0 .. Len(table) - 1 /\ (i - 1) + 1 = i
        BY <3>1, <4>1
      <4> QED
        BY <4>1, <4>2 DEF IsAt
    <3> QED
      BY <2>2, <3>2 DEF Reset, Count, CountedIsReachable, IsAt
  <2>3. CASE ~Reset
    <3>1. hwcount' = hwcount /\ counted' \subseteq counted
      BY <2>3 DEF Next, Session, Run, TimePasses, KeyDown, KeyUp, Attach, Deattach, Hwi,
                  vars, hwVars
    <3>2. ASSUME NEW d \in counted', NEW n \in 0 .. hwcount - 1, IsAt(n, d)
          PROVE  IsAt(n, d)'
      <4>1. CASE \E e \in Device, p \in 1 .. MaxPlace : Attach(e, p)
        BY <2>1, <3>1, <3>2, <4>1, AttachTable, PlaceAssumption DEF IsAt, TypeOK
      <4>2. ASSUME NEW e \in Device, Deattach(e) PROVE IsAt(n, d)'
        <5>1. d \in Device /\ d # e
          BY <3>1, <4>2 DEF Deattach, TypeOK
        <5> QED
          BY <2>1, <3>2, <4>2, <5>1, DeattachTable DEF IsAt
      <4>3. CASE UNCHANGED table
        BY <3>2, <4>3 DEF IsAt
      <4> QED
        BY <2>3, <4>1, <4>2, <4>3
           DEF Next, Session, Run, TimePasses, KeyDown, KeyUp, Hwi, vars, hwVars
    <3> QED
      BY <3>1, <3>2 DEF CountedIsReachable
  <2> QED
    BY <2>2, <2>3
<1> QED
  BY <1>1, <1>2, TypeCorrect, PTL DEF Spec

-----------------------------------------------------------------------------
(* A device that would interrupt was told to since its reset.              *)
OnlyWhenTold ==
    /\ clk.iword # 0 => "clock" \in told
    /\ kbd.imsg # 0 => "keyboard" \in told

LEMMA ToldStep ==
  ASSUME TypeOK, OnlyWhenTold, [Next]_vars
  PROVE  OnlyWhenTold'
<1> USE DEF OnlyWhenTold, TypeOK
<1>1. CASE Run
  <2>1. clk'.iword = clk.iword
    BY <1>1 DEF Run, BaseTick
  <2> QED
    BY <1>1, <2>1 DEF Run
<1>2. ASSUME NEW k \in Key, KeyDown(k) \/ KeyUp(k) PROVE OnlyWhenTold'
  <2>1. kbd'.imsg = kbd.imsg
    BY <1>2 DEF KeyDown, KeyUp, KDown, KUp
  <2> QED
    BY <1>2, <2>1 DEF KeyDown, KeyUp
<1>3. CASE Reset
  <2>1. ClockOff.iword = 0 /\ KeyboardOff.imsg = 0
    BY DEF ClockOff, KeyboardOff
  <2>2. clk'.iword # 0 => clk' = clk /\ "clock" \notin OnBus
    BY <1>3, <2>1 DEF Reset, ResetDevices
  <2>3. kbd'.imsg # 0 => kbd' = kbd /\ "keyboard" \notin OnBus
    BY <1>3, <2>1 DEF Reset, ResetDevices
  <2>4. told' = told \ OnBus
    BY <1>3 DEF Reset
  <2> QED
    BY <2>2, <2>3, <2>4
<1>4. ASSUME NEW n \in 0 .. MaxPlace, Hwi(n) PROVE OnlyWhenTold'
  <2>1. CASE ClockTime \/ \E r \in Rate : ClockRate(r)
    <3>1. clk'.iword = clk.iword /\ kbd' = kbd /\ told' = told
      BY <2>1 DEF ClockTime, ClockRate, ReadTime, SetRate
    <3> QED
      BY <3>1
  <2>2. CASE KeyboardClear \/ KeyboardGet
    <3>1. kbd'.imsg = kbd.imsg /\ clk' = clk /\ told' = told
      BY <2>2 DEF KeyboardClear, KeyboardGet, Clear, Get
    <3> QED
      BY <3>1
  <2>3. CASE \E m \in Message : ClockMessage(m)
    BY <2>3 DEF ClockMessage
  <2>4. CASE \E m \in Message : KeyboardMessage(m)
    BY <2>4 DEF KeyboardMessage
  <2> QED
    BY <1>4, <2>1, <2>2, <2>3, <2>4 DEF Hwi
<1>5. CASE UNCHANGED <<clk, kbd, told>>
  BY <1>5
<1> QED
  BY <1>1, <1>2, <1>3, <1>4, <1>5
     DEF Next, Session, TimePasses, Attach, Deattach, vars, hwVars

(* A device never interrupts on account of what the program before the     *)
(* last reset wanted.                                                      *)
THEOREM Quiet == Spec => QuietAfterReset
<1>1. Init => OnlyWhenTold
  BY DEF Init, OnlyWhenTold, ClockOff, KeyboardOff
<1>2. TypeOK /\ OnlyWhenTold /\ [Next]_vars => [sent' # << >> => sent'[1] \in told]_vars
  <2> SUFFICES ASSUME TypeOK, OnlyWhenTold, Next, sent' # << >> PROVE sent'[1] \in told
    OBVIOUS
  <2> USE DEF OnlyWhenTold, Signal
  <2>1. CASE Run
    BY <2>1 DEF Run
  <2>2. ASSUME NEW k \in Key, KeyDown(k) \/ KeyUp(k) PROVE sent'[1] \in told
    BY <2>2 DEF KeyDown, KeyUp
  <2>3. ~(TimePasses \/ Reset \/ \E n \in 0 .. MaxPlace : Hwi(n))
    BY DEF TimePasses, Reset, Hwi
  <2>4. ~\E d \in Device, p \in 1 .. MaxPlace : Attach(d, p) \/ Deattach(d)
    BY DEF Attach, Deattach
  <2> QED
    BY <2>1, <2>2, <2>3, <2>4 DEF Next, Session, Deattach
<1>3. TypeOK /\ OnlyWhenTold /\ [Next]_vars => OnlyWhenTold'
  BY ToldStep
<1> QED
  BY <1>1, <1>2, <1>3, TypeCorrect, PTL DEF Spec, QuietAfterReset

-----------------------------------------------------------------------------
(* The accumulator counts the base ticks since the last tick and never     *)
(* passes the rate, when it can reach it.                                  *)
InStep ==
    TimeLimit > 1 /\ clk.rate < AccLimit => elapsed = clk.raccum /\ clk.raccum <= clk.rate

LEMMA ModNext ==
  ASSUME NEW c \in Nat, NEW b \in Nat, c < b, b > 1
  PROVE  (c + 1) % b # c
<1>1. CASE c + 1 < b
  <2>1. (c + 1) % b = c + 1
    BY <1>1
  <2> QED
    BY <2>1
<1>2. CASE c + 1 = b
  <2>1. (c + 1) % b = 0
    BY <1>2
  <2> QED
    BY <1>2, <2>1
<1> QED
  BY <1>1, <1>2

LEMMA RunInStep ==
  ASSUME TypeOK, InStep, Run
  PROVE  InStep' /\ (clk'.ctime # clk.ctime => elapsed = clk.rate)
<1>1. /\ clk \in ClockType /\ clk.rate \in Nat /\ clk.raccum \in 0 .. AccLimit - 1
      /\ clk.ctime \in Nat /\ clk.ctime < TimeLimit
      /\ AccLimit \in Nat \ {0} /\ TimeLimit \in Nat \ {0} /\ elapsed \in Nat
  <2>1. clk \in ClockType /\ elapsed \in Nat
    BY DEF TypeOK, ClockType
  <2>2. clk.raccum \in 0 .. AccLimit - 1 /\ clk.ctime \in 0 .. TimeLimit - 1
    BY <2>1 DEF ClockType
  <2>3. clk.rate \in Rate \cup {0}
    BY <2>1 DEF ClockType
  <2>4. clk.rate \in Nat
    <3>1. \A r \in Rate \cup {0} : r \in Nat
      BY RateAssumption DEF RateAssumption
    <3> QED
      BY <2>3, <3>1
  <2> QED
    BY <2>1, <2>2, <2>4, LimitAssumption
<1>2. clk' = BaseTick(clk)
  BY DEF Run
<1>3. CASE IsTick(clk)
  <2>1. clk' = [clk EXCEPT !.raccum = 0, !.ctime = (@ + 1) % TimeLimit]
    BY <1>2, <1>3 DEF BaseTick
  <2>2. clk'.raccum = 0 /\ clk'.rate = clk.rate /\ clk'.ctime = (clk.ctime + 1) % TimeLimit
    BY <1>1, <2>1 DEF ClockType
  <2>3. clk.rate < AccLimit /\ ~(clk.raccum < clk.rate)
    BY <1>1, <1>3 DEF IsTick
  <2>4. CASE TimeLimit > 1
    <3>1. clk'.ctime # clk.ctime /\ elapsed = clk.raccum /\ clk.raccum <= clk.rate
      BY <1>1, <2>2, <2>3, <2>4, ModNext DEF InStep
    <3>2. elapsed' = 0 /\ elapsed = clk.rate
      BY <1>1, <2>3, <3>1 DEF Run
    <3> QED
      BY <1>1, <2>2, <3>2 DEF InStep
  <2>5. CASE TimeLimit = 1
    <3>1. (clk.ctime + 1) % TimeLimit \in 0 .. TimeLimit - 1
      <4>1. clk.ctime + 1 \in Nat /\ TimeLimit \in Nat \ {0}
        BY <1>1
      <4> QED
        BY <4>1, ModRange
    <3>2. clk'.ctime = clk.ctime
      BY <1>1, <2>2, <2>5, <3>1
    <3> QED
      BY <2>5, <3>2 DEF InStep
  <2> QED
    BY <1>1, <2>4, <2>5
<1>4. CASE ~IsTick(clk)
  <2>1. clk' = [clk EXCEPT !.raccum = (@ + 1) % AccLimit]
    BY <1>2, <1>4 DEF BaseTick
  <2>2. /\ clk'.raccum = (clk.raccum + 1) % AccLimit /\ clk'.rate = clk.rate
        /\ clk'.ctime = clk.ctime
    BY <1>1, <2>1 DEF ClockType
  <2>3. clk.raccum < clk.rate
    BY <1>4 DEF IsTick
  <2>4. ASSUME TimeLimit > 1, clk.rate < AccLimit
        PROVE  elapsed' = clk'.raccum /\ clk'.raccum <= clk'.rate
    <3>1. elapsed = clk.raccum /\ clk.raccum + 1 < AccLimit
      BY <1>1, <2>3, <2>4 DEF InStep
    <3>2. (clk.raccum + 1) % AccLimit = clk.raccum + 1
      BY <1>1, <3>1
    <3>3. elapsed' = elapsed + 1
      BY <1>1, <2>2, <3>1 DEF Run
    <3> QED
      BY <1>1, <2>2, <2>3, <3>1, <3>2, <3>3
  <2> QED
    BY <2>2, <2>4 DEF InStep
<1> QED
  BY <1>3, <1>4

(* The clock ticks once every rate + 1 base ticks, and never when the rate *)
(* is one its accumulator cannot reach.                                    *)
THEOREM Period == Spec => EveryPeriod
<1> USE RateAssumption, LimitAssumption
<1>1. Init => InStep
  BY DEF Init, InStep, ClockOff
<1>2. TypeOK /\ InStep /\ [Next]_vars => InStep'
  <2> SUFFICES ASSUME TypeOK, InStep, [Next]_vars PROVE InStep'
    OBVIOUS
  <2>1. CASE Run
    BY <2>1, RunInStep
  <2>2. CASE Reset
    <3>1. ClockOff.raccum = 0 /\ ClockOff.rate = 0
      BY DEF ClockOff
    <3>2. \/ clk' = ClockOff /\ elapsed' = 0
          \/ clk' = clk /\ elapsed' = elapsed
      BY <2>2 DEF Reset, ResetDevices
    <3> QED
      BY <3>1, <3>2 DEF InStep
  <2>3. ASSUME NEW n \in 0 .. MaxPlace, Hwi(n) PROVE InStep'
    <3>1. ASSUME NEW r \in Rate, ClockRate(r) PROVE InStep'
      <4>1. clk'.raccum = 0 /\ clk'.rate = r /\ elapsed' = 0 /\ r \in Nat
        BY <3>1 DEF ClockRate, SetRate, TypeOK
      <4> QED
        BY <4>1 DEF InStep
    <3>2. CASE ClockTime \/ \E m \in Message : ClockMessage(m)
      <4>1. clk'.raccum = clk.raccum /\ clk'.rate = clk.rate /\ elapsed' = elapsed
        BY <3>2 DEF ClockTime, ClockMessage, ReadTime, SetMessage, TypeOK
      <4> QED
        BY <4>1 DEF InStep
    <3>3. CASE KeyboardClear \/ KeyboardGet \/ \E m \in Message : KeyboardMessage(m)
      BY <3>3 DEF KeyboardClear, KeyboardGet, KeyboardMessage, InStep
    <3> QED
      BY <2>3, <3>1, <3>2, <3>3 DEF Hwi
  <2>4. CASE UNCHANGED <<clk, elapsed>>
    BY <2>4 DEF InStep
  <2> QED
    BY <2>1, <2>2, <2>3, <2>4
       DEF Next, Session, TimePasses, KeyDown, KeyUp, Attach, Deattach, vars, hwVars
<1>3. TypeOK /\ InStep /\ [Next]_vars
        => [Run /\ clk'.ctime # clk.ctime => elapsed = clk.rate]_vars
  BY RunInStep
<1> QED
  BY <1>1, <1>2, <1>3, TypeCorrect, PTL DEF Spec, EveryPeriod

=============================================================================
