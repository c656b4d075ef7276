----------------------------- MODULE Backplane ------------------------------
(***************************************************************************)
(* The hardware bus of a DCPU (dcpuhw.cpp) with a clock and a keyboard on  *)
(* it.  Requests of the program reach a device by its number; interrupts   *)
(* of the devices reach the CPU; a reset of the CPU resets the devices     *)
(* that are attached and tells the program how many there are (dcpu.cpp).  *)
(*                                                                         *)
(* Sessions press keys, attach and deattach devices at any time; the CPU   *)
(* stays entry 0 of the bus and is not in the table here.  What the CPU    *)
(* does with an interrupt is the matter of Dcpu.                           *)
(***************************************************************************)
EXTENDS Clock, Keyboard, FiniteSets

CONSTANTS
    Rate,       \* rates the program sets
    Message,    \* words the program wants to be interrupted with, and 0
    MaxDue,     \* bound: base ticks the clock may be behind
    MaxPlace    \* bound: places of the bus behind the CPU

ASSUME RateAssumption == Rate \subseteq Nat
ASSUME MessageAssumption == 0 \in Message /\ Message \subseteq Nat
ASSUME DueAssumption == MaxDue \in Nat
ASSUME PlaceAssumption == MaxPlace \in Nat

Device == {"clock", "keyboard"}
NoDevice == "none"

VARIABLES
    table,      \* busdev.table behind the CPU, with gaps
    hwcount,    \* what HWN answers
    clk,        \* Clock_rvstate
    kbd,        \* LKBD
    due,        \* base ticks between the clock's nrun and now
    sent,       \* <<device, message>> sent to the CPU in the last step, or nothing
    held,       \* keys that are down
    drained,    \* the program asks for interrupts and has found the buffer empty
                \* since the last one
    elapsed,    \* base ticks since the last tick or since the rate was set
    told,       \* devices the program gave a message to since their reset
    counted     \* devices attached at the last reset and ever since

hwVars == <<table, hwcount, clk, kbd, due, sent>>
vars == <<hwVars, held, drained, elapsed, told, counted>>

Init ==
    /\ table = << >>
    /\ hwcount = 0
    /\ clk = ClockOff
    /\ kbd = KeyboardOff
    /\ due = 0
    /\ sent = << >>
    /\ held = {}
    /\ drained = FALSE
    /\ elapsed = 0
    /\ told = {}
    /\ counted = {}

OnBus == {table[i] : i \in DOMAIN table} \ {NoDevice}

(* isi_message_dev to the UP point: a device without a bus is not heard.   *)
Signal(d, m) == IF m # 0 /\ d \in OnBus THEN <<d, m>> ELSE << >>

-----------------------------------------------------------------------------
(* The program's requests (HWI) to device number n, which is entry n + 1   *)
(* of the bus.  Requests to a number without a device, requests a device   *)
(* does not know, and HWQ change nothing.                                  *)

IsAt(n, d) == n + 1 \in DOMAIN table /\ table[n + 1] = d

ClockRate(r) ==
    /\ clk' = SetRate(clk, r)
    /\ due' = IF clk.rate = 0 /\ r # 0 THEN 0 ELSE due
    /\ elapsed' = 0
    /\ UNCHANGED <<kbd, drained, told>>

ClockTime ==
    /\ clk' = ReadTime(clk)
    /\ UNCHANGED <<kbd, due, drained, elapsed, told>>

ClockMessage(m) ==
    /\ clk' = SetMessage(clk, m)
    /\ told' = told \cup {"clock"}
    /\ UNCHANGED <<kbd, due, drained, elapsed>>

KeyboardClear ==
    /\ kbd' = Clear(kbd)
    /\ UNCHANGED <<clk, due, drained, elapsed, told>>

KeyboardGet ==
    /\ kbd' = Get(kbd)
    /\ drained' = (drained \/ (kbd.keybf = << >> /\ kbd.imsg # 0))
    /\ UNCHANGED <<clk, due, elapsed, told>>

KeyboardMessage(m) ==
    /\ kbd' = SetInterrupt(kbd, m)
    /\ drained' = (drained /\ m # 0)
    /\ told' = told \cup {"keyboard"}
    /\ UNCHANGED <<clk, due, elapsed>>

Hwi(n) ==
    /\ \/ IsAt(n, "clock") /\ (ClockTime \/ \E r \in Rate : ClockRate(r)
                                         \/ \E m \in Message : ClockMessage(m))
       \/ IsAt(n, "keyboard") /\ (KeyboardClear \/ KeyboardGet
                                         \/ \E m \in Message : KeyboardMessage(m))
    /\ sent' = << >>
    /\ UNCHANGED <<table, hwcount, held, counted>>

-----------------------------------------------------------------------------
(* The bus runs its devices after each turn of the CPU.  The clock makes   *)
(* one base tick a turn, if one is due; the keyboard has nothing to run.   *)
Tick == clk.rate # 0 /\ due > 0 /\ "clock" \in OnBus

Run ==
    /\ Tick
    /\ clk' = BaseTick(clk)
    /\ due' = due - 1
    /\ elapsed' = IF clk'.ctime # clk.ctime THEN 0
                  ELSE IF elapsed = AccLimit THEN elapsed ELSE elapsed + 1
    /\ sent' = IF IsTick(clk) THEN Signal("clock", clk.iword) ELSE << >>
    /\ UNCHANGED <<table, hwcount, kbd, held, drained, told, counted>>

TimePasses ==
    /\ due < MaxDue
    /\ due' = due + 1
    /\ sent' = << >>
    /\ UNCHANGED <<table, hwcount, clk, kbd, held, drained, elapsed, told, counted>>

-----------------------------------------------------------------------------
(* Clients: a key that is held may repeat.                                 *)
KeyDownQuietly(k) ==
    /\ kbd' = KDown(kbd, k)
    /\ sent' = IF kbd.keybf = << >> THEN << >> ELSE Signal("keyboard", kbd.imsg)
    /\ held' = held \cup {k}
    /\ drained' = (drained /\ sent' = << >>)
    /\ UNCHANGED <<table, hwcount, clk, due, elapsed, told, counted>>
KeyDown(k) ==
    /\ kbd' = KDown(kbd, k)
    /\ sent' = Signal("keyboard", kbd.imsg)
    /\ held' = held \cup {k}
    /\ drained' = (drained /\ sent' = << >>)
    /\ UNCHANGED <<table, hwcount, clk, due, elapsed, told, counted>>

KeyUp(k) ==
    /\ kbd' = KUp(kbd, k)
    /\ sent' = Signal("keyboard", kbd.imsg)
    /\ held' = held \ {k}
    /\ drained' = (drained /\ sent' = << >>)
    /\ UNCHANGED <<table, hwcount, clk, due, elapsed, told, counted>>

(* isi_attach at the end of the bus or at an empty place, isi_deattach: a  *)
(* device keeps its state, and the place in front of others is left empty. *)
Attach(d, p) ==
    /\ d \notin OnBus
    /\ p <= MaxPlace
    /\ \/ p = Len(table) + 1 /\ table' = Append(table, d)
       \/ IsAt(p - 1, NoDevice) /\ table' = [table EXCEPT ![p] = d]
    /\ sent' = << >>
    /\ UNCHANGED <<hwcount, clk, kbd, due, held, drained, elapsed, told, counted>>

Emptied(d) == [i \in DOMAIN table |-> IF table[i] = d THEN NoDevice ELSE table[i]]
Used(t) == {0} \cup {i \in DOMAIN t : t[i] # NoDevice}
TrimmedAll(t) == SelectSeq(t, LAMBDA d : d # NoDevice)
Trimmed(t) == SubSeq(t, 1, CHOOSE n \in Used(t) : \A i \in Used(t) : i <= n)

Deattach(d) ==
    /\ d \in OnBus
    /\ table' = Trimmed(Emptied(d))
    /\ sent' = << >>
    /\ drained' = (drained /\ d # "keyboard")
    /\ counted' = counted \ {d}
    /\ UNCHANGED <<hwcount, clk, kbd, due, held, elapsed, told>>

-----------------------------------------------------------------------------
(* DCPU16::Reset, by a session that starts, resets or stops the CPU: the   *)
(* bus resets all devices and counts its entries.                          *)
ResetBehindFirst == {table[i] : i \in DOMAIN table \ {1}}
ResetDevices == OnBus
CountDevices == Cardinality(OnBus)
Count == Len(table)

Reset ==
    /\ hwcount' = Count
    /\ clk' = IF "clock" \in ResetDevices THEN ClockOff ELSE clk
    /\ kbd' = IF "keyboard" \in ResetDevices THEN KeyboardOff ELSE kbd
    /\ elapsed' = IF "clock" \in OnBus THEN 0 ELSE elapsed
    /\ drained' = FALSE
    /\ told' = told \ OnBus
    /\ counted' = OnBus
    /\ sent' = << >>
    /\ UNCHANGED <<table, due, held>>

Session ==
    \/ \E k \in Key : KeyDown(k) \/ KeyUp(k)
    \/ \E d \in Device, p \in 1 .. MaxPlace : Attach(d, p)
    \/ \E d \in Device : Deattach(d)
    \/ Reset

Next == Run \/ TimePasses \/ Session \/ \E n \in 0 .. MaxPlace : Hwi(n)

Spec == Init /\ [][Next]_vars

(* The bus is run after every turn of a CPU that was started, and time     *)
(* goes on; programs and clients need do nothing.                          *)
FairSpec == Spec /\ WF_vars(Run) /\ WF_vars(TimePasses)

-----------------------------------------------------------------------------
TypeOK ==
    /\ table \in Seq(Device \cup {NoDevice})
    /\ hwcount \in Nat
    /\ clk \in [rate : Rate \cup {0}, raccum : 0 .. AccLimit - 1, iword : Message,
                ctime : 0 .. TimeLimit - 1]
    /\ kbd \in [imsg : Message, keybf : Seq(Key), keydown : [Slot -> Key \cup {0}]]
    /\ due \in 0 .. MaxDue
    /\ sent \in {<< >>} \cup (Device \X Message)
    /\ held \in SUBSET Key
    /\ drained \in BOOLEAN
    /\ elapsed \in Nat
    /\ told \in SUBSET Device
    /\ counted \in SUBSET Device

(* No key is reported to be down that is not, however often it repeated    *)
(* and whatever was pressed, lost from the table or reset meanwhile.       *)
NoStuckKeys == \A k \in Key : Check(kbd, k) => k \in held

(* A program that has read all keys, and asked to be interrupted, misses   *)
(* none: as long as it was not interrupted there is nothing to read.       *)
NothingMissed == drained => kbd.keybf = << >>

(* A device that was there at the reset and was not taken off since is     *)
(* among those the program was told of, gaps in front of it or not.        *)
CountedIsReachable ==
    \A d \in counted : \E n \in 0 .. hwcount - 1 : IsAt(n, d)

(* A device keeps its number while it is attached, whatever is attached    *)
(* and taken off beside it: the program asks for numbers only once.        *)
KeepsItsNumber ==
    [][\A d \in Device : \A i \in DOMAIN table :
          table[i] = d /\ d \in OnBus' => i \in DOMAIN table' /\ table'[i] = d]_vars

(* A device never interrupts on account of what the program before the     *)
(* last reset wanted.                                                      *)
QuietAfterReset == [][sent' # << >> => sent'[1] \in told]_vars

(* The clock ticks once every rate + 1 base ticks.                         *)
EveryPeriod == [][Run /\ clk'.ctime # clk.ctime => elapsed = clk.rate]_vars

(* A clock that is set to a rate its accumulator can reach, and not set    *)
(* again, ticks for ever.                                                  *)
Set == \E n \in 0 .. MaxPlace : Hwi(n) /\ \E r \in Rate : ClockRate(r)
ClockTicks ==
    <>[](clk.rate \in 1 .. AccLimit - 1 /\ "clock" \in OnBus) /\ <>[][~Set]_vars
        => []<><<Run /\ IsTick(clk)>>_vars
=============================================================================
