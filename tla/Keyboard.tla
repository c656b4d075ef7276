------------------------------ MODULE Keyboard ------------------------------
(***************************************************************************)
(* The generic keyboard (hardware/keyb.cpp): a buffer of keys not yet read *)
(* and a table of the keys that are down.  Keys are bytes other than zero, *)
(* which is an empty place.                                                *)
(***************************************************************************)
EXTENDS Naturals, Sequences

CONSTANTS
    Key,        \* keys of the clients' keyboards
    KeySlots    \* places of keybf and of keydown (8)

ASSUME KeyAssumption == Key \subseteq 1 .. 255
ASSUME SlotsAssumption == KeySlots \in Nat \ {0}

Slot == 1 .. KeySlots
NoKeys == [s \in Slot |-> 0]
KeyboardOff == [imsg |-> 0, keybf |-> << >>, keydown |-> NoKeys]

Vacant(kbd) == {s \in Slot : kbd.keydown[s] = 0}

(* A key goes to the first empty place of the table; when there is none it *)
(* takes that of whatever is in the first.                                 *)
Place(kbd) ==
    IF Vacant(kbd) = {} THEN 1
    ELSE CHOOSE s \in Vacant(kbd) : \A t \in Vacant(kbd) : s <= t

(* A full buffer loses its oldest key.                                     *)
Buffered(q, k) == Append(IF Len(q) < KeySlots THEN q ELSE Tail(q), k)

KDown(kbd, k) ==
    [kbd EXCEPT !.keydown[Place(kbd)] = k, !.keybf = Buffered(@, k)]

KUpFirst(kbd, k) ==
    [kbd EXCEPT !.keydown = [s \in Slot |->
        IF @[s] = k /\ \A t \in Slot : t < s => @[t] # k THEN 0 ELSE @[s]]]
KUp(kbd, k) ==
    [kbd EXCEPT !.keydown = [s \in Slot |-> IF @[s] = k THEN 0 ELSE @[s]]]

(* HWI 0 *)
Clear(kbd) == [kbd EXCEPT !.keybf = << >>]

(* HWI 1 answers the oldest key, or 0 when there is none.                  *)
Get(kbd) == [kbd EXCEPT !.keybf = IF @ = << >> THEN @ ELSE Tail(@)]

(* HWI 2 *)
Check(kbd, k) == \E s \in Slot : kbd.keydown[s] = k

(* HWI 3 *)
SetInterrupt(kbd, m) == [kbd EXCEPT !.imsg = m]
=============================================================================
