------------------------------ MODULE IntQueue ------------------------------
(***************************************************************************)
(* What the interrupt unit of the DCPU promises to programs and devices,   *)
(* without the instruction loop that implements it: messages are accepted  *)
(* into a bounded queue while a handler is installed, handed one at a time *)
(* to the handler from the front of the queue, held back while interrupts  *)
(* are masked, and thrown away only when the handler is removed.           *)
(*                                                                         *)
(* InOrder is the strength of the promise.  TRUE is a first-in first-out   *)
(* queue.  FALSE is what remains when only the two oldest messages keep    *)
(* their place: the number of pending messages is exact and the newest is  *)
(* never lost, but when more than two are pending a service may put later  *)
(* messages in the place of earlier ones.                                  *)
(***************************************************************************)
EXTENDS Naturals, Sequences

CONSTANTS
    Word,       \* the messages
    QLimit,     \* how many may be pending
    InOrder

VARIABLES
    armed,      \* a handler is installed
    masked,     \* services are held back
    pend,       \* the pending messages, oldest first
    a           \* the register a handler finds its message in

vars == <<armed, masked, pend, a>>

Init == armed = FALSE /\ masked = FALSE /\ pend = << >> /\ a = 0

(* What may stay in the queue q after its front was served.                *)
Rest(q) ==
    IF InOrder \/ Len(q) <= 2
      THEN {Tail(q)}
      ELSE {r \in [1 .. Len(q) - 1 -> {q[i] : i \in 2 .. Len(q)}] :
                r[Len(q) - 1] = q[Len(q)]}

(* The queues that one new message can make of the present one.            *)
Arrivals ==
    IF armed /\ Len(pend) < QLimit THEN {Append(pend, m) : m \in Word} ELSE {}

(* A message arrives, or a program masks or unmasks, or neither.           *)
Accept ==
    /\ pend' \in {pend} \cup Arrivals
    /\ masked' \in BOOLEAN
    /\ a' \in Word
    /\ UNCHANGED armed

(* The front of q is handed to the handler.                                *)
ServeFrom(q) ==
    /\ q # << >>
    /\ pend' \in Rest(q)
    /\ a' = q[1]
    /\ masked' = TRUE
    /\ UNCHANGED armed

(* A pending message may be served when the program unmasks; one that only *)
(* just arrived is held back if interrupts were masked.                    *)
Serve == ServeFrom(pend) \/ (~masked /\ \E q \in Arrivals : ServeFrom(q))

Install == armed' = TRUE /\ a' \in Word /\ UNCHANGED <<masked, pend>>

(* Removing the handler, or a reset, is the only way to lose what is       *)
(* pending.                                                                *)
Remove ==
    /\ armed' = FALSE
    /\ pend' = << >>
    /\ masked' \in {masked, FALSE}
    /\ a' \in Word

Next == Accept \/ Serve \/ Install \/ Remove

Spec == Init /\ [][Next]_vars
=============================================================================
