----------------------------- MODULE DeviceTree -----------------------------
(***************************************************************************)
(* The links between the objects of the emulator (object.cpp): isi_attach  *)
(* and isi_deattach, and who refuses what (QueryAttach).  Every device has *)
(* one point upwards and a table of points downwards, and each end of a    *)
(* link stores the other device and its point there.                       *)
(***************************************************************************)
EXTENDS Integers, Sequences, FiniteSetsExt

CONSTANTS
    Cpu, Bus, Floppy, Disk, Hic,    \* the devices, by who refuses what
    Card,                           \* any other device: refuses nothing
    Memory,                         \* 16-bit memories
    MaxIndex,                       \* bound: highest point of a table
    NULL,
    Garbage     \* the pointer read from a table entry never written

APPEND == -1
INSERTSTART == -2
UP == -3

Dev == UNION {Cpu, Bus, Floppy, Disk, Hic, Card}
Index == 0 .. MaxIndex
At == {APPEND, INSERTSTART, UP} \cup Index

ASSUME MaxIndexAssumption == MaxIndex \in Nat
ASSUME NullAssumption == NULL \notin Dev \cup Memory /\ Garbage \notin Dev \cup {NULL}

Empty == [t |-> NULL, i |-> -1]
Unwritten == [t |-> Garbage, i |-> -1]

VARIABLES
    node,   \* [up, table, count]: updev and busdev; the table's length is limit
    mem     \* the memory of each device, or NULL

vars == <<node, mem>>

Init ==
    /\ node = [d \in Dev |-> [up |-> Empty, table |-> << >>, count |-> 0]]
    /\ mem = [d \in Dev |-> NULL]

-----------------------------------------------------------------------------
(* get_devi; a point below 0, UP included, is never found.                 *)
Entry(n, p) == IF p \in 0 .. n.count - 1 THEN n.table[p + 1] ELSE Empty
InUse(n, p) == p >= 0 /\ Entry(n, p).t # NULL

LinkAt(n, p) == IF p = UP THEN n.up ELSE Entry(n, p)

(* isi_indexresize: the first entry is cleared, those realloc adds are not *)
(* written.                                                                *)
Grown(n, size) ==
    LET table == IF n.table = << >> THEN <<Empty>> ELSE n.table
    IN  {[n EXCEPT !.table = table \o new] :
            new \in [1 .. size - Len(table) -> {Empty, Unwritten}]}

Wrote(n, x, link) ==
    [n EXCEPT !.table[x + 1] = link, !.count = IF x + 1 > @ THEN x + 1 ELSE @]

(* isi_setindex_dev, isi_appendindex_dev, which doubles a full table, and  *)
(* isi_insertindex_dev, which is not supported; its caller goes on, and    *)
(* gives the first entry, whatever it is, the index meant for the new one. *)
SetShort(n, x, link) == {Wrote(m, x, link) : m \in Grown(n, x)}
Set(n, x, link) == {Wrote(m, x, link) : m \in Grown(n, x + 1)}
Add(n, link) ==
    {Wrote(m, n.count, link) :
        m \in Grown(n, IF n.count = Len(n.table) THEN 2 * n.count ELSE Len(n.table))}
Insert(n, link) ==
    IF link.i >= 0 /\ n.table # << >> /\ n.table[1].t \in Dev
      THEN {[n EXCEPT !.table[1].i = link.i]} ELSE {n}

Put(n, p, link) ==
    CASE p = UP -> {[n EXCEPT !.up = link]}
      [] p = APPEND -> Add(n, link)
      [] p = INSERTSTART -> {n}
      [] OTHER -> Set(n, p, link)

(* The point a link made at p ends up at, as the other end is told.        *)
ActualAfter(n, p) ==
    CASE p = APPEND -> n.count + 1 [] p = INSERTSTART -> 0 [] OTHER -> p
Actual(n, p) == CASE p = APPEND -> n.count [] p = INSERTSTART -> 0 [] OTHER -> p

(* QueryAttach                                                             *)
Accepts(d, p, other) ==
    /\ d \in Cpu => p = UP
    /\ d \in Bus => p # UP /\ (node[d].count < 1 => other \in Cpu)
    /\ d \in Floppy => p = UP \/ other \in Disk

AcceptsMemory(d, p) == d \notin Hic /\ (d \in Floppy => p = UP)

-----------------------------------------------------------------------------
(* A point already in use is refused, but UP is never found to be in use.  *)
(* The other device's side is written first, with the index its end will   *)
(* have.  An object appended to its own table is left out: the end to be   *)
(* corrected may then be in the table that realloc has just freed; so is   *)
(* the insertion in a table that does not exist yet (a NULL dereference).  *)
Link(item, p, dev, q) ==
    LET far == [t |-> item, i |-> IF p = APPEND THEN node[item].count ELSE p]
        near == [t |-> dev, i |-> Actual(node[dev], q)]
    IN  \E n \in IF q = INSERTSTART /\ p = APPEND THEN Insert(node[dev], far)
                                                  ELSE Put(node[dev], q, far) :
            LET with == [node EXCEPT ![dev] = n]
            IN  \E m \in Put(with[item], p, near) : node' = [with EXCEPT ![item] = m]

MemAfter(item, dev, q) ==
    IF q = UP /\ mem[item] # NULL THEN [mem EXCEPT ![dev] = mem[item]] ELSE mem

Attach(item, p, dev, q) ==
    /\ Accepts(item, p, dev) /\ Accepts(dev, q, item)
    /\ ~InUse(node[item], p) /\ ~InUse(node[dev], q)
    /\ item = dev => p # APPEND \/ q = UP
    /\ q = INSERTSTART /\ p = APPEND => node[dev].table # << >>
    /\ p = APPEND => node[item].count <= MaxIndex
    /\ q = APPEND => node[dev].count <= MaxIndex
    /\ Link(item, p, dev, q)
    /\ mem' = MemAfter(item, dev, q)

(* Memory is not linked; a bus hands it on (isi_update_busmem).            *)
OnBus(b) == {node[b].table[k].t : k \in 1 .. node[b].count} \ {NULL}

AttachMemoryAlone(item, p, m) ==
    /\ AcceptsMemory(item, p)
    /\ mem' = [mem EXCEPT ![item] = m]
    /\ UNCHANGED node
AttachMemory(item, p, m) ==
    /\ AcceptsMemory(item, p)
    /\ item \in Bus => Garbage \notin OnBus(item)
    /\ mem' = [d \in Dev |-> IF d = item \/ (item \in Bus /\ d \in OnBus(item))
                               THEN m ELSE mem[d]]
    /\ UNCHANGED node

(* Empty entries at the end of a table are dropped, not those between.     *)
Trimmed(n) ==
    [n EXCEPT !.count = Max({0} \cup {k \in 1 .. @ : n.table[k].t # NULL})]

Cleared(n, p) ==
    IF p = UP THEN [n EXCEPT !.up = Empty]
              ELSE Trimmed([n EXCEPT !.table[p + 1] = Empty])

(* The far end is the one the near end has stored; whether it still leads  *)
(* back here is not asked.  Points with no device, or with Garbage, below  *)
(* UP are dereferenced: the program does not go on.                        *)
DeattachNearOnly(item, p) ==
    /\ LinkAt(node[item], p).t \in Dev
    /\ node' = [node EXCEPT ![item] = Cleared(@, p)]
    /\ UNCHANGED mem
Deattach(item, p) ==
    LET link == LinkAt(node[item], p)
        near == [node EXCEPT ![item] = Cleared(@, p)]
    IN  /\ p = UP \/ p >= 0
        /\ link.t \in Dev
        /\ node' = IF link.i = UP \/ InUse(near[link.t], link.i)
                     THEN [near EXCEPT ![link.t] = Cleared(@, link.i)]
                     ELSE near
        /\ UNCHANGED mem

Operation ==
    \/ \E item, dev \in Dev, p, q \in At : Attach(item, p, dev, q)
    \/ \E item \in Dev, p \in At, m \in Memory : AttachMemory(item, p, m)
    \/ \E item \in Dev, p \in At : Deattach(item, p)

Spec == Init /\ [][Operation]_vars

-----------------------------------------------------------------------------
(* Clients that keep to what main.cpp's own machine does: they insert      *)
(* nothing, attach no point twice, hang devices on a bus by their UP point *)
(* and give memory to buses.                                               *)
Free(d, p) == p # INSERTSTART /\ (p = UP => node[d].up = Empty)

CarefulAttach(item, p, dev, q) ==
    /\ Free(item, p) /\ Free(dev, q)
    /\ <<item, Actual(node[item], p)>> # <<dev, Actual(node[dev], q)>>
    /\ dev \notin Bus /\ (item \in Bus => q = UP)
    /\ Attach(item, p, dev, q)

Careful ==
    \/ \E item, dev \in Dev, p, q \in At : CarefulAttach(item, p, dev, q)
    \/ \E item \in Bus, p \in At, m \in Memory : AttachMemory(item, p, m)
    \/ \E item \in Dev, p \in At : Deattach(item, p)

CarefulSpec == Init /\ [][Careful]_vars

-----------------------------------------------------------------------------
Pointer == [t : Dev \cup {NULL, Garbage}, i : Int]

(* The last entry a table counts is in use: a CPU that asks for its number *)
(* of devices is told of the last one, and of none beyond it.              *)
EndsInUse == \A d \in Dev : node[d].count > 0 => InUse(node[d], node[d].count - 1)

TypeOK ==
    /\ \A d \in Dev :
        /\ node[d].up \in Pointer
        /\ node[d].table \in Seq(Pointer)
        /\ node[d].count \in 0 .. Len(node[d].table)
    /\ EndsInUse
    /\ mem \in [Dev -> Memory \cup {NULL}]

Point == Dev \X ({UP} \cup Index)
At2(p) == LinkAt(node[p[1]], p[2])

(* The two ends of a link name each other, so that no device is reached by *)
(* two points, a message is delivered with the index its receiver knows    *)
(* the sender by, and a deattach at either end frees exactly the other.    *)
Mutual ==
    \A p \in Point : At2(p).t \in Dev =>
        LET far == <<At2(p).t, At2(p).i>>
        IN  far \in Point /\ At2(far) = [t |-> p[1], i |-> p[2]]

(* All devices on a bus with memory, the CPU included, share it, in        *)
(* whatever order memory and devices came and went.                        *)
MemoryShared ==
    \A b \in Bus : mem[b] # NULL => \A d \in OnBus(b) \ {Garbage} : mem[d] = mem[b]

(* Each point is the far end of one link at most.                          *)
AttachedOnce ==
    \A p, q \in Point : At2(p).t \in Dev /\ At2(p) = At2(q) => p = q

(* Links are cables (see Cabling).                                         *)
PeerOf(p) == IF At2(p).t \in Dev THEN <<At2(p).t, At2(p).i>> ELSE << >>
Cables == INSTANCE Cabling WITH NoPoint <- << >>, peer <- [p \in Point |-> PeerOf(p)]
IsCabling == Cables!Spec
=============================================================================
