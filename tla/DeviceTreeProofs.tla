-------------------------- MODULE DeviceTreeProofs --------------------------
(***************************************************************************)
(* Proofs about DeviceTree for any devices and memories and tables of any  *)
(* length: what attaching and deattaching do to the points of two devices. *)
(* IInv holds whatever clients do, CInv when they are careful.             *)
(***************************************************************************)
EXTENDS DeviceTree, DataLemmas

-----------------------------------------------------------------------------
(* One device: Node is its type, and Sound what holds of it after every    *)
(* operation of any client.                                                *)
Node == [up : Pointer, table : Seq(Pointer), count : Nat]

Sound(n) ==
    /\ n \in Node
    /\ n.count <= Len(n.table)
    /\ n.count > 0 => n.table[n.count].t # NULL

LEMMA Pointers == Empty \in Pointer /\ Unwritten \in Pointer /\ Empty.t \notin Dev /\ Unwritten.t \notin Dev
BY NullAssumption DEF Empty, Unwritten, Pointer

(* A table that grows keeps its entries, and the new ones lead nowhere.    *)
LEMMA GrownNode ==
  ASSUME NEW n \in Node, NEW size \in Int, NEW m \in Grown(n, size)
  PROVE  /\ m \in Node /\ m.up = n.up /\ m.count = n.count
         /\ Len(m.table) >= 1 /\ Len(m.table) >= size /\ Len(m.table) >= Len(n.table)
         /\ \A k \in 1 .. Len(n.table) : m.table[k] = n.table[k]
         /\ \A k \in Len(n.table) + 1 .. Len(m.table) : m.table[k].t \notin Dev
<1> DEFINE table == IF n.table = << >> THEN <<Empty>> ELSE n.table
           len == size - Len(table)
<1>1. n.table \in Seq(Pointer) /\ Len(n.table) \in Nat
  BY DEF Node
<1>2. /\ table \in Seq(Pointer) /\ Len(table) \in Nat /\ Len(table) >= 1
      /\ Len(table) >= Len(n.table)
      /\ \A k \in 1 .. Len(n.table) : table[k] = n.table[k]
      /\ \A k \in Len(n.table) + 1 .. Len(table) : table[k].t \notin Dev
  <2>1. CASE n.table = << >>
    <3>1. <<Empty>> \in Seq(Pointer) /\ Len(<<Empty>>) = 1 /\ <<Empty>>[1] = Empty /\ Len(<< >>) = 0
      BY Pointers
    <3> QED
      BY <2>1, <3>1, Pointers
  <2>2. CASE n.table # << >>
    BY <1>1, <2>2, EmptySeq
  <2> QED
    BY <2>1, <2>2
<1>3. PICK new \in [1 .. len -> {Empty, Unwritten}] : m = [n EXCEPT !.table = table \o new]
  BY DEF Grown
<1> HIDE DEF table
<1>4. /\ new \in Seq(Pointer) /\ Len(new) \in Nat /\ Len(new) >= len
      /\ \A k \in 1 .. Len(new) : new[k].t \notin Dev
  <2> DEFINE l == IF len > 0 THEN len ELSE 0
  <2>1. l \in Nat /\ l >= len /\ 1 .. len = 1 .. l
    BY <1>2
  <2>2. new \in [1 .. l -> {Empty, Unwritten}]
    BY <1>3, <2>1
  <2> HIDE DEF l, len
  <2>3. new \in [1 .. l -> Pointer] /\ \A k \in 1 .. l : new[k].t \notin Dev
    BY <2>2, Pointers
  <2>4. new \in Seq(Pointer) /\ Len(new) = l
    BY <2>1, <2>3
  <2> QED
    BY <2>1, <2>3, <2>4
<1>5. /\ table \o new \in Seq(Pointer) /\ Len(table \o new) = Len(table) + Len(new)
      /\ \A k \in 1 .. Len(table) + Len(new) :
            (table \o new)[k] = IF k <= Len(table) THEN table[k] ELSE new[k - Len(table)]
  BY <1>2, <1>4, ConcatProperties
<1>6. m \in Node /\ m.up = n.up /\ m.count = n.count /\ m.table = table \o new
  BY <1>3, <1>5 DEF Node
<1>7. Len(m.table) >= size
  BY <1>2, <1>4, <1>5, <1>6
<1>8. \A k \in 1 .. Len(n.table) : m.table[k] = n.table[k]
  BY <1>1, <1>2, <1>4, <1>5, <1>6
<1>9. ASSUME NEW k \in Len(n.table) + 1 .. Len(m.table) PROVE m.table[k].t \notin Dev
  <2>1. CASE k <= Len(table)
    BY <1>1, <1>2, <1>4, <1>5, <1>6, <2>1
  <2>2. CASE k > Len(table)
    <3>1. k - Len(table) \in 1 .. Len(new) /\ m.table[k] = new[k - Len(table)]
      BY <1>1, <1>2, <1>4, <1>5, <1>6, <2>2
    <3> QED
      BY <1>4, <3>1
  <2> QED
    BY <1>1, <1>2, <2>1, <2>2
<1> QED
  BY <1>1, <1>2, <1>4, <1>5, <1>6, <1>7, <1>8, <1>9

(* An entry that is written is counted, and no other is changed.           *)
LEMMA WroteNode ==
  ASSUME NEW n \in Node, n.count <= Len(n.table), NEW x \in Nat, x < Len(n.table),
         NEW link \in Pointer
  PROVE  LET m == Wrote(n, x, link) IN
         /\ m \in Node /\ m.up = n.up
         /\ m.count = (IF x + 1 > n.count THEN x + 1 ELSE n.count)
         /\ Len(m.table) = Len(n.table)
         /\ m.table[x + 1] = link
         /\ \A k \in 1 .. Len(n.table) : k # x + 1 => m.table[k] = n.table[k]
<1> DEFINE t == [n.table EXCEPT ![x + 1] = link]
           c == IF x + 1 > n.count THEN x + 1 ELSE n.count
<1>1. n.table \in Seq(Pointer) /\ Len(n.table) \in Nat /\ n.count \in Nat
  BY DEF Node
<1>2. t \in Seq(Pointer) /\ Len(t) = Len(n.table) /\ t[x + 1] = link
      /\ \A k \in 1 .. Len(n.table) : k # x + 1 => t[k] = n.table[k]
  BY <1>1, ExceptSeq
<1>3. c \in Nat
  BY <1>1
<1> HIDE DEF t, c
<1>4. Wrote(n, x, link) = [n EXCEPT !.table = t, !.count = c]
  BY DEF Wrote, t, c, Node
<1>5. /\ Wrote(n, x, link) \in Node /\ Wrote(n, x, link).up = n.up
      /\ Wrote(n, x, link).table = t /\ Wrote(n, x, link).count = c
  BY <1>2, <1>3, <1>4 DEF Node
<1> QED
  BY <1>2, <1>5 DEF c

-----------------------------------------------------------------------------
(* A point of a device: SameAt says that it leads where it did, if         *)
(* anywhere.  Behind the entries that are counted none leads anywhere.     *)
SameAt(n, m, z) ==
    LinkAt(n, z).t \in Dev \/ LinkAt(m, z).t \in Dev => LinkAt(m, z) = LinkAt(n, z)

Clean(n) == \A k \in n.count + 1 .. Len(n.table) : n.table[k].t \notin Dev

LEMMA LinkAtPoint ==
  ASSUME NEW n, Sound(n)
  PROVE  /\ LinkAt(n, UP) = n.up
         /\ \A z \in Nat : LinkAt(n, z) = IF z < n.count THEN n.table[z + 1] ELSE Empty
         /\ \A z \in {UP} \cup Nat : LinkAt(n, z) \in Pointer
<1>1. n.count \in Nat /\ n.up \in Pointer /\ n.table \in Seq(Pointer) /\ n.count <= Len(n.table)
  BY DEF Sound, Node
<1>2. LinkAt(n, UP) = n.up
  BY DEF LinkAt
<1>3. \A z \in Nat : LinkAt(n, z) = IF z < n.count THEN n.table[z + 1] ELSE Empty
  BY <1>1 DEF LinkAt, Entry, UP
<1>4. \A z \in Nat : z < n.count => n.table[z + 1] \in Pointer
  BY <1>1
<1> QED
  BY <1>1, <1>2, <1>3, <1>4, Pointers

LEMMA WriteAt ==
  ASSUME NEW n, Sound(n), NEW size \in Int, NEW grown \in Grown(n, size),
         NEW x \in Nat, x < Len(grown.table),
         NEW link \in Pointer, link.t \in Dev
  PROVE  LET m == Wrote(grown, x, link) IN
         /\ Sound(m)
         /\ m.count = IF x + 1 > n.count THEN x + 1 ELSE n.count
         /\ LinkAt(m, x) = link
         /\ LinkAt(m, UP) = LinkAt(n, UP)
         /\ Clean(n) => Clean(m) /\ \A z \in Nat \ {x} : SameAt(n, m, z)
<1> DEFINE m == Wrote(grown, x, link)
<1>1. /\ n \in Node /\ n.count \in Nat /\ n.table \in Seq(Pointer) /\ Len(n.table) \in Nat
      /\ n.count <= Len(n.table)
  BY DEF Sound, Node
<1>2. /\ grown \in Node /\ grown.up = n.up /\ grown.count = n.count
      /\ Len(grown.table) \in Nat /\ Len(grown.table) >= Len(n.table)
      /\ \A k \in 1 .. Len(n.table) : grown.table[k] = n.table[k]
      /\ \A k \in Len(n.table) + 1 .. Len(grown.table) : grown.table[k].t \notin Dev
  BY <1>1, GrownNode DEF Node
<1>3. /\ m \in Node /\ m.up = n.up
      /\ m.count = (IF x + 1 > n.count THEN x + 1 ELSE n.count)
      /\ Len(m.table) = Len(grown.table)
      /\ m.table[x + 1] = link
      /\ \A k \in 1 .. Len(grown.table) : k # x + 1 => m.table[k] = grown.table[k]
  BY <1>1, <1>2, WroteNode
<1> HIDE DEF m
<1>4. m.count \in Nat /\ m.count <= Len(m.table) /\ m.count > 0
  BY <1>1, <1>2, <1>3
<1>5. Sound(m)
  <2>1. CASE m.count = x + 1
    BY <1>3, <1>4, <2>1, NullAssumption DEF Sound
  <2>2. CASE m.count # x + 1
    <3>1. m.count = n.count /\ m.table[m.count] = n.table[n.count]
      BY <1>1, <1>2, <1>3, <1>4, <2>2
    <3> QED
      BY <1>1, <1>3, <1>4, <3>1 DEF Sound
  <2> QED
    BY <2>1, <2>2
<1>6. LinkAt(m, x) = link /\ LinkAt(m, UP) = LinkAt(n, UP)
  BY <1>1, <1>3, <1>5, LinkAtPoint
<1>7. ASSUME Clean(n), NEW k \in Nat, k + 1 <= Len(m.table), k # x, k >= n.count
      PROVE  m.table[k + 1].t \notin Dev
  <2>1. m.table[k + 1] = grown.table[k + 1]
    BY <1>2, <1>3, <1>7
  <2>2. CASE k + 1 <= Len(n.table)
    BY <1>1, <1>2, <1>7, <2>1, <2>2 DEF Clean
  <2>3. CASE k + 1 > Len(n.table)
    BY <1>1, <1>2, <1>3, <1>7, <2>1, <2>3
  <2> QED
    BY <1>1, <2>2, <2>3
<1>8. ASSUME Clean(n) PROVE Clean(m)
  <2> SUFFICES ASSUME NEW k \in m.count + 1 .. Len(m.table) PROVE m.table[k].t \notin Dev
    BY DEF Clean
  <2> DEFINE j == k - 1
  <2>1. j \in Nat /\ k = j + 1 /\ j + 1 <= Len(m.table) /\ j # x /\ j >= n.count
    BY <1>1, <1>2, <1>3, <1>4
  <2> HIDE DEF j
  <2> QED
    BY <1>7, <1>8, <2>1
<1>9. ASSUME Clean(n), NEW z \in Nat \ {x} PROVE SameAt(n, m, z)
  <2>1. LinkAt(n, z) = IF z < n.count THEN n.table[z + 1] ELSE Empty
    BY LinkAtPoint
  <2>2. LinkAt(m, z) = IF z < m.count THEN m.table[z + 1] ELSE Empty
    BY <1>5, LinkAtPoint
  <2>3. CASE z < n.count
    BY <1>1, <1>2, <1>3, <2>1, <2>2, <2>3 DEF SameAt
  <2>4. CASE ~(z < n.count) /\ z < m.count
    <3>1. z >= n.count /\ z + 1 <= Len(m.table)
      BY <1>1, <1>4, <2>4
    <3> QED
      BY <1>7, <1>9, <2>1, <2>2, <2>4, <3>1, Pointers DEF SameAt
  <2>5. CASE ~(z < n.count) /\ ~(z < m.count)
    BY <2>1, <2>2, <2>5 DEF SameAt
  <2> QED
    BY <2>3, <2>4, <2>5
<1> QED
  BY <1>3, <1>5, <1>6, <1>8, <1>9 DEF m

(* A link made at a point is found there, and every other point keeps its  *)
(* own.                                                                    *)
LEMMA PutAt ==
  ASSUME NEW n, Sound(n), NEW p \in {APPEND, UP} \cup Index,
         NEW link \in Pointer, link.t \in Dev, NEW m \in Put(n, p, link)
  PROVE  /\ Sound(m)
         /\ Actual(n, p) \in {UP} \cup Nat
         /\ LinkAt(m, Actual(n, p)) = link
         /\ m.count = IF p = UP \/ Actual(n, p) < n.count THEN n.count ELSE Actual(n, p) + 1
         /\ Clean(n) => /\ Clean(m)
                        /\ \A z \in ({UP} \cup Nat) \ {Actual(n, p)} : SameAt(n, m, z)
<1> USE MaxIndexAssumption DEF APPEND, UP, INSERTSTART, Index
<1>1. n \in Node /\ n.count \in Nat /\ Len(n.table) \in Nat /\ n.count <= Len(n.table)
  BY DEF Sound, Node
<1>2. CASE p = UP
  <2>1. m = [n EXCEPT !.up = link]
    BY <1>2 DEF Put
  <2>2. /\ m \in Node /\ m.up = link /\ m.table = n.table /\ m.count = n.count
    BY <1>1, <2>1 DEF Node
  <2>3. Sound(m) /\ (Clean(n) => Clean(m))
    BY <2>2 DEF Sound, Clean
  <2>4. Actual(n, p) = UP /\ LinkAt(m, UP) = link
    BY <1>2, <2>2 DEF Actual, LinkAt
  <2>5. \A z \in Nat : LinkAt(m, z) = LinkAt(n, z)
    BY <2>2, <2>3, LinkAtPoint
  <2> QED
    BY <1>1, <1>2, <2>2, <2>3, <2>4, <2>5 DEF SameAt
<1>3. ASSUME NEW x \in Nat, NEW size \in Int, NEW grown \in Grown(n, size), x < Len(grown.table),
             m = Wrote(grown, x, link), p # UP, Actual(n, p) = x
      PROVE  /\ Sound(m) /\ LinkAt(m, x) = link
             /\ m.count = IF x < n.count THEN n.count ELSE x + 1
             /\ Clean(n) => /\ Clean(m)
                            /\ \A z \in ({UP} \cup Nat) \ {x} : SameAt(n, m, z)
  <2>1. /\ Sound(m)
        /\ m.count = IF x + 1 > n.count THEN x + 1 ELSE n.count
        /\ LinkAt(m, x) = link
        /\ LinkAt(m, UP) = LinkAt(n, UP)
        /\ Clean(n) => Clean(m) /\ \A z \in Nat \ {x} : SameAt(n, m, z)
    BY <1>3, WriteAt
  <2>2. SameAt(n, m, UP)
    BY <2>1 DEF SameAt
  <2>3. m.count = IF x < n.count THEN n.count ELSE x + 1
    BY <1>1, <2>1
  <2> QED
    BY <2>1, <2>2, <2>3
<1>4. CASE p = APPEND
  <2> DEFINE size == IF n.count = Len(n.table) THEN 2 * n.count ELSE Len(n.table)
  <2>1. PICK grown \in Grown(n, size) : m = Wrote(grown, n.count, link)
    BY <1>4 DEF Put, Add
  <2>2. size \in Int /\ Len(grown.table) >= size /\ Len(grown.table) >= 1
    BY <1>1, <2>1, GrownNode
  <2>3. Len(grown.table) \in Nat /\ n.count < Len(grown.table)
    BY <1>1, <2>1, <2>2, GrownNode DEF Node
  <2>4. Actual(n, p) = n.count
    BY <1>4 DEF Actual
  <2> HIDE DEF size
  <2> QED
    BY <1>1, <1>3, <1>4, <2>1, <2>2, <2>3, <2>4
<1>5. CASE p \in Index
  <2>1. PICK grown \in Grown(n, p + 1) : m = Wrote(grown, p, link)
    BY <1>5 DEF Put, Set
  <2>2. p \in Nat /\ Len(grown.table) \in Nat /\ p < Len(grown.table)
    BY <1>1, <1>5, <2>1, GrownNode DEF Node
  <2>3. Actual(n, p) = p
    BY <1>5 DEF Actual
  <2> QED
    BY <1>3, <1>5, <2>1, <2>2, <2>3
<1> QED
  BY <1>2, <1>4, <1>5

-----------------------------------------------------------------------------
(* Trimming drops entries that lead nowhere, and none that do.             *)
LEMMA TrimmedNode ==
  ASSUME NEW n \in Node, n.count <= Len(n.table)
  PROVE  LET m == Trimmed(n) IN
         /\ Sound(m) /\ m.up = n.up /\ m.table = n.table /\ m.count <= n.count
         /\ \A k \in 1 .. n.count : k > m.count => n.table[k].t = NULL
<1> DEFINE U == {0} \cup {k \in 1 .. n.count : n.table[k].t # NULL}
           c == Max(U)
<1>1. n.count \in Nat /\ Len(n.table) \in Nat
  BY DEF Node
<1>2. U \subseteq 0 .. n.count /\ U # {}
  BY <1>1
<1>3. c \in U /\ \A i \in U : i <= c
  <2> HIDE DEF U
  <2> QED
    BY <1>1, <1>2, MaxIsLast
<1>4. c \in 0 .. n.count /\ (c > 0 => n.table[c].t # NULL)
  BY <1>1, <1>2, <1>3
<1>5. ASSUME NEW k \in 1 .. n.count, k > c PROVE n.table[k].t = NULL
  <2>1. k \notin U
    BY <1>1, <1>3, <1>4, <1>5
  <2> QED
    BY <2>1
<1>6. Trimmed(n) = [n EXCEPT !.count = c]
  BY DEF Trimmed
<1> HIDE DEF U, c
<1>7. /\ Trimmed(n) \in Node /\ Trimmed(n).up = n.up /\ Trimmed(n).table = n.table
      /\ Trimmed(n).count = c
  BY <1>1, <1>4, <1>6 DEF Node
<1>8. Sound(Trimmed(n))
  BY <1>1, <1>4, <1>7 DEF Sound
<1> QED
  BY <1>1, <1>4, <1>5, <1>7, <1>8

(* A point that is cleared leads nowhere, and the others where they did.   *)
LEMMA ClearedAt ==
  ASSUME NEW n, Sound(n), NEW z \in {UP} \cup Nat, z \in Nat => z < n.count
  PROVE  LET m == Cleared(n, z) IN
         /\ Sound(m) /\ m.count <= n.count
         /\ LinkAt(m, z).t \notin Dev
         /\ \A x \in ({UP} \cup Nat) \ {z} : SameAt(n, m, x)
         /\ Clean(n) => Clean(m)
<1> USE DEF UP
<1>1. n \in Node /\ n.count \in Nat /\ Len(n.table) \in Nat /\ n.count <= Len(n.table)
      /\ n.table \in Seq(Pointer)
  BY DEF Sound, Node
<1> DEFINE m == Cleared(n, z)
<1>2. CASE z = UP
  <2>1. m = [n EXCEPT !.up = Empty]
    BY <1>2 DEF Cleared
  <2>2. m \in Node /\ m.up = Empty /\ m.table = n.table /\ m.count = n.count
    BY <1>1, <2>1, Pointers DEF Node
  <2> HIDE DEF m
  <2>3. Sound(m) /\ (Clean(n) => Clean(m))
    BY <2>2 DEF Sound, Clean
  <2>4. LinkAt(m, z) = Empty /\ \A x \in Nat : LinkAt(m, x) = LinkAt(n, x)
    BY <1>2, <2>2, <2>3, LinkAtPoint
  <2> QED
    BY <1>1, <1>2, <2>2, <2>3, <2>4, Pointers DEF SameAt, m
<1>3. CASE z \in Nat
  <2> DEFINE t == [n.table EXCEPT ![z + 1] = Empty]
             e == [n EXCEPT !.table = t]
  <2>1. m = Trimmed(e)
    BY <1>3 DEF Cleared
  <2>2. /\ t \in Seq(Pointer) /\ Len(t) = Len(n.table) /\ t[z + 1] = Empty
        /\ \A k \in 1 .. Len(n.table) : k # z + 1 => t[k] = n.table[k]
    BY <1>1, <1>3, ExceptSeq, Pointers
  <2> HIDE DEF t
  <2>3. e \in Node /\ e.up = n.up /\ e.table = t /\ e.count = n.count
    BY <1>1, <2>2 DEF Node
  <2> HIDE DEF e, m
  <2>4. /\ Sound(m) /\ m.up = n.up /\ m.table = t /\ m.count <= n.count
        /\ \A k \in 1 .. n.count : k > m.count => t[k].t = NULL
    BY <1>1, <2>1, <2>2, <2>3, TrimmedNode
  <2>5. m.count \in Nat
    BY <2>4 DEF Sound, Node
  <2>6. LinkAt(m, z).t \notin Dev
    BY <1>3, <2>2, <2>4, LinkAtPoint, Pointers
  <2>7. LinkAt(m, UP) = LinkAt(n, UP)
    BY <2>4, LinkAtPoint
  <2>8. ASSUME NEW x \in Nat \ {z} PROVE SameAt(n, m, x)
    <3>1. /\ LinkAt(n, x) = IF x < n.count THEN n.table[x + 1] ELSE Empty
          /\ LinkAt(m, x) = IF x < m.count THEN t[x + 1] ELSE Empty
      BY <2>4, LinkAtPoint
    <3>2. x < n.count => t[x + 1] = n.table[x + 1]
      BY <1>1, <1>3, <2>2
    <3>3. x < n.count /\ ~(x < m.count) => t[x + 1].t = NULL
      BY <1>1, <2>4, <2>5
    <3> QED
      BY <1>1, <2>4, <2>5, <3>1, <3>2, <3>3, NullAssumption, Pointers DEF SameAt
  <2>9. ASSUME Clean(n), NEW k \in m.count + 1 .. Len(m.table) PROVE m.table[k].t \notin Dev
    <3>1. CASE k <= n.count
      BY <1>1, <2>4, <2>5, <3>1, NullAssumption
    <3>2. CASE k > n.count
      <4>1. k # z + 1 /\ k \in n.count + 1 .. Len(n.table)
        BY <1>1, <1>3, <2>2, <2>4, <2>5, <3>2
      <4>2. t[k] = n.table[k]
        BY <1>1, <2>2, <4>1
      <4> QED
        BY <2>4, <2>9, <4>1, <4>2 DEF Clean
    <3> QED
      BY <1>1, <2>5, <3>1, <3>2
  <2> QED
    BY <1>1, <1>3, <2>4, <2>6, <2>7, <2>8, <2>9 DEF SameAt, Clean, m
<1> QED
  BY <1>2, <1>3

-----------------------------------------------------------------------------
(* The type invariant, of any clients.                                     *)
IInv ==
    /\ node \in [Dev -> Node]
    /\ \A d \in Dev : Sound(node[d])
    /\ mem \in [Dev -> Memory \cup {NULL}]

LEMMA ActualIsInt ==
  ASSUME NEW n, Sound(n), NEW p \in At
  PROVE  Actual(n, p) \in Int /\ n.count \in Int /\ p \in Int
BY MaxIndexAssumption DEF Actual, At, Index, APPEND, INSERTSTART, UP, Sound, Node

LEMMA PutSound ==
  ASSUME NEW n, Sound(n), NEW p \in At, NEW link \in Pointer, link.t \in Dev,
         NEW m \in Put(n, p, link)
  PROVE  Sound(m)
<1>1. CASE p = INSERTSTART
  BY <1>1 DEF Put, INSERTSTART, UP, APPEND
<1>2. CASE p # INSERTSTART
  <2>1. p \in {APPEND, UP} \cup Index
    BY <1>2 DEF At
  <2> QED
    BY <2>1, PutAt
<1> QED
  BY <1>1, <1>2

(* An insertion renumbers the first entry, if there is one.                *)
LEMMA InsertSound ==
  ASSUME NEW n, Sound(n), NEW link \in Pointer, NEW m \in Insert(n, link)
  PROVE  Sound(m)
<1>1. CASE m = n
  BY <1>1
<1>2. CASE /\ n.table # << >> /\ n.table[1].t \in Dev
           /\ m = [n EXCEPT !.table[1].i = link.i]
  <2>1. n \in Node /\ n.table \in Seq(Pointer) /\ Len(n.table) \in Nat /\ n.count \in Nat
    BY DEF Sound, Node
  <2>2. 1 \in 1 .. Len(n.table) /\ n.table[1] \in Pointer
    BY <1>2, <2>1, EmptySeq
  <2> DEFINE first == [n.table[1] EXCEPT !.i = link.i]
             t == [n.table EXCEPT ![1] = first]
  <2>3. first \in Pointer /\ first.t = n.table[1].t
    BY <2>2 DEF Pointer
  <2>4. m = [n EXCEPT !.table = t]
    BY <1>2, <2>1
  <2> HIDE DEF first
  <2>5. /\ t \in Seq(Pointer) /\ Len(t) = Len(n.table)
        /\ \A k \in 1 .. Len(n.table) : t[k].t = n.table[k].t
    BY <2>1, <2>2, <2>3, ExceptSeq
  <2> HIDE DEF t
  <2>6. m \in Node /\ m.table = t /\ m.count = n.count
    BY <2>1, <2>4, <2>5 DEF Node
  <2> QED
    BY <2>1, <2>5, <2>6 DEF Sound
<1> QED
  BY <1>1, <1>2 DEF Insert

LEMMA LinkSound ==
  ASSUME IInv, NEW item \in Dev, NEW dev \in Dev, NEW p \in At, NEW q \in At,
         Link(item, p, dev, q)
  PROVE  node' \in [Dev -> Node] /\ \A d \in Dev : Sound(node'[d])
<1> DEFINE far == [t |-> item, i |-> IF p = APPEND THEN node[item].count ELSE p]
           near == [t |-> dev, i |-> Actual(node[dev], q)]
<1>1. Sound(node[item]) /\ Sound(node[dev])
  BY DEF IInv
<1>2. far \in Pointer /\ far.t \in Dev /\ near \in Pointer /\ near.t \in Dev
  BY <1>1, ActualIsInt DEF Pointer
<1> HIDE DEF far, near
<1>3. PICK n \in IF q = INSERTSTART /\ p = APPEND THEN Insert(node[dev], far)
                                                  ELSE Put(node[dev], q, far) :
         \E m \in Put([node EXCEPT ![dev] = n][item], p, near) :
            node' = [[node EXCEPT ![dev] = n] EXCEPT ![item] = m]
  BY DEF Link, far, near
<1>4. Sound(n)
  BY <1>1, <1>2, <1>3, PutSound, InsertSound
<1> DEFINE with == [node EXCEPT ![dev] = n]
<1>5. with \in [Dev -> Node] /\ \A d \in Dev : Sound(with[d])
  BY <1>4 DEF IInv, Sound
<1> HIDE DEF with
<1>6. PICK m \in Put(with[item], p, near) : node' = [with EXCEPT ![item] = m]
  BY <1>3 DEF with
<1>7. Sound(m)
  BY <1>2, <1>5, <1>6, PutSound
<1> QED
  BY <1>5, <1>6, <1>7 DEF Sound

(* What a deattach clears: its own point, and the far one if it is in use. *)
LEMMA DeattachSound ==
  ASSUME IInv, NEW item \in Dev, NEW p \in At, Deattach(item, p)
  PROVE  node' \in [Dev -> Node] /\ \A d \in Dev : Sound(node'[d])
<1> DEFINE link == LinkAt(node[item], p)
           near == [node EXCEPT ![item] = Cleared(@, p)]
<1>1. Sound(node[item]) /\ link.t \in Dev /\ p \in {UP} \cup Nat
  BY ActualIsInt DEF IInv, Deattach
<1>2. p \in Nat => p < node[item].count
  BY <1>1, LinkAtPoint, Pointers
<1>3. Sound(Cleared(node[item], p))
  BY <1>1, <1>2, ClearedAt
<1>4. near \in [Dev -> Node] /\ \A d \in Dev : Sound(near[d])
  BY <1>3 DEF IInv, Sound
<1>5. link.i \in Int
  BY <1>1, LinkAtPoint DEF Pointer
<1> HIDE DEF near, link
<1>6. CASE node' = near
  BY <1>4, <1>6
<1>7. CASE /\ link.i = UP \/ InUse(near[link.t], link.i)
           /\ node' = [near EXCEPT ![link.t] = Cleared(@, link.i)]
  <2>1. link.i \in {UP} \cup Nat /\ (link.i \in Nat => link.i < near[link.t].count)
    <3>1. near[link.t].count \in Nat
      BY <1>1, <1>4 DEF Node
    <3>2. CASE link.i = UP
      BY <3>2 DEF UP
    <3>3. CASE InUse(near[link.t], link.i)
      BY <1>5, <3>1, <3>3 DEF InUse, Entry, Empty
    <3> QED
      BY <1>7, <3>2, <3>3
  <2>2. Sound(Cleared(near[link.t], link.i))
    BY <1>1, <1>4, <2>1, ClearedAt
  <2> QED
    BY <1>1, <1>4, <1>7, <2>2 DEF Sound
<1> QED
  BY <1>6, <1>7 DEF Deattach, near, link

LEMMA InitIInv == Init => IInv
<1> SUFFICES ASSUME Init PROVE IInv
  OBVIOUS
<1> DEFINE n == [up |-> Empty, table |-> << >>, count |-> 0]
<1>1. n \in Node /\ Sound(n)
  BY Pointers, EmptySeq DEF Node, Sound
<1> QED
  BY <1>1 DEF Init, IInv

LEMMA NextIInv == IInv /\ [Operation]_vars => IInv'
<1> SUFFICES ASSUME IInv, [Operation]_vars PROVE IInv'
  OBVIOUS
<1>1. ASSUME NEW item \in Dev, NEW dev \in Dev, NEW p \in At, NEW q \in At,
             Attach(item, p, dev, q)
      PROVE  IInv'
  <2>1. node' \in [Dev -> Node] /\ \A d \in Dev : Sound(node'[d])
    BY <1>1, LinkSound DEF Attach
  <2> QED
    BY <1>1, <2>1 DEF Attach, MemAfter, IInv
<1>2. ASSUME NEW item \in Dev, NEW p \in At, NEW m \in Memory, AttachMemory(item, p, m)
      PROVE  IInv'
  BY <1>2 DEF AttachMemory, IInv
<1>3. ASSUME NEW item \in Dev, NEW p \in At, Deattach(item, p) PROVE IInv'
  BY <1>3, DeattachSound DEF Deattach, IInv
<1>4. CASE UNCHANGED vars
  BY <1>4 DEF vars, IInv
<1> QED
  BY <1>1, <1>2, <1>3, <1>4 DEF Operation

LEMMA IInvTypes == IInv => TypeOK
<1> SUFFICES ASSUME IInv PROVE TypeOK
  OBVIOUS
<1>1. ASSUME NEW d \in Dev
      PROVE  /\ node[d].up \in Pointer /\ node[d].table \in Seq(Pointer)
             /\ node[d].count \in 0 .. Len(node[d].table)
             /\ node[d].count > 0 => InUse(node[d], node[d].count - 1)
  <2>1. Sound(node[d]) /\ node[d].count \in Nat /\ Len(node[d].table) \in Nat
    BY DEF IInv, Sound, Node
  <2>2. node[d].count > 0 => InUse(node[d], node[d].count - 1)
    BY <2>1 DEF InUse, Entry, Sound
  <2> QED
    BY <2>1, <2>2 DEF Sound, Node
<1> QED
  BY <1>1 DEF IInv, TypeOK, EndsInUse

(* Whatever clients attach, insert and deattach, tables hold devices and   *)
(* count no more entries than they have, the last of which is in use.      *)
THEOREM TypeCorrect == Spec => []TypeOK
<1> QED
  BY InitIInv, NextIInv, IInvTypes, PTL DEF Spec

-----------------------------------------------------------------------------
(* Careful clients.  Between their operations every link has two ends, of  *)
(* which neither is the other, and what hangs on a bus does so by its UP.  *)
Coord == {UP} \cup Index

Fits(n) == Sound(n) /\ Clean(n) /\ n.count <= MaxIndex + 1

NotItself == \A p \in Point : At2(p).t \in Dev => <<At2(p).t, At2(p).i>> # p

OnBusByUp ==
    \A b \in Bus : /\ LinkAt(node[b], UP).t \notin Dev
                   /\ \A z \in Index : LinkAt(node[b], z).t \in Dev => LinkAt(node[b], z).i = UP

CInv ==
    /\ IInv
    /\ \A d \in Dev : Fits(node[d])
    /\ Mutual
    /\ NotItself
    /\ OnBusByUp
    /\ MemoryShared

LEMMA Coords == /\ UP \notin Index /\ Index \subseteq Nat /\ Coord \subseteq {UP} \cup Nat
                /\ Point = Dev \X Coord
BY MaxIndexAssumption DEF UP, Index, Coord, Point

LEMMA PutFits ==
  ASSUME NEW n, Fits(n), NEW p \in {APPEND, UP} \cup Index, p = APPEND => n.count <= MaxIndex,
         NEW link \in Pointer, link.t \in Dev, NEW m \in Put(n, p, link)
  PROVE  /\ Fits(m)
         /\ Actual(n, p) \in Coord
         /\ LinkAt(m, Actual(n, p)) = link
         /\ p = UP => m.count = n.count
         /\ \A z \in Coord \ {Actual(n, p)} : SameAt(n, m, z)
<1>1. /\ Sound(m)
      /\ Actual(n, p) \in {UP} \cup Nat
      /\ LinkAt(m, Actual(n, p)) = link
      /\ m.count = IF p = UP \/ Actual(n, p) < n.count THEN n.count ELSE Actual(n, p) + 1
      /\ Clean(m)
      /\ \A z \in ({UP} \cup Nat) \ {Actual(n, p)} : SameAt(n, m, z)
  BY PutAt DEF Fits
<1>2. n.count \in Nat /\ m.count \in Nat
  BY <1>1 DEF Fits, Sound, Node
<1>3. Actual(n, p) \in Coord
  BY <1>2, MaxIndexAssumption DEF Actual, Coord, Index, APPEND, UP, INSERTSTART
<1>4. m.count <= MaxIndex + 1
  BY <1>1, <1>2, <1>3, MaxIndexAssumption DEF Fits, Coord, Index, Actual, APPEND, UP, INSERTSTART
<1> QED
  BY <1>1, <1>3, <1>4, Coords DEF Fits

(* A free point leads nowhere.                                             *)
LEMMA FreeLeadsNowhere ==
  ASSUME IInv, NEW d \in Dev, Fits(node[d]), NEW p \in At, Free(d, p), ~InUse(node[d], p)
  PROVE  /\ p \in {APPEND, UP} \cup Index
         /\ LinkAt(node[d], Actual(node[d], p)).t \notin Dev
<1>1. p \in {APPEND, UP} \cup Index
  BY DEF Free, At
<1>2. Sound(node[d]) /\ node[d].count \in Nat
  BY DEF IInv, Sound, Node
<1>3. CASE p = UP
  BY <1>2, <1>3, LinkAtPoint, Pointers DEF Free, Actual, UP, APPEND, INSERTSTART
<1>4. CASE p = APPEND
  BY <1>2, <1>4, LinkAtPoint, Pointers DEF Actual, UP, APPEND, INSERTSTART
<1>5. CASE p \in Index
  <2>1. Actual(node[d], p) = p /\ p >= 0 /\ p # UP
    BY <1>5, MaxIndexAssumption DEF Actual, UP, APPEND, INSERTSTART, Index
  <2>2. LinkAt(node[d], p).t = NULL
    BY <2>1 DEF InUse, LinkAt
  <2> QED
    BY <1>1, <2>1, <2>2, NullAssumption
<1> QED
  BY <1>1, <1>3, <1>4, <1>5

(* What an attach does to the points: two that led nowhere lead to each    *)
(* other, and no other is changed.                                         *)
LEMMA AttachPoints ==
  ASSUME CInv, NEW item \in Dev, NEW dev \in Dev, NEW p \in At, NEW q \in At,
         CarefulAttach(item, p, dev, q),
         NEW x, x = Actual(node[item], p), NEW y, y = Actual(node[dev], q)
  PROVE  /\ x \in Coord /\ y \in Coord /\ <<item, x>> # <<dev, y>>
         /\ LinkAt(node[item], x).t \notin Dev
         /\ LinkAt(node[dev], y).t \notin Dev
         /\ node' \in [Dev -> Node] /\ \A d \in Dev : Fits(node'[d])
         /\ LinkAt(node'[item], x) = [t |-> dev, i |-> y]
         /\ LinkAt(node'[dev], y) = [t |-> item, i |-> x]
         /\ \A d \in Dev, z \in Coord : <<d, z>> \notin {<<item, x>>, <<dev, y>>}
                => SameAt(node[d], node'[d], z)
         /\ \A d \in Dev \ {item, dev} : node'[d] = node[d]
<1>1. /\ Fits(node[item]) /\ Fits(node[dev]) /\ node \in [Dev -> Node]
      /\ node[item].count \in Nat
  BY DEF CInv, IInv, Node
<1>2. /\ p \in {APPEND, UP} \cup Index /\ q \in {APPEND, UP} \cup Index
      /\ LinkAt(node[item], x).t \notin Dev
      /\ LinkAt(node[dev], y).t \notin Dev
  BY <1>1, FreeLeadsNowhere DEF CarefulAttach, Attach, CInv
<1>3. /\ <<item, x>> # <<dev, y>>
      /\ item = dev => p # APPEND \/ q = UP
      /\ p = APPEND => node[item].count <= MaxIndex
      /\ q = APPEND => node[dev].count <= MaxIndex
      /\ q # INSERTSTART /\ p # INSERTSTART
      /\ Link(item, p, dev, q)
  BY DEF CarefulAttach, Attach, Free
<1> DEFINE far == [t |-> item, i |-> x]
           near == [t |-> dev, i |-> y]
<1>4. x = IF p = APPEND THEN node[item].count ELSE p
  BY <1>3 DEF Actual
<1>5. x \in Int /\ y \in Int
  BY <1>1, ActualIsInt DEF Fits
<1>6. far \in Pointer /\ far.t \in Dev /\ near \in Pointer /\ near.t \in Dev
  BY <1>5 DEF Pointer
<1> HIDE DEF far, near
<1>7. PICK n \in Put(node[dev], q, far) :
         \E m \in Put([node EXCEPT ![dev] = n][item], p, near) :
            node' = [[node EXCEPT ![dev] = n] EXCEPT ![item] = m]
  BY <1>3, <1>4 DEF Link, far, near
<1>8. /\ Fits(n) /\ y \in Coord /\ LinkAt(n, y) = far
      /\ q = UP => n.count = node[dev].count
      /\ \A z \in Coord \ {y} : SameAt(node[dev], n, z)
  BY <1>1, <1>2, <1>3, <1>6, <1>7, PutFits
<1> DEFINE old == IF item = dev THEN n ELSE node[item]
<1>9. PICK m \in Put(old, p, near) : node' = [[node EXCEPT ![dev] = n] EXCEPT ![item] = m]
  BY <1>1, <1>7
<1>10. /\ Fits(old) /\ Actual(old, p) = x /\ (p = APPEND => old.count <= MaxIndex)
  BY <1>1, <1>3, <1>8 DEF Actual
<1> HIDE DEF old
<1>11. /\ Fits(m) /\ x \in Coord /\ LinkAt(m, x) = near
       /\ \A z \in Coord \ {x} : SameAt(old, m, z)
  BY <1>2, <1>6, <1>9, <1>10, PutFits
<1>12. n \in Node /\ m \in Node
  BY <1>8, <1>11 DEF Fits, Sound
<1>13. /\ node' \in [Dev -> Node] /\ node'[item] = m
       /\ dev # item => node'[dev] = n
       /\ \A d \in Dev \ {item, dev} : node'[d] = node[d]
  BY <1>1, <1>9, <1>12
<1>14. \A d \in Dev : Fits(node'[d])
  BY <1>8, <1>11, <1>13 DEF CInv
<1>15. LinkAt(node'[item], x) = near
  BY <1>11, <1>13
<1>16. LinkAt(node'[dev], y) = far
  <2>1. CASE item = dev
    <3>1. y # x /\ old = n
      BY <1>3, <2>1 DEF old
    <3> QED
      BY <1>6, <1>8, <1>11, <1>13, <2>1, <3>1 DEF SameAt
  <2>2. CASE item # dev
    BY <1>8, <1>13, <2>2
  <2> QED
    BY <2>1, <2>2
<1>17. ASSUME NEW d \in Dev, NEW z \in Coord, <<d, z>> \notin {<<item, x>>, <<dev, y>>}
       PROVE  SameAt(node[d], node'[d], z)
  <2>1. CASE d = item /\ item = dev
    <3>1. z # x /\ z # y /\ old = n
      BY <1>17, <2>1 DEF old
    <3>2. SameAt(node[d], n, z) /\ SameAt(n, m, z)
      BY <1>8, <1>11, <2>1, <3>1
    <3> QED
      BY <1>13, <2>1, <3>2 DEF SameAt
  <2>2. CASE d = item /\ item # dev
    BY <1>11, <1>13, <1>17, <2>2 DEF old
  <2>3. CASE d = dev /\ item # dev
    BY <1>8, <1>13, <1>17, <2>3
  <2>4. CASE d \notin {item, dev}
    BY <1>13, <2>4 DEF SameAt
  <2> QED
    BY <2>1, <2>2, <2>3, <2>4
<1> QED
  BY <1>2, <1>3, <1>8, <1>11, <1>13, <1>14, <1>15, <1>16, <1>17 DEF far, near

LEMMA ClearedFits ==
  ASSUME NEW n, Fits(n), NEW z \in Coord, LinkAt(n, z).t # NULL
  PROVE  LET m == Cleared(n, z) IN
         /\ Fits(m)
         /\ LinkAt(m, z).t \notin Dev
         /\ \A x \in Coord \ {z} : SameAt(n, m, x)
<1>1. Sound(n) /\ n.count \in Nat
  BY DEF Fits, Sound, Node
<1>2. z \in Nat => z < n.count
  BY <1>1, LinkAtPoint DEF Empty
<1>3. LET m == Cleared(n, z) IN
      /\ Sound(m) /\ m.count <= n.count
      /\ LinkAt(m, z).t \notin Dev
      /\ \A x \in ({UP} \cup Nat) \ {z} : SameAt(n, m, x)
      /\ Clean(m)
  BY <1>1, <1>2, Coords, ClearedAt DEF Fits
<1>4. Cleared(n, z).count \in Nat
  BY <1>3 DEF Sound, Node
<1> QED
  BY <1>1, <1>3, <1>4, Coords, MaxIndexAssumption DEF Fits

(* What a deattach does to the points: two that led to each other lead     *)
(* nowhere, and no other is changed.                                       *)
LEMMA DeattachPoints ==
  ASSUME CInv, NEW item \in Dev, NEW p \in At, Deattach(item, p),
         NEW dev, NEW y, dev = LinkAt(node[item], p).t, y = LinkAt(node[item], p).i
  PROVE  /\ p \in Coord /\ dev \in Dev /\ y \in Coord /\ <<item, p>> # <<dev, y>>
         /\ LinkAt(node[dev], y) = [t |-> item, i |-> p]
         /\ node' \in [Dev -> Node] /\ \A d \in Dev : Fits(node'[d])
         /\ LinkAt(node'[item], p).t \notin Dev
         /\ LinkAt(node'[dev], y).t \notin Dev
         /\ \A d \in Dev, z \in Coord : <<d, z>> \notin {<<item, p>>, <<dev, y>>}
                => SameAt(node[d], node'[d], z)
         /\ \A d \in Dev \ {item, dev} : node'[d] = node[d]
<1>1. p \in Coord /\ dev \in Dev
  <2>1. p = UP \/ p \in Index
    BY MaxIndexAssumption DEF Deattach, At, APPEND, INSERTSTART, UP, Index
  <2> QED
    BY <2>1 DEF Deattach, Coord
<1>2. /\ y \in Coord /\ <<dev, y>> # <<item, p>>
      /\ LinkAt(node[dev], y) = [t |-> item, i |-> p]
  <2>1. <<item, p>> \in Point /\ At2(<<item, p>>) = LinkAt(node[item], p)
    BY <1>1, Coords DEF At2
  <2>2. <<dev, y>> \in Point /\ At2(<<dev, y>>) = [t |-> item, i |-> p] /\ <<dev, y>> # <<item, p>>
    BY <1>1, <2>1 DEF CInv, Mutual, NotItself
  <2> QED
    BY <2>2, Coords DEF At2
<1>3. /\ node \in [Dev -> Node] /\ Fits(node[item]) /\ Fits(node[dev])
      /\ NULL \notin Dev
  BY <1>1, NullAssumption DEF CInv, IInv
<1> DEFINE c == Cleared(node[item], p)
           near == [node EXCEPT ![item] = c]
<1>4. /\ Fits(c) /\ c \in Node
      /\ LinkAt(c, p).t \notin Dev
      /\ \A x \in Coord \ {p} : SameAt(node[item], c, x)
  <2>1. LinkAt(node[item], p).t # NULL
    BY <1>1, <1>3
  <2> QED
    BY <1>1, <1>3, <2>1, ClearedFits DEF Fits, Sound
<1> HIDE DEF c
<1>5. near \in [Dev -> Node] /\ near[item] = c /\ \A d \in Dev \ {item} : near[d] = node[d]
  BY <1>3, <1>4
<1> HIDE DEF near
<1>6. Fits(near[dev]) /\ LinkAt(near[dev], y) = [t |-> item, i |-> p]
  <2>1. CASE dev = item
    <3>1. y # p
      BY <1>2, <2>1
    <3> QED
      BY <1>2, <1>4, <1>5, <2>1, <3>1 DEF SameAt
  <2>2. CASE dev # item
    BY <1>1, <1>2, <1>3, <1>5, <2>2
  <2> QED
    BY <2>1, <2>2
<1> DEFINE f == Cleared(near[dev], y)
<1>7. node' = [near EXCEPT ![dev] = f]
  <2>1. y = UP \/ InUse(near[dev], y)
    <3>1. CASE y \in Index
      <4>1. y >= 0 /\ y # UP
        BY <3>1, MaxIndexAssumption DEF Index, UP
      <4>2. Entry(near[dev], y).t = item
        BY <1>6, <4>1 DEF LinkAt
      <4> QED
        BY <1>3, <4>1, <4>2 DEF InUse
    <3> QED
      BY <1>2, <3>1 DEF Coord
  <2> QED
    BY <2>1 DEF Deattach, near, c, f
<1>8. /\ Fits(f) /\ f \in Node
      /\ LinkAt(f, y).t \notin Dev
      /\ \A x \in Coord \ {y} : SameAt(near[dev], f, x)
  <2>1. LinkAt(near[dev], y).t # NULL
    BY <1>3, <1>6
  <2> QED
    BY <1>2, <1>6, <2>1, ClearedFits DEF Fits, Sound
<1> HIDE DEF f
<1>9. /\ node' \in [Dev -> Node] /\ node'[dev] = f
      /\ dev # item => node'[item] = c
      /\ \A d \in Dev \ {item, dev} : node'[d] = node[d]
  BY <1>1, <1>5, <1>7, <1>8
<1>10. \A d \in Dev : Fits(node'[d])
  BY <1>4, <1>8, <1>9 DEF CInv
<1>11. LinkAt(node'[item], p).t \notin Dev /\ LinkAt(node'[dev], y).t \notin Dev
  <2>1. CASE dev = item
    <3>1. y # p
      BY <1>2, <2>1
    <3> QED
      BY <1>1, <1>4, <1>5, <1>8, <1>9, <2>1, <3>1 DEF SameAt
  <2>2. CASE dev # item
    BY <1>4, <1>8, <1>9, <2>2
  <2> QED
    BY <2>1, <2>2
<1>12. ASSUME NEW d \in Dev, NEW z \in Coord, <<d, z>> \notin {<<item, p>>, <<dev, y>>}
       PROVE  SameAt(node[d], node'[d], z)
  <2>1. CASE d = item /\ item = dev
    <3>1. z # p /\ z # y
      BY <1>12, <2>1
    <3>2. SameAt(node[d], c, z) /\ SameAt(c, f, z)
      BY <1>4, <1>5, <1>8, <2>1, <3>1
    <3> QED
      BY <1>9, <2>1, <3>2 DEF SameAt
  <2>2. CASE d = item /\ item # dev
    BY <1>4, <1>9, <1>12, <2>2
  <2>3. CASE d = dev /\ item # dev
    BY <1>5, <1>8, <1>9, <1>12, <2>3
  <2>4. CASE d \notin {item, dev}
    BY <1>9, <2>4 DEF SameAt
  <2> QED
    BY <2>1, <2>2, <2>3, <2>4
<1> QED
  BY <1>1, <1>2, <1>9, <1>10, <1>11, <1>12

-----------------------------------------------------------------------------
LEMMA MutualByCoord ==
  ASSUME \A d \in Dev, z \in Coord : LinkAt(node'[d], z).t \in Dev =>
            LET far == LinkAt(node'[d], z) IN
            /\ far.i \in Coord /\ LinkAt(node'[far.t], far.i) = [t |-> d, i |-> z]
            /\ <<far.t, far.i>> # <<d, z>>
  PROVE  Mutual' /\ NotItself'
<1>1. \A r : At2(r)' = LinkAt(node'[r[1]], r[2])
  BY DEF At2
<1>2. ASSUME NEW r \in Point, LinkAt(node'[r[1]], r[2]).t \in Dev
      PROVE  LET link == LinkAt(node'[r[1]], r[2])
                 far == <<link.t, link.i>>
             IN  /\ far \in Point /\ far # r
                 /\ LinkAt(node'[far[1]], far[2]) = [t |-> r[1], i |-> r[2]]
  <2>1. r[1] \in Dev /\ r[2] \in Coord /\ r = <<r[1], r[2]>>
    BY Coords
  <2> QED
    BY <1>2, <2>1, Coords
<1>3. Mutual'
  BY <1>1, <1>2 DEF Mutual
<1>4. NotItself'
  BY <1>1, <1>2 DEF NotItself
<1> QED
  BY <1>3, <1>4

(* A link whose ends know each other, as what is added to the others.      *)
LEMMA AttachMutual ==
  ASSUME CInv, NEW item \in Dev, NEW dev \in Dev, NEW p \in At, NEW q \in At,
         CarefulAttach(item, p, dev, q)
  PROVE  Mutual' /\ NotItself'
<1> DEFINE x == Actual(node[item], p)
           y == Actual(node[dev], q)
<1> HIDE DEF x, y
<1>1. /\ x \in Coord /\ y \in Coord /\ <<item, x>> # <<dev, y>>
      /\ LinkAt(node[item], x).t \notin Dev
      /\ LinkAt(node[dev], y).t \notin Dev
      /\ LinkAt(node'[item], x) = [t |-> dev, i |-> y]
      /\ LinkAt(node'[dev], y) = [t |-> item, i |-> x]
      /\ \A d \in Dev, z \in Coord : <<d, z>> \notin {<<item, x>>, <<dev, y>>}
             => SameAt(node[d], node'[d], z)
  BY AttachPoints DEF x, y
<1>2. ASSUME NEW d \in Dev, NEW z \in Coord, LinkAt(node'[d], z).t \in Dev
      PROVE  LET far == LinkAt(node'[d], z) IN
             /\ far.i \in Coord /\ LinkAt(node'[far.t], far.i) = [t |-> d, i |-> z]
             /\ <<far.t, far.i>> # <<d, z>>
  <2>1. CASE <<d, z>> = <<item, x>> \/ <<d, z>> = <<dev, y>>
    BY <1>1, <2>1
  <2>2. CASE <<d, z>> \notin {<<item, x>>, <<dev, y>>}
    <3> DEFINE far == LinkAt(node[d], z)
    <3>1. LinkAt(node'[d], z) = far /\ far.t \in Dev
      BY <1>1, <1>2, <2>2 DEF SameAt
    <3>2. /\ <<d, z>> \in Point /\ At2(<<d, z>>) = far
      BY Coords DEF At2
    <3>3. /\ <<far.t, far.i>> \in Point /\ <<far.t, far.i>> # <<d, z>>
          /\ At2(<<far.t, far.i>>) = [t |-> d, i |-> z]
      BY <3>1, <3>2 DEF CInv, Mutual, NotItself
    <3>4. far.i \in Coord /\ LinkAt(node[far.t], far.i) = [t |-> d, i |-> z]
      BY <3>3, Coords DEF At2
    <3>5. <<far.t, far.i>> \notin {<<item, x>>, <<dev, y>>}
      BY <1>1, <3>4
    <3>6. LinkAt(node'[far.t], far.i) = LinkAt(node[far.t], far.i)
      BY <1>1, <3>1, <3>4, <3>5 DEF SameAt
    <3> QED
      BY <3>1, <3>3, <3>4, <3>6
  <2> QED
    BY <2>1, <2>2
<1> QED
  BY <1>2, MutualByCoord

LEMMA DeattachMutual ==
  ASSUME CInv, NEW item \in Dev, NEW p \in At, Deattach(item, p)
  PROVE  Mutual' /\ NotItself'
<1> DEFINE dev == LinkAt(node[item], p).t
           y == LinkAt(node[item], p).i
<1>0. LinkAt(node[item], p) = [t |-> dev, i |-> y]
  <2>1. p \in {UP} \cup Nat /\ Sound(node[item])
    BY ActualIsInt DEF Deattach, CInv, IInv
  <2>2. LinkAt(node[item], p) \in Pointer
    BY <2>1, LinkAtPoint
  <2> QED
    BY <2>2 DEF Pointer
<1> HIDE DEF dev, y
<1>1. /\ p \in Coord /\ dev \in Dev /\ y \in Coord
      /\ LinkAt(node[dev], y) = [t |-> item, i |-> p]
      /\ LinkAt(node'[item], p).t \notin Dev
      /\ LinkAt(node'[dev], y).t \notin Dev
      /\ \A d \in Dev, z \in Coord : <<d, z>> \notin {<<item, p>>, <<dev, y>>}
             => SameAt(node[d], node'[d], z)
  BY DeattachPoints DEF dev, y
<1>2. ASSUME NEW d \in Dev, NEW z \in Coord, LinkAt(node'[d], z).t \in Dev
      PROVE  LET far == LinkAt(node'[d], z) IN
             /\ far.i \in Coord /\ LinkAt(node'[far.t], far.i) = [t |-> d, i |-> z]
             /\ <<far.t, far.i>> # <<d, z>>
  <2> DEFINE far == LinkAt(node[d], z)
  <2>1. <<d, z>> \notin {<<item, p>>, <<dev, y>>}
    BY <1>1, <1>2
  <2>2. LinkAt(node'[d], z) = far /\ far.t \in Dev
    BY <1>1, <1>2, <2>1 DEF SameAt
  <2>3. <<d, z>> \in Point /\ At2(<<d, z>>) = far
    BY Coords DEF At2
  <2>4. /\ <<far.t, far.i>> \in Point /\ <<far.t, far.i>> # <<d, z>>
        /\ At2(<<far.t, far.i>>) = [t |-> d, i |-> z]
    BY <2>2, <2>3 DEF CInv, Mutual, NotItself
  <2>5. far.i \in Coord /\ LinkAt(node[far.t], far.i) = [t |-> d, i |-> z]
    BY <2>4, Coords DEF At2
  <2>6. <<far.t, far.i>> \notin {<<item, p>>, <<dev, y>>}
    BY <1>0, <1>1, <2>1, <2>5
  <2>7. LinkAt(node'[far.t], far.i) = LinkAt(node[far.t], far.i)
    BY <1>1, <2>2, <2>5, <2>6 DEF SameAt
  <2> QED
    BY <2>2, <2>4, <2>5, <2>7
<1> QED
  BY <1>2, MutualByCoord

-----------------------------------------------------------------------------
(* Devices on buses.  A device hangs on one bus only, since it has but one *)
(* UP, and no bus hangs on another.                                        *)
LEMMA HangsByUp ==
  ASSUME CInv, NEW b \in Bus, NEW z \in Index, LinkAt(node[b], z).t \in Dev
  PROVE  LET d == LinkAt(node[b], z).t IN
         /\ LinkAt(node[d], UP) = [t |-> b, i |-> z]
         /\ d \notin Bus
<1> DEFINE d == LinkAt(node[b], z).t
<1>1. LinkAt(node[b], z).i = UP /\ b \in Dev
  BY DEF CInv, OnBusByUp, Dev
<1>2. <<b, z>> \in Point /\ At2(<<b, z>>) = LinkAt(node[b], z)
  BY <1>1, Coords DEF At2, Coord
<1>3. At2(<<d, UP>>) = [t |-> b, i |-> z]
  BY <1>1, <1>2 DEF CInv, Mutual
<1>4. LinkAt(node[d], UP) = [t |-> b, i |-> z]
  BY <1>3 DEF At2
<1>5. d \notin Bus
  BY <1>1, <1>4 DEF CInv, OnBusByUp
<1> QED
  BY <1>4, <1>5

(* The devices on a bus are those its points lead to.                      *)
LEMMA OnBusPoints ==
  ASSUME NEW n, Fits(n)
  PROVE  ({n.table[k].t : k \in 1 .. n.count} \ {NULL}) \ {Garbage}
             = {LinkAt(n, z).t : z \in Index} \cap Dev
<1>1. n.count \in Nat /\ n.table \in Seq(Pointer) /\ n.count <= Len(n.table) /\ Sound(n)
  BY DEF Fits, Sound, Node
<1>2. ASSUME NEW k \in 1 .. n.count, n.table[k].t \notin {NULL, Garbage}
      PROVE  n.table[k].t \in Dev /\ \E z \in Index : LinkAt(n, z).t = n.table[k].t
  <2> DEFINE z == k - 1
  <2>1. z \in Index /\ z \in Nat /\ z < n.count /\ z + 1 = k
    BY <1>1, MaxIndexAssumption DEF Fits, Index
  <2>2. n.table[k] \in Pointer
    BY <1>1
  <2> HIDE DEF z
  <2>3. LinkAt(n, z) = n.table[k]
    BY <1>1, <2>1, LinkAtPoint
  <2> QED
    BY <1>2, <2>1, <2>2, <2>3 DEF Pointer
<1>3. ASSUME NEW z \in Index, LinkAt(n, z).t \in Dev
      PROVE  /\ \E k \in 1 .. n.count : n.table[k].t = LinkAt(n, z).t
             /\ LinkAt(n, z).t \notin {NULL, Garbage}
  <2>1. z \in Nat /\ z < n.count /\ LinkAt(n, z) = n.table[z + 1]
    BY <1>1, <1>3, Coords, LinkAtPoint, Pointers
  <2>2. z + 1 \in 1 .. n.count
    BY <1>1, <2>1
  <2> QED
    BY <1>3, <2>1, <2>2, NullAssumption
<1> QED
  BY <1>2, <1>3

SharedAt(nd, mm) ==
    \A b \in Bus, z \in Index :
        mm[b] # NULL /\ LinkAt(nd[b], z).t \in Dev => mm[LinkAt(nd[b], z).t] = mm[b]

LEMMA SharedPoints ==
  ASSUME NEW nd, NEW mm, \A d \in Dev : Fits(nd[d])
  PROVE  SharedAt(nd, mm) <=>
             \A b \in Bus : mm[b] # NULL =>
                 \A d \in ({nd[b].table[k].t : k \in 1 .. nd[b].count} \ {NULL}) \ {Garbage} :
                     mm[d] = mm[b]
<1>1. \A b \in Bus : ({nd[b].table[k].t : k \in 1 .. nd[b].count} \ {NULL}) \ {Garbage}
                       = {LinkAt(nd[b], z).t : z \in Index} \cap Dev
  BY OnBusPoints DEF Dev
<1>2. SharedAt(nd, mm) <=>
        \A b \in Bus : mm[b] # NULL =>
            \A d \in {LinkAt(nd[b], z).t : z \in Index} \cap Dev : mm[d] = mm[b]
  BY DEF SharedAt
<1> QED
  BY <1>1, <1>2

LEMMA AttachOnBus ==
  ASSUME CInv, NEW item \in Dev, NEW dev \in Dev, NEW p \in At, NEW q \in At,
         CarefulAttach(item, p, dev, q)
  PROVE  OnBusByUp' /\ MemoryShared'
<1> DEFINE x == Actual(node[item], p)
           y == Actual(node[dev], q)
<1>0. /\ dev \notin Bus /\ (item \in Bus => q = UP /\ p # UP) /\ (q = UP <=> y = UP)
      /\ p # UP => x # UP
      /\ mem' = MemAfter(item, dev, q)
  <2>1. \A d \in Dev, r \in At : r # UP /\ Free(d, r) => Actual(node[d], r) # UP
    BY MaxIndexAssumption DEF Actual, At, Index, UP, APPEND, INSERTSTART, CInv, IInv, Node, Free
  <2>2. Actual(node[dev], UP) = UP
    BY DEF Actual, UP, APPEND, INSERTSTART
  <2> QED
    BY <2>1, <2>2 DEF CarefulAttach, Attach, Accepts
<1> HIDE DEF x, y
<1>1. /\ x \in Coord /\ y \in Coord /\ <<item, x>> # <<dev, y>>
      /\ LinkAt(node[item], x).t \notin Dev
      /\ LinkAt(node[dev], y).t \notin Dev
      /\ \A d \in Dev : Fits(node'[d])
      /\ LinkAt(node'[item], x) = [t |-> dev, i |-> y]
      /\ LinkAt(node'[dev], y) = [t |-> item, i |-> x]
      /\ \A d \in Dev, z \in Coord : <<d, z>> \notin {<<item, x>>, <<dev, y>>}
             => SameAt(node[d], node'[d], z)
  BY AttachPoints DEF x, y
<1>2. Bus \subseteq Dev /\ Index \subseteq Coord /\ UP \in Coord /\ UP \notin Index
  BY Coords DEF Dev, Coord
<1>3. ASSUME NEW b \in Bus, NEW z \in Coord, LinkAt(node'[b], z).t \in Dev
      PROVE  \/ b = item /\ z = x /\ q = UP /\ z # UP /\ LinkAt(node'[b], z) = [t |-> dev, i |-> UP]
             \/ LinkAt(node'[b], z) = LinkAt(node[b], z)
  BY <1>0, <1>1, <1>2, <1>3 DEF SameAt
<1>4. OnBusByUp'
  BY <1>2, <1>3 DEF OnBusByUp, CInv
<1>5. mem \in [Dev -> Memory \cup {NULL}] /\ \A b \in Bus : mem'[b] = mem[b]
  BY <1>0, <1>2 DEF MemAfter, CInv, IInv
<1>6. SharedAt(node, mem)
  BY SharedPoints DEF CInv, MemoryShared, OnBus
<1>7. ASSUME NEW b \in Bus, NEW z \in Index, mem'[b] # NULL, LinkAt(node'[b], z).t \in Dev
      PROVE  mem'[LinkAt(node'[b], z).t] = mem'[b]
  <2>1. CASE b = item /\ q = UP /\ LinkAt(node'[b], z) = [t |-> dev, i |-> UP]
    BY <1>0, <1>5, <1>7, <2>1 DEF MemAfter
  <2>2. CASE LinkAt(node'[b], z) = LinkAt(node[b], z)
    <3> DEFINE d == LinkAt(node[b], z).t
    <3>1. d \in Dev /\ mem[d] = mem[b]
      BY <1>5, <1>6, <1>7, <2>2 DEF SharedAt
    <3>2. LinkAt(node[d], UP) = [t |-> b, i |-> z]
      BY <3>1, HangsByUp
    <3>3. d # dev \/ q # UP
      BY <1>0, <1>1, <1>2, <3>2
    <3>4. mem'[d] = mem[d]
      BY <1>0, <1>5, <3>1, <3>3 DEF MemAfter
    <3> QED
      BY <1>5, <2>2, <3>1, <3>4
  <2> QED
    BY <1>2, <1>3, <1>7, <2>1, <2>2
<1>8. MemoryShared'
  <2>1. SharedAt(node', mem')
    BY <1>7 DEF SharedAt
  <2> QED
    BY <1>1, <2>1, SharedPoints DEF MemoryShared, OnBus
<1> QED
  BY <1>4, <1>8

LEMMA DeattachOnBus ==
  ASSUME CInv, NEW item \in Dev, NEW p \in At, Deattach(item, p)
  PROVE  OnBusByUp' /\ MemoryShared'
<1> DEFINE dev == LinkAt(node[item], p).t
           y == LinkAt(node[item], p).i
<1> HIDE DEF dev, y
<1>1. /\ p \in Coord /\ dev \in Dev /\ y \in Coord
      /\ LinkAt(node[dev], y) = [t |-> item, i |-> p]
      /\ node' \in [Dev -> Node] /\ \A d \in Dev : Fits(node'[d])
      /\ LinkAt(node'[item], p).t \notin Dev
      /\ LinkAt(node'[dev], y).t \notin Dev
      /\ \A d \in Dev, z \in Coord : <<d, z>> \notin {<<item, p>>, <<dev, y>>}
             => SameAt(node[d], node'[d], z)
  BY DeattachPoints DEF dev, y
<1>2. Bus \subseteq Dev /\ Index \subseteq Coord /\ UP \in Coord
  BY Coords DEF Dev, Coord
<1>3. \A b \in Bus, z \in Coord :
         LinkAt(node'[b], z).t \in Dev => LinkAt(node'[b], z) = LinkAt(node[b], z)
  BY <1>1, <1>2 DEF SameAt
<1>4. OnBusByUp'
  BY <1>2, <1>3 DEF OnBusByUp, CInv
<1>5. SharedAt(node, mem) /\ mem' = mem
  BY SharedPoints DEF CInv, MemoryShared, OnBus, Deattach
<1>6. SharedAt(node', mem')
  BY <1>2, <1>3, <1>5 DEF SharedAt
<1>7. MemoryShared'
  BY <1>1, <1>6, SharedPoints DEF MemoryShared, OnBus
<1> QED
  BY <1>4, <1>7

(* Memory given to a bus reaches what hangs on it, and no other bus's.     *)
LEMMA AttachMemoryOnBus ==
  ASSUME CInv, NEW item \in Bus, NEW p \in At, NEW m \in Memory, AttachMemory(item, p, m)
  PROVE  MemoryShared'
<1>1. /\ node' = node /\ mem \in [Dev -> Memory \cup {NULL}]
      /\ mem' = [d \in Dev |-> IF d = item \/ d \in OnBus(item) THEN m ELSE mem[d]]
      /\ Garbage \notin OnBus(item)
  BY DEF AttachMemory, CInv, IInv
<1>2. Bus \subseteq Dev /\ Index \subseteq Coord
  BY DEF Dev, Coord
<1>3. OnBus(item) = {LinkAt(node[item], z).t : z \in Index} \cap Dev
  <2>1. Fits(node[item])
    BY <1>2 DEF CInv
  <2> QED
    BY <1>1, <2>1, OnBusPoints DEF OnBus
<1>4. SharedAt(node, mem)
  BY SharedPoints DEF CInv, MemoryShared, OnBus
<1>5. ASSUME NEW b \in Bus, NEW z \in Index, mem'[b] # NULL, LinkAt(node[b], z).t \in Dev
      PROVE  mem'[LinkAt(node[b], z).t] = mem'[b]
  <2> DEFINE d == LinkAt(node[b], z).t
  <2>1. LinkAt(node[d], UP) = [t |-> b, i |-> z] /\ d \in Dev /\ d \notin Bus
    BY <1>5, HangsByUp
  <2>2. CASE b = item
    <3>1. d \in OnBus(item)
      BY <1>3, <1>5, <2>2
    <3> QED
      BY <1>1, <1>2, <2>1, <2>2, <3>1
  <2>3. CASE b # item
    <3>1. ASSUME NEW e \in OnBus(item)
          PROVE  LinkAt(node[e], UP).t = item /\ e \notin Bus
      <4>1. PICK o \in Index : LinkAt(node[item], o).t = e /\ e \in Dev
        BY <1>3
      <4>2. LinkAt(node[item], o).t \in Dev
        BY <4>1
      <4>3. /\ LinkAt(node[LinkAt(node[item], o).t], UP) = [t |-> item, i |-> o]
            /\ LinkAt(node[item], o).t \notin Bus
        BY <4>2, HangsByUp
      <4> QED
        BY <4>1, <4>3
    <3>2. d \notin OnBus(item) /\ d # item /\ b \notin OnBus(item)
      BY <2>1, <2>3, <3>1
    <3>3. mem'[d] = mem[d] /\ mem'[b] = mem[b]
      BY <1>1, <1>2, <2>1, <2>3, <3>2
    <3> QED
      BY <1>4, <1>5, <3>3 DEF SharedAt
  <2> QED
    BY <2>2, <2>3
<1>6. SharedAt(node', mem') /\ \A d \in Dev : Fits(node'[d])
  BY <1>1, <1>5 DEF SharedAt, CInv
<1> QED
  BY <1>6, SharedPoints DEF MemoryShared, OnBus

-----------------------------------------------------------------------------
(* The inductive invariant of careful clients.                             *)
LEMMA InitCInv == Init => CInv
<1> SUFFICES ASSUME Init PROVE CInv
  OBVIOUS
<1> DEFINE n == [up |-> Empty, table |-> << >>, count |-> 0]
<1>1. n \in Node /\ Sound(n) /\ Clean(n) /\ n.count <= MaxIndex + 1
  BY Pointers, EmptySeq, MaxIndexAssumption DEF Node, Sound, Clean
<1>2. \A z \in Coord : LinkAt(n, z) = Empty
  <2>1. \A z \in {UP} \cup Nat : LinkAt(n, z) = Empty
    BY <1>1, LinkAtPoint
  <2> QED
    BY <2>1, Coords
<1> HIDE DEF n
<1>3. \A d \in Dev : node[d] = n
  BY DEF Init, n
<1>4. IInv /\ \A d \in Dev : Fits(node[d])
  BY <1>1, <1>3, InitIInv DEF Fits
<1>5. \A d \in Dev, z \in Coord : LinkAt(node[d], z).t \notin Dev
  BY <1>2, <1>3, Pointers
<1>6. \A r \in Point : At2(r).t \notin Dev
  BY <1>5, Coords DEF At2
<1>7. Mutual /\ NotItself
  BY <1>6 DEF Mutual, NotItself
<1>8. OnBusByUp
  BY <1>5 DEF OnBusByUp, Dev, Coord
<1>9. MemoryShared
  BY DEF MemoryShared, Init, Dev
<1> QED
  BY <1>4, <1>7, <1>8, <1>9 DEF CInv

LEMMA NextCInv == CInv /\ [Careful]_vars => CInv'
<1> SUFFICES ASSUME CInv, [Careful]_vars PROVE CInv'
  OBVIOUS
<1>1. ASSUME NEW item \in Dev, NEW dev \in Dev, NEW p \in At, NEW q \in At,
             CarefulAttach(item, p, dev, q)
      PROVE  CInv'
  <2>1. IInv'
    BY <1>1, NextIInv DEF CarefulAttach, Operation, CInv
  <2>2. \A d \in Dev : Fits(node'[d])
    BY <1>1, AttachPoints
  <2>3. Mutual' /\ NotItself' /\ OnBusByUp' /\ MemoryShared'
    BY <1>1, AttachMutual, AttachOnBus
  <2> QED
    BY <2>1, <2>2, <2>3 DEF CInv
<1>2. ASSUME NEW item \in Bus, NEW p \in At, NEW m \in Memory, AttachMemory(item, p, m)
      PROVE  CInv'
  <2>1. item \in Dev
    BY DEF Dev
  <2>2. IInv'
    BY <1>2, <2>1, NextIInv DEF Operation, CInv
  <2>3. node' = node
    BY <1>2 DEF AttachMemory
  <2>4. Mutual' /\ NotItself' /\ OnBusByUp' /\ \A d \in Dev : Fits(node'[d])
    BY <2>3 DEF CInv, Mutual, NotItself, OnBusByUp, At2
  <2> QED
    BY <1>2, <2>2, <2>4, AttachMemoryOnBus DEF CInv
<1>3. ASSUME NEW item \in Dev, NEW p \in At, Deattach(item, p)
      PROVE  CInv'
  <2>1. IInv'
    BY <1>3, NextIInv DEF Operation, CInv
  <2>2. \A d \in Dev : Fits(node'[d])
    BY <1>3, DeattachPoints
  <2>3. Mutual' /\ NotItself' /\ OnBusByUp' /\ MemoryShared'
    BY <1>3, DeattachMutual, DeattachOnBus
  <2> QED
    BY <2>1, <2>2, <2>3 DEF CInv
<1>4. CASE UNCHANGED vars
  <2>1. IInv'
    BY <1>4, NextIInv DEF CInv
  <2> QED
    BY <1>4, <2>1 DEF CInv, Mutual, NotItself, OnBusByUp, MemoryShared, OnBus, At2, vars
<1> QED
  BY <1>1, <1>2, <1>3, <1>4 DEF Careful

(* Careful clients are clients: what holds for any holds for them.         *)
THEOREM CarefulIsSpec == CarefulSpec => Spec
<1>1. [Careful]_vars => [Operation]_vars
  <2>1. Bus \subseteq Dev
    BY DEF Dev
  <2> QED
    BY <2>1 DEF Careful, CarefulAttach, Operation
<1> QED
  BY <1>1, PTL DEF CarefulSpec, Spec

(* For clients that attach no point twice, hang devices on a bus by their  *)
(* UP and insert nothing: the two ends of every link isi_attach has made   *)
(* name each other, through every later attach and deattach of either end, *)
(* whatever the tables grew to and whatever was taken out of them.         *)
THEOREM EndsKnowEachOther == CarefulSpec => []Mutual
<1>1. CInv => Mutual
  BY DEF CInv
<1> QED
  BY InitCInv, NextCInv, <1>1, PTL DEF CarefulSpec

(* For the same clients no point is the far end of two links: what breaks  *)
(* AttachedOnce for others is a client that attaches an UP point again,    *)
(* which isi_attach never finds to be in use.                              *)
THEOREM NoneAttachedTwice == CarefulSpec => []AttachedOnce
<1>1. CInv => AttachedOnce
  <2> SUFFICES ASSUME CInv, NEW r \in Point, NEW s \in Point, At2(r).t \in Dev, At2(r) = At2(s)
               PROVE  r = s
    BY DEF AttachedOnce
  <2> DEFINE far == <<At2(r).t, At2(r).i>>
  <2>1. At2(far) = [t |-> r[1], i |-> r[2]] /\ At2(far) = [t |-> s[1], i |-> s[2]]
    BY DEF CInv, Mutual
  <2>2. r[1] = s[1] /\ r[2] = s[2]
    BY <2>1
  <2> QED
    BY <2>2, Coords
<1> QED
  BY InitCInv, NextCInv, <1>1, PTL DEF CarefulSpec

(* For the same clients, who give memory to buses: every device on a bus   *)
(* that has memory has that memory, whether it was attached before or      *)
(* after the memory, or was on another bus before.                         *)
THEOREM BusSharesMemory == CarefulSpec => []MemoryShared
<1>1. CInv => MemoryShared
  BY DEF CInv
<1> QED
  BY InitCInv, NextCInv, <1>1, PTL DEF CarefulSpec

-----------------------------------------------------------------------------
(* Links are cables.                                                       *)
LEMMA Peers ==
  ASSUME NEW d \in Dev, NEW z \in Coord
  PROVE  /\ <<d, z>> \in Point
         /\ PeerOf(<<d, z>>) = IF LinkAt(node[d], z).t \in Dev
                                 THEN <<LinkAt(node[d], z).t, LinkAt(node[d], z).i>> ELSE << >>
         /\ PeerOf(<<d, z>>)' = IF LinkAt(node'[d], z).t \in Dev
                                  THEN <<LinkAt(node'[d], z).t, LinkAt(node'[d], z).i>> ELSE << >>
         /\ SameAt(node[d], node'[d], z) => PeerOf(<<d, z>>)' = PeerOf(<<d, z>>)
<1>1. <<d, z>> \in Point
  BY Coords
<1> QED
  BY <1>1 DEF PeerOf, At2, SameAt

(* Two points change, and no other.                                        *)
LEMMA OtherPeers ==
  ASSUME NEW P, NEW Q,
         \A d \in Dev, z \in Coord : <<d, z>> \notin {P, Q} => SameAt(node[d], node'[d], z)
  PROVE  \A r \in Point \ {P, Q} : PeerOf(r)' = PeerOf(r)
<1>1. ASSUME NEW r \in Point, r \notin {P, Q} PROVE PeerOf(r)' = PeerOf(r)
  <2>1. PICK d \in Dev, z \in Coord : r = <<d, z>>
    BY Coords
  <2>2. SameAt(node[d], node'[d], z)
    BY <1>1, <2>1
  <2> QED
    BY <2>1, <2>2, Peers
<1> QED
  BY <1>1

LEMMA AttachPlugs ==
  ASSUME CInv, NEW item \in Dev, NEW dev \in Dev, NEW p \in At, NEW q \in At,
         CarefulAttach(item, p, dev, q)
  PROVE  Cables!Plug
<1>0. SUFFICES ASSUME NEW x, x = Actual(node[item], p), NEW y, y = Actual(node[dev], q)
               PROVE  Cables!Plug
  OBVIOUS
<1> DEFINE P == <<item, x>>
           Q == <<dev, y>>
<1>1. /\ x \in Coord /\ y \in Coord /\ <<item, x>> # <<dev, y>>
      /\ LinkAt(node[item], x).t \notin Dev
      /\ LinkAt(node[dev], y).t \notin Dev
      /\ LinkAt(node'[item], x) = [t |-> dev, i |-> y]
      /\ LinkAt(node'[dev], y) = [t |-> item, i |-> x]
      /\ \A d \in Dev, z \in Coord : <<d, z>> \notin {<<item, x>>, <<dev, y>>}
             => SameAt(node[d], node'[d], z)
  BY <1>0, AttachPoints
<1>2. /\ P \in Point /\ Q \in Point /\ P # Q
      /\ PeerOf(P) = << >> /\ PeerOf(Q) = << >>
  BY <1>1, Peers
<1>3. PeerOf(P)' = Q
  <2>1. LinkAt(node'[item], x).t = dev /\ LinkAt(node'[item], x).i = y
    BY <1>1
  <2> QED
    BY <1>1, <2>1, Peers
<1>4. PeerOf(Q)' = P
  <2>1. LinkAt(node'[dev], y).t = item /\ LinkAt(node'[dev], y).i = x
    BY <1>1
  <2> QED
    BY <1>1, <2>1, Peers
<1>5. \A r \in Point \ {P, Q} : PeerOf(r)' = PeerOf(r)
  BY <1>1, OtherPeers
<1> HIDE DEF P, Q
<1>6. [r \in Point |-> PeerOf(r)'] = [[r \in Point |-> PeerOf(r)] EXCEPT ![P] = Q, ![Q] = P]
  BY <1>2, <1>3, <1>4, <1>5
<1> QED
  BY <1>2, <1>3, <1>6 DEF Cables!Plug

LEMMA DeattachPulls ==
  ASSUME CInv, NEW item \in Dev, NEW p \in At, Deattach(item, p)
  PROVE  Cables!Pull
<1>0. SUFFICES ASSUME NEW dev, dev = LinkAt(node[item], p).t,
                      NEW y, y = LinkAt(node[item], p).i
               PROVE  Cables!Pull
  OBVIOUS
<1> DEFINE P == <<item, p>>
           Q == <<dev, y>>
<1>1. /\ p \in Coord /\ dev \in Dev /\ y \in Coord
      /\ LinkAt(node[dev], y) = [t |-> item, i |-> p]
      /\ node' \in [Dev -> Node] /\ \A d \in Dev : Fits(node'[d])
      /\ LinkAt(node'[item], p).t \notin Dev
      /\ LinkAt(node'[dev], y).t \notin Dev
      /\ \A d \in Dev, z \in Coord : <<d, z>> \notin {<<item, p>>, <<dev, y>>}
             => SameAt(node[d], node'[d], z)
  BY <1>0, DeattachPoints
<1>2. P \in Point /\ Q \in Point
  BY <1>1, Peers
<1>3. PeerOf(P) = Q
  BY <1>0, <1>1, Peers
<1>4. PeerOf(P)' = << >> /\ PeerOf(Q)' = << >>
  BY <1>1, Peers
<1>5. \A r \in Point \ {P, Q} : PeerOf(r)' = PeerOf(r)
  BY <1>1, OtherPeers
<1>6. Q # << >>
  OBVIOUS
<1> HIDE DEF P, Q
<1>7. [r \in Point |-> PeerOf(r)']
         = [[r \in Point |-> PeerOf(r)] EXCEPT ![P] = << >>, ![PeerOf(P)] = << >>]
  BY <1>2, <1>3, <1>4, <1>5
<1> QED
  BY <1>2, <1>3, <1>6, <1>7 DEF Cables!Pull

(* For the same clients, links are cables: an attach plugs one into two    *)
(* points that had none, a deattach pulls out both ends of the one it      *)
(* finds, and no other operation of theirs moves a cable.                  *)
THEOREM LinksAreCables == CarefulSpec => IsCabling
<1>1. Init => Cables!Init
  <2> SUFFICES ASSUME Init PROVE \A r \in Point : PeerOf(r) = << >>
    BY DEF Cables!Init
  <2>1. \A d \in Dev, z \in Coord : LinkAt(node[d], z).t \notin Dev
    <3>1. \A d \in Dev : node[d] = [up |-> Empty, table |-> << >>, count |-> 0]
      BY DEF Init
    <3> QED
      BY <3>1, Pointers, Coords DEF LinkAt, Entry
  <2> QED
    BY <2>1, Coords DEF PeerOf, At2
<1>2. CInv /\ [Careful]_vars => [Cables!Next]_([p \in Point |-> PeerOf(p)])
  <2> SUFFICES ASSUME CInv, [Careful]_vars
               PROVE  \/ Cables!Plug \/ Cables!Pull
                      \/ [p \in Point |-> PeerOf(p)'] = [p \in Point |-> PeerOf(p)]
    BY DEF Cables!Next
  <2>1. node' = node => \A r \in Point : PeerOf(r)' = PeerOf(r)
    BY DEF PeerOf, At2
  <2>2. CASE \E item, dev \in Dev, p, q \in At : CarefulAttach(item, p, dev, q)
    BY <2>2, AttachPlugs
  <2>3. CASE \E item \in Dev, p \in At : Deattach(item, p)
    BY <2>3, DeattachPulls
  <2>4. CASE UNCHANGED vars \/ \E item \in Bus, p \in At, m \in Memory : AttachMemory(item, p, m)
    BY <2>1, <2>4 DEF vars, AttachMemory
  <2> QED
    BY <2>2, <2>3, <2>4 DEF Careful
<1> QED
  BY <1>1, <1>2, InitCInv, NextCInv, PTL DEF CarefulSpec, IsCabling, Cables!Spec
=============================================================================
