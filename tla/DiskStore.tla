----------------------------- MODULE DiskStore ------------------------------
(***************************************************************************)
(* Disk media (disk.cpp) and where their blocks are kept: nowhere; a file, *)
(* read and written on the spot; or Redis, by way of a queue of commands   *)
(* (persist.cpp, session.cpp) of which one is outstanding at a time        *)
(* (redis.cpp).  A disk holds one block at a time, which the drive reads   *)
(* and writes, and a copy by which to tell whether it was written.         *)
(*                                                                         *)
(* Disks are in Redis when they were loaded from there, which Loading is   *)
(* about; until persist_find_session finds the Redis session none is.      *)
(*                                                                         *)
(* A block is a function of its sectors.  Replies are taken whole: a reply *)
(* cut between two receptions is left out, as are refused reads and the    *)
(* commands that do not concern this disk.                                 *)
(***************************************************************************)
EXTENDS Naturals, Sequences

CONSTANTS
    Block,          \* block numbers
    Sector,         \* sectors of a block (4)
    Value,          \* contents of a sector
    Blank,          \* the value of zeroed bytes
    QueueLimit,     \* commands the queue holds (cmdqlimit - 1)
    Backing,        \* where disks may be kept: "none", "file", "redis"
    Fresh,          \* and where some of their blocks were never written
    Faults          \* what may go wrong: Redis refuses to write ("nowrite"),
                    \* or its session ends ("drop")

ASSUME BlockAssumption == 0 \in Block /\ Block \subseteq Nat
ASSUME BlankAssumption == Blank \in Value
ASSUME QueueAssumption == QueueLimit \in Nat \ {0}
ASSUME BackingAssumption == Backing \subseteq {"none", "file", "redis"} /\ Fresh \subseteq Backing

Data == [Sector -> Value]
Zeroes == [s \in Sector |-> Blank]
Missing == << >>    \* a block behind the end of the stored string

VARIABLES
    media,      \* [kept, index, block, dblock]: the backing and disk_svstate
    store,      \* what the file or Redis holds
    cmdq,       \* the Redis session's commands for this disk
    wire,       \* the request or the reply of the one that was sent
    linked      \* there is a Redis session

diskVars == <<media, store, cmdq, wire, linked>>

Load(b) == [cmd |-> "DISKLOAD", rd |-> b, wr |-> 0]
WriteLoad(b, from) == [cmd |-> "DISKWRLD", rd |-> b, wr |-> from]

(* The disk was attached after its first block had been loaded.            *)
Contents(kept) ==
    [Block -> IF kept = "none" THEN {Missing}
              ELSE Data \cup (IF kept \in Fresh THEN {Missing} ELSE {})]

DiskInit ==
    /\ \E kept \in Backing :
          /\ store \in Contents(kept)
          /\ media = LET first == IF store[0] = Missing THEN Zeroes ELSE store[0]
                     IN  [kept |-> kept, index |-> 0, block |-> first, dblock |-> first]
    /\ cmdq = << >>
    /\ wire = << >>
    /\ linked = (media.kept = "redis")

-----------------------------------------------------------------------------
InFile == media.kept = "file"
InRedis == media.kept = "redis"
IsDirty == media.block # media.dblock       \* isi_test_disk

(* persist_disk: with no session, or a full queue, nothing is queued, and  *)
(* nobody is told.                                                         *)
Persist(c) == IF linked /\ Len(cmdq) < QueueLimit THEN Append(cmdq, c) ELSE cmdq

(* Bytes before a block written in a string that ends earlier are zeroes.  *)
Stored(st, b, data) ==
    [x \in Block |-> IF x = b THEN data
                     ELSE IF x < b /\ st[x] = Missing THEN Zeroes ELSE st[x]]

FileAfter == IF IsDirty THEN Stored(store, media.index, media.block) ELSE store
FileBlock(b) == IF FileAfter[b] = Missing THEN Zeroes ELSE FileAfter[b]

(* ISE_DISKRESET: a block was loaded.                                      *)
ArrivedUncopied(b, block) == [media EXCEPT !.index = b, !.block = block]
Arrived(b, block) == [media EXCEPT !.index = b, !.block = block, !.dblock = block]

(* ISE_DISKSEEK.  A disk that is kept nowhere stays at its block.          *)
SeekLoses(b) ==
    /\ cmdq' = IF b = media.index \/ ~InRedis THEN cmdq ELSE Persist(Load(b))
    /\ UNCHANGED <<media, store>>
Seek(b) ==
    \/ /\ b # media.index /\ InFile
       /\ store' = FileAfter
       /\ media' = Arrived(b, FileBlock(b))
       /\ UNCHANGED cmdq
    \/ /\ b # media.index /\ InRedis
       /\ cmdq' = Persist(IF IsDirty THEN WriteLoad(b, media.index) ELSE Load(b))
       /\ UNCHANGED <<media, store>>
    \/ /\ b = media.index \/ media.kept = "none"
       /\ UNCHANGED <<media, store, cmdq>>

-----------------------------------------------------------------------------
(* The Redis session.  STick sends the first command, once, with the       *)
(* block as it is by then.                                                 *)
STick ==
    /\ cmdq # << >> /\ wire = << >>
    /\ wire' = IF Head(cmdq).cmd = "DISKLOAD"
                 THEN <<"GETRANGE", Head(cmdq).rd>>
                 ELSE <<"SETRANGE", Head(cmdq).wr, media.block>>
    /\ UNCHANGED <<media, store, cmdq, linked>>

(* Redis executes a request and answers it.                                *)
Serve ==
    /\ \/ /\ wire # << >> /\ wire[1] = "GETRANGE"
          /\ wire' = <<"DATA", store[wire[2]]>>
          /\ UNCHANGED store
       \/ /\ wire # << >> /\ wire[1] = "SETRANGE"
          /\ store' = Stored(store, wire[2], wire[3])
          /\ wire' = <<"INT">>
       \/ /\ wire # << >> /\ wire[1] = "SETRANGE" /\ "nowrite" \in Faults
          /\ wire' = <<"ERR">>
          /\ UNCHANGED store
    /\ UNCHANGED <<media, cmdq, linked>>

(* The end of a write-and-load is a load still to be sent; but only when   *)
(* the write succeeded.  A load ends with whatever is in the block then:   *)
(* data shorter than a block are not filled up, since the bytes that frame *)
(* a reply are counted as the block's.                                     *)
RecvLoadsFirst ==
    /\ wire # << >> /\ wire[1] = "INT" /\ Head(cmdq).cmd = "DISKWRLD"
    /\ cmdq' = Tail(cmdq)
    /\ wire' = << >>
    /\ UNCHANGED <<media, store, linked>>
RecvWritten ==
    /\ wire # << >> /\ wire[1] = "INT" /\ Head(cmdq).cmd = "DISKWRLD"
    /\ cmdq' = [cmdq EXCEPT ![1].cmd = "DISKLOAD"]
    /\ wire' = << >>
    /\ UNCHANGED <<media, store, linked>>

RecvLoaded ==
    /\ wire # << >> /\ wire[1] = "DATA" /\ Head(cmdq).cmd = "DISKLOAD"
    /\ media' = Arrived(Head(cmdq).rd, IF wire[2] # Missing THEN wire[2] ELSE media.block)
    /\ cmdq' = Tail(cmdq)
    /\ wire' = << >>
    /\ UNCHANGED <<store, linked>>

RecvRefused ==
    /\ wire # << >> /\ wire[1] = "ERR" /\ Head(cmdq).cmd = "DISKWRLD"
    /\ cmdq' = Tail(cmdq)
    /\ wire' = << >>
    /\ UNCHANGED <<media, store, linked>>

Recv == RecvWritten \/ RecvLoaded \/ RecvRefused

(* The session goes, queue and all, and no other is made; Redis may still  *)
(* execute a request it was sent.                                          *)
UnlinkKeepsReply ==
    /\ linked' = FALSE /\ cmdq' = << >>
    /\ UNCHANGED <<store, wire>>
Unlink ==
    /\ linked' = FALSE /\ cmdq' = << >> /\ wire' = << >>
    /\ \/ UNCHANGED store
       \/ /\ wire # << >> /\ wire[1] = "SETRANGE"
          /\ store' = Stored(store, wire[2], wire[3])

(* The main loop deletes a session whose Recv failed.                      *)
Disconnect ==
    /\ "drop" \in Faults /\ linked
    /\ Unlink
    /\ UNCHANGED media

(* At the end of main the sessions go first, then the objects: Unload      *)
(* writes a dirty block back, and finds no Redis session to do it.         *)
Unload ==
    \/ InFile /\ store' = FileAfter /\ UNCHANGED <<cmdq, wire, linked>>
    \/ ~InFile /\ Unlink

Background == STick \/ Serve \/ Recv
=============================================================================
