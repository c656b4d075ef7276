---------------------------- MODULE FloppyProofs ----------------------------
(***************************************************************************)
(* Proofs about Floppy, with the disk it moves by DiskStore, for any       *)
(* blocks, sectors, contents, faults and length of the queue, and programs *)
(* that are patient.                                                       *)
(***************************************************************************)
EXTENDS Floppy, SequenceTheorems, TLAPS

-----------------------------------------------------------------------------
(* What is stored, and what a block of it reads as.                        *)
StoreType == [Block -> Data \cup {Missing}]
Shown(d) == IF d = Missing THEN Zeroes ELSE d

LEMMA DataIsThere == Zeroes \in Data /\ \A d \in Data : d # Missing
<1>1. Zeroes \in Data
  BY BlankAssumption DEF Zeroes, Data
<1>2. ASSUME NEW d \in Data PROVE d # Missing
  <2>1. 0 \in DOMAIN d
    BY SectorAssumption DEF Data
  <2>2. DOMAIN Missing = {}
    BY DEF Missing
  <2> QED
    BY <2>1, <2>2
<1> QED
  BY <1>1, <1>2

(* A block that is written is there, and the others read as before.        *)
LEMMA StoredKeeps ==
  ASSUME NEW st \in StoreType, NEW b \in Block, NEW data \in Data
  PROVE  /\ Stored(st, b, data) \in StoreType
         /\ Stored(st, b, data)[b] = data
         /\ \A x \in Block \ {b} :
               /\ Shown(Stored(st, b, data)[x]) = Shown(st[x])
               /\ st[x] # Missing => Stored(st, b, data)[x] = st[x]
<1>1. \A x \in Block : Stored(st, b, data)[x] =
          IF x = b THEN data ELSE IF x < b /\ st[x] = Missing THEN Zeroes ELSE st[x]
  BY DEF Stored
<1>2. Stored(st, b, data) \in StoreType
  BY <1>1, DataIsThere DEF Stored, StoreType
<1> QED
  BY <1>1, <1>2, DataIsThere DEF Shown

-----------------------------------------------------------------------------
(* The invariant.  A command is in the queue only while there is a session *)
(* to send it, for a block other than the disk's, and the drive asked for  *)
(* nothing since: so the block in memory stays what it was.                *)
Typed ==
    /\ media \in [kept : Backing, index : Block, block : Data, dblock : Data]
    /\ store \in StoreType
    /\ drive \in [oper : Oper, errcode : Errcode, place : Place, svbuf : Value]
    /\ inserted \in BOOLEAN /\ off \in BOOLEAN /\ linked \in BOOLEAN
    /\ got \in {<< >>} \cup (Place \X Value)

StoredAs(block) == store[media.index] # Missing => store[media.index] = block

LoadingBlock(b, w) ==
    /\ Busy => drive.place[1] = b
    /\ cmdq = <<[cmd |-> "DISKLOAD", rd |-> b, wr |-> w]>>
    /\ wire \in {<< >>, <<"GETRANGE", b>>, <<"DATA", store[b]>>}
    /\ StoredAs(media.block)

WritingBlock(b) ==
    /\ Busy => drive.place[1] = b
    /\ cmdq = <<[cmd |-> "DISKWRLD", rd |-> b, wr |-> media.index]>>
    /\ \/ /\ wire \in {<< >>, <<"SETRANGE", media.index, media.block>>, <<"ERR">>}
          /\ StoredAs(media.dblock)
       \/ wire = <<"INT">> /\ StoredAs(media.block)

Quiet == cmdq = << >> /\ wire = << >> /\ (linked => StoredAs(media.dblock))

Moving ==
    /\ linked
    /\ \E b \in Block \ {media.index} :
          WritingBlock(b) \/ \E w \in Block : LoadingBlock(b, w)

IInv ==
    /\ Typed
    /\ linked => InRedis
    /\ Quiet \/ Moving
    /\ InFile /\ ~off => media.dblock = Shown(store[media.index])

-----------------------------------------------------------------------------
LEMMA IInvImplies == IInv => TypeOK /\ CopyIsStored
<1> SUFFICES ASSUME IInv PROVE TypeOK /\ CopyIsStored
  OBVIOUS
<1>1. cmdq \in Seq(Command) /\ Len(cmdq) <= QueueLimit /\ (wire # << >> => cmdq # << >>)
  <2>1. CASE Quiet
    BY <2>1, QueueAssumption DEF Quiet
  <2>2. CASE Moving
    <3>1. PICK b \in Block, w \in Block, c \in {"DISKLOAD", "DISKWRLD"} :
              cmdq = <<[cmd |-> c, rd |-> b, wr |-> w]>>
      BY <2>2 DEF Moving, WritingBlock, LoadingBlock, IInv, Typed
    <3>2. [cmd |-> c, rd |-> b, wr |-> w] \in Command
      BY DEF Command
    <3> QED
      BY <3>1, <3>2, QueueAssumption
  <2> QED
    BY <2>1, <2>2 DEF IInv
<1>2. TypeOK
  BY <1>1 DEF TypeOK, IInv, Typed, StoreType
<1>3. CopyIsStored
  <2>1. CASE Moving
    BY <2>1 DEF Moving, WritingBlock, LoadingBlock, CopyIsStored, Settled
  <2>2. CASE Quiet
    BY <2>2 DEF Quiet, IInv, CopyIsStored, StoredAs, Shown
  <2> QED
    BY <2>1, <2>2 DEF IInv
<1> QED
  BY <1>2, <1>3

LEMMA InitIInv == Init => IInv
<1> SUFFICES ASSUME Init PROVE IInv
  OBVIOUS
<1> DEFINE first == IF store[0] = Missing THEN Zeroes ELSE store[0]
<1>1. PICK kept \in Backing :
         /\ store \in Contents(kept)
         /\ media = [kept |-> kept, index |-> 0, block |-> first, dblock |-> first]
  BY DEF Init, DiskInit
<1>2. store \in StoreType
  BY <1>1 DEF Contents, StoreType
<1>3. first \in Data
  BY <1>2, DataIsThere, BlockAssumption DEF StoreType
<1>4. Typed
  BY <1>1, <1>2, <1>3, BlockAssumption, BlankAssumption, SectorAssumption
     DEF Typed, Init, DiskInit, Oper, Errcode, Place, NoPlace
<1>5. Quiet /\ (linked => InRedis)
  BY <1>1 DEF Init, DiskInit, Quiet, StoredAs, InRedis
<1>6. media.dblock = Shown(store[media.index])
  BY <1>1 DEF Shown
<1> QED
  BY <1>4, <1>5, <1>6 DEF IInv

-----------------------------------------------------------------------------
(* The steps.  First those that leave the disk alone: they may end the     *)
(* drive's request, and take a disk out or put it in.                      *)
LEMMA DiskAlone ==
  ASSUME IInv, Typed', UNCHANGED <<diskVars, off>>,
         Busy' => Busy /\ drive'.place = drive.place
  PROVE  IInv'
<1>1. Quiet => Quiet'
  BY DEF Quiet, StoredAs, diskVars
<1>2. Moving => Moving'
  <2> SUFFICES ASSUME Moving PROVE Moving'
    OBVIOUS
  <2>1. PICK b \in Block \ {media.index} :
           WritingBlock(b) \/ \E w \in Block : LoadingBlock(b, w)
    BY DEF Moving
  <2>2. (WritingBlock(b) \/ \E w \in Block : LoadingBlock(b, w))'
    BY <2>1 DEF WritingBlock, LoadingBlock, StoredAs, diskVars
  <2> QED
    BY <2>2 DEF Moving, diskVars
<1> QED
  BY <1>1, <1>2 DEF IInv, InFile, InRedis, Shown, diskVars

(* A request of a program that is patient moves a disk that is not moving. *)
LEMMA SeekIInv ==
  ASSUME IInv, ~off, Settled, NEW b \in Block, Seek(b), UNCHANGED <<wire, linked, off>>,
         drive' \in [oper : Oper, errcode : Errcode, place : Place, svbuf : Value],
         drive'.place[1] = b, inserted' = inserted, got' = << >>
  PROVE  IInv'
<1>1. Quiet
  BY DEF Settled, Moving, WritingBlock, LoadingBlock, IInv
<1>2. CASE b # media.index /\ InFile
  <2>1. /\ store' = FileAfter
        /\ media' = [media EXCEPT !.index = b, !.block = FileBlock(b), !.dblock = FileBlock(b)]
        /\ cmdq' = cmdq
    BY <1>2 DEF Seek, Arrived, InRedis, InFile
  <2>2. store' \in StoreType
    BY <2>1, StoredKeeps DEF FileAfter, IInv, Typed
  <2>3. FileBlock(b) = Shown(store'[b]) /\ FileBlock(b) \in Data
    BY <2>1, <2>2, DataIsThere DEF FileBlock, Shown, StoreType
  <2>4. Typed'
    BY <2>1, <2>2, <2>3 DEF Typed, IInv
  <2>5. ~linked
    BY <1>2 DEF IInv, InFile, InRedis
  <2>6. Quiet'
    BY <1>1, <2>1, <2>5 DEF Quiet
  <2>7. media'.dblock = Shown(store'[media'.index])
    BY <2>1, <2>3 DEF IInv, Typed
  <2> QED
    BY <2>4, <2>5, <2>6, <2>7 DEF IInv, Shown
<1>3. CASE b # media.index /\ InRedis
  <2>1. /\ cmdq' = Persist(IF IsDirty THEN WriteLoad(b, media.index) ELSE Load(b))
        /\ UNCHANGED <<media, store>>
    BY <1>3 DEF Seek, InRedis, InFile
  <2>2. Typed'
    BY <2>1 DEF Typed, IInv
  <2>3. CASE ~linked
    <3>1. Quiet'
      BY <1>1, <2>1, <2>3 DEF Quiet, Persist
    <3> QED
      BY <1>3, <2>1, <2>2, <2>3, <3>1 DEF IInv, InFile, InRedis
  <2>4. CASE linked
    <3>1. cmdq' = <<IF IsDirty THEN WriteLoad(b, media.index) ELSE Load(b)>>
      BY <1>1, <2>1, <2>4, QueueAssumption DEF Persist, Quiet
    <3>2. StoredAs(media.dblock)
      BY <1>1, <2>4 DEF Quiet
    <3>3. CASE IsDirty
      <4>1. WritingBlock(b)'
        BY <1>1, <2>1, <3>1, <3>2, <3>3 DEF WritingBlock, WriteLoad, StoredAs, Quiet
      <4> QED
        BY <1>3, <2>1, <2>2, <2>4, <4>1 DEF IInv, Moving, InFile, InRedis
    <3>4. CASE ~IsDirty
      <4>1. LoadingBlock(b, 0)'
        BY <1>1, <2>1, <3>1, <3>2, <3>4 DEF LoadingBlock, Load, StoredAs, Quiet, IsDirty
      <4> QED
        BY <1>3, <2>1, <2>2, <2>4, <4>1, BlockAssumption DEF IInv, Moving, InFile, InRedis
    <3> QED
      BY <3>3, <3>4
  <2> QED
    BY <2>3, <2>4
<1>4. CASE UNCHANGED <<media, store, cmdq>>
  <2>1. Typed' /\ Quiet'
    BY <1>1, <1>4 DEF Typed, IInv, Quiet, StoredAs
  <2> QED
    BY <1>4, <2>1 DEF IInv, InFile, InRedis, Shown
<1> QED
  BY <1>2, <1>3, <1>4 DEF Seek

(* The session's steps, which never change the disk's backing: what Redis  *)
(* does to the queue, to the wire and to the stored block together.        *)
LEMMA BackgroundIInv ==
  ASSUME IInv, ~off, Background, UNCHANGED <<drive, inserted, off>>, got' = << >>
  PROVE  IInv'
<1>1. Moving /\ linked /\ InRedis
  BY DEF IInv, Quiet, Background, STick, Serve, Recv, RecvWritten, RecvLoaded, RecvRefused, Moving
<1>2. PICK b \in Block \ {media.index} :
         WritingBlock(b) \/ \E w \in Block : LoadingBlock(b, w)
  BY <1>1 DEF Moving
<1>3. InRedis' /\ linked' /\ Busy' = Busy /\ drive' = drive
  <2>1. media'.kept = media.kept
    BY DEF Background, STick, Serve, Recv, RecvWritten, RecvLoaded, RecvRefused, Arrived, IInv, Typed
  <2> QED
    BY <1>1, <2>1 DEF InRedis, Busy, Background, STick, Serve, Recv, RecvWritten, RecvLoaded, RecvRefused
<1>4. SUFFICES Typed' /\ (Quiet' \/ Moving')
  BY <1>3 DEF IInv, InFile, InRedis
<1>5. SUFFICES ASSUME UNCHANGED media \/ media' \in [kept : Backing, index : Block, block : Data, dblock : Data],
                      store' \in StoreType
               PROVE  Quiet' \/ Moving'
  <2>1. store' \in StoreType
    <3>1. CASE WritingBlock(b)
      BY <3>1, StoredKeeps DEF WritingBlock, IInv, Typed, Background, STick, Serve, Recv,
         RecvWritten, RecvLoaded, RecvRefused
    <3>2. ASSUME NEW w \in Block, LoadingBlock(b, w) PROVE store' \in StoreType
      BY <3>2 DEF LoadingBlock, IInv, Typed, Background, STick, Serve, Recv,
         RecvWritten, RecvLoaded, RecvRefused
    <3> QED
      BY <1>2, <3>1, <3>2
  <2>2. media' \in [kept : Backing, index : Block, block : Data, dblock : Data]
    <3>1. CASE RecvLoaded
      <4>1. PICK w \in Block : LoadingBlock(b, w)
        BY <1>2, <3>1 DEF RecvLoaded, WritingBlock
      <4>2. wire[2] = store[b] /\ Head(cmdq).rd = b
        BY <3>1, <4>1 DEF RecvLoaded, LoadingBlock
      <4>3. wire[2] # Missing => wire[2] \in Data
        BY <4>2 DEF IInv, Typed, StoreType
      <4> QED
        BY <3>1, <4>2, <4>3 DEF RecvLoaded, Arrived, IInv, Typed
    <3> QED
      BY <3>1 DEF IInv, Typed, Background, STick, Serve, Recv, RecvWritten, RecvRefused
  <2> QED
    BY <2>1, <2>2 DEF Typed, IInv, Background, STick, Serve, Recv, RecvWritten, RecvLoaded, RecvRefused
<1>6. CASE STick
  <2>1. CASE WritingBlock(b)
    <3>1. WritingBlock(b)'
      BY <1>3, <1>6, <2>1 DEF STick, WritingBlock, StoredAs
    <3> QED
      BY <1>3, <1>6, <3>1 DEF STick, Moving
  <2>2. ASSUME NEW w \in Block, LoadingBlock(b, w) PROVE Moving'
    <3>1. LoadingBlock(b, w)'
      BY <1>3, <1>6, <2>2 DEF STick, LoadingBlock, StoredAs
    <3> QED
      BY <1>3, <1>6, <3>1 DEF STick, Moving
  <2> QED
    BY <1>2, <2>1, <2>2
<1>7. CASE Serve
  <2>1. CASE WritingBlock(b)
    <3>1. wire = <<"SETRANGE", media.index, media.block>>
      BY <1>7, <2>1 DEF Serve, WritingBlock
    <3>2. CASE wire' = <<"ERR">> /\ UNCHANGED store
      <4>1. StoredAs(media.dblock)
        BY <2>1, <3>1 DEF WritingBlock
      <4>2. WritingBlock(b)'
        BY <1>3, <1>7, <2>1, <3>2, <4>1 DEF Serve, WritingBlock, StoredAs
      <4> QED
        BY <1>3, <1>7, <4>2 DEF Serve, Moving
    <3>3. CASE wire' = <<"INT">> /\ store' = Stored(store, wire[2], wire[3])
      <4>1. store'[media.index] = media.block
        BY <3>1, <3>3, StoredKeeps DEF IInv, Typed
      <4>2. WritingBlock(b)'
        BY <1>3, <1>7, <2>1, <3>3, <4>1 DEF Serve, WritingBlock, StoredAs
      <4> QED
        BY <1>3, <1>7, <4>2 DEF Serve, Moving
    <3> QED
      BY <1>7, <3>1, <3>2, <3>3 DEF Serve
  <2>2. ASSUME NEW w \in Block, LoadingBlock(b, w) PROVE Moving'
    <3>1. wire = <<"GETRANGE", b>>
      BY <1>7, <2>2 DEF Serve, LoadingBlock
    <3>2. LoadingBlock(b, w)'
      BY <1>3, <1>7, <2>2, <3>1 DEF Serve, LoadingBlock, StoredAs
    <3> QED
      BY <1>3, <1>7, <3>2 DEF Serve, Moving
  <2> QED
    BY <1>2, <2>1, <2>2
<1>8. CASE RecvWritten
  <2>1. WritingBlock(b)
    BY <1>2, <1>8 DEF RecvWritten, LoadingBlock
  <2>2. StoredAs(media.block)
    BY <1>8, <2>1 DEF RecvWritten, WritingBlock
  <2>3. cmdq' = <<[cmd |-> "DISKLOAD", rd |-> b, wr |-> media.index]>>
    BY <1>8, <2>1 DEF RecvWritten, WritingBlock
  <2>4. LoadingBlock(b, media.index)'
    BY <1>3, <1>8, <2>1, <2>2, <2>3 DEF RecvWritten, LoadingBlock, StoredAs, WritingBlock
  <2> QED
    BY <1>3, <1>8, <2>4 DEF RecvWritten, Moving, IInv, Typed
<1>9. CASE RecvLoaded
  <2>1. PICK w \in Block : LoadingBlock(b, w)
    BY <1>2, <1>9 DEF RecvLoaded, WritingBlock
  <2>2. wire[2] = store[b] /\ Head(cmdq).rd = b /\ Tail(cmdq) = << >>
    BY <1>9, <2>1 DEF RecvLoaded, LoadingBlock
  <2>3. media'.index = b /\ (store[b] # Missing => media'.dblock = store[b])
    BY <1>9, <2>2 DEF RecvLoaded, Arrived, IInv, Typed
  <2> QED
    BY <1>9, <2>2, <2>3 DEF RecvLoaded, Quiet, StoredAs
<1>10. CASE RecvRefused
  <2>1. WritingBlock(b)
    BY <1>2, <1>10 DEF RecvRefused, LoadingBlock
  <2>2. StoredAs(media.dblock) /\ Tail(cmdq) = << >>
    BY <1>10, <2>1 DEF RecvRefused, WritingBlock
  <2> QED
    BY <1>10, <2>2 DEF RecvRefused, Quiet, StoredAs
<1> QED
  BY <1>6, <1>7, <1>8, <1>9, <1>10 DEF Background, Recv

(* A request that is finished is one whose block has arrived.              *)
LEMMA FinishIInv == IInv /\ ~off /\ Finish => IInv'
<1> SUFFICES ASSUME IInv, ~off, Finish PROVE IInv'
  OBVIOUS
<1>1. Quiet
  BY DEF IInv, Finish, Moving, WritingBlock, LoadingBlock
<1>2. /\ UNCHANGED <<store, cmdq, wire, linked, inserted, off>>
      /\ media'.kept = media.kept /\ media'.index = media.index /\ media'.dblock = media.dblock
  BY DEF Finish, IInv, Typed
<1>3. drive.place \in Place /\ drive.place[2] \in Sector
  BY DEF IInv, Typed, Place
<1>4. media' \in [kept : Backing, index : Block, block : Data, dblock : Data]
  BY <1>3 DEF Finish, IInv, Typed, Data
<1>5. got' \in {<< >>} \cup (Place \X Value)
  BY <1>3 DEF Finish, IInv, Typed, Data
<1>6. drive' \in [oper : Oper, errcode : Errcode, place : Place, svbuf : Value]
  BY DEF Finish, IInv, Typed, Oper
<1>7. Typed' /\ Quiet'
  BY <1>1, <1>2, <1>4, <1>5, <1>6 DEF Typed, IInv, Quiet, StoredAs
<1> QED
  BY <1>2, <1>7 DEF IInv, InFile, InRedis, Shown

(* The end of the session takes the queue with it.                         *)
LEMMA UnlinkIInv == IInv /\ ~off /\ Disconnect /\ got' = << >> /\ UNCHANGED <<drive, inserted, off>> => IInv'
<1> SUFFICES ASSUME IInv, Disconnect, got' = << >>, UNCHANGED <<drive, inserted, off>>
             PROVE  IInv'
  OBVIOUS
<1>1. InRedis /\ UNCHANGED media /\ linked' = FALSE /\ cmdq' = << >> /\ wire' = << >>
  BY DEF Disconnect, Unlink, IInv
<1>2. store' \in StoreType
  <2>1. ASSUME wire # << >>, wire[1] = "SETRANGE"
        PROVE  wire[2] \in Block /\ wire[3] \in Data
    BY <2>1 DEF IInv, Quiet, Moving, WritingBlock, LoadingBlock, Typed
  <2> QED
    BY <2>1, StoredKeeps DEF Disconnect, Unlink, IInv, Typed
<1> QED
  BY <1>1, <1>2 DEF IInv, Typed, Quiet, InRedis, InFile

(* A file is written back before the disk is gone.                         *)
LEMMA ShutdownIInv == IInv /\ ~off /\ InFile /\ Shutdown => IInv'
<1> SUFFICES ASSUME IInv, InFile, Shutdown PROVE IInv'
  OBVIOUS
<1>1. store' = FileAfter /\ off' = TRUE /\ UNCHANGED <<cmdq, wire, linked, media, drive, inserted>>
  BY DEF Shutdown, Unload
<1>2. store' \in StoreType
  BY <1>1, StoredKeeps DEF FileAfter, IInv, Typed
<1>3. ~linked /\ Quiet
  BY DEF IInv, InFile, InRedis, Moving
<1> QED
  BY <1>1, <1>2, <1>3 DEF IInv, Typed, Quiet, Shutdown

LEMMA NextIInv == IInv /\ [PatientNext]_vars => IInv'
<1> SUFFICES ASSUME IInv, [PatientNext]_vars PROVE IInv'
  OBVIOUS
<1>1. ASSUME ~off, Settled, NEW p \in Place, HwiRead(p) PROVE IInv'
  <2>1. p[1] \in Block /\ Seek(p[1]) /\ UNCHANGED <<wire, linked, inserted, off>> /\ got' = << >>
    BY <1>1 DEF HwiRead, Place
  <2>2. /\ drive' \in [oper : Oper, errcode : Errcode, place : Place, svbuf : Value]
        /\ drive'.place[1] = p[1]
    BY <1>1 DEF HwiRead, IInv, Typed, Oper
  <2> QED
    BY <1>1, <2>1, <2>2, SeekIInv
<1>2. ASSUME ~off, Settled, NEW p \in Place, NEW v \in Value, HwiWrite(p, v) PROVE IInv'
  <2>1. p[1] \in Block /\ Seek(p[1]) /\ UNCHANGED <<wire, linked, inserted, off>> /\ got' = << >>
    BY <1>2 DEF HwiWrite, Place
  <2>2. /\ drive' \in [oper : Oper, errcode : Errcode, place : Place, svbuf : Value]
        /\ drive'.place[1] = p[1]
    BY <1>2 DEF HwiWrite, IInv, Typed, Oper
  <2> QED
    BY <1>2, <2>1, <2>2, SeekIInv
<1>3. CASE Status
  BY <1>3, DiskAlone DEF Status, IInv, Typed, Busy, Errcode, diskVars
<1>4. CASE Refuse
  BY <1>4, DiskAlone DEF Refuse, IInv, Typed, Busy, Errcode, diskVars
<1>5. CASE NoticeEject
  BY <1>5, DiskAlone DEF NoticeEject, IInv, Typed, Busy, Errcode, Oper, diskVars
<1>6. CASE NoticeMedia
  BY <1>6, DiskAlone DEF NoticeMedia, IInv, Typed, Busy, Oper, diskVars
<1>7. CASE Reset
  BY <1>7, DiskAlone, BlockAssumption, SectorAssumption
     DEF Reset, IInv, Typed, Busy, Errcode, Oper, Place, NoPlace, diskVars
<1>8. CASE Swap
  BY <1>8, DiskAlone DEF Swap, IInv, Typed, Busy, diskVars
<1>9. CASE UNCHANGED vars
  BY <1>9, DiskAlone DEF vars, IInv, Typed, Busy, diskVars
<1> QED
  BY <1>1, <1>2, <1>3, <1>4, <1>5, <1>6, <1>7, <1>8, <1>9,
     FinishIInv, BackgroundIInv, UnlinkIInv, ShutdownIInv
     DEF PatientNext, Requests, Others, Run, Loop

-----------------------------------------------------------------------------
(* The disk, the queue and the drive have their types: a block is never    *)
(* cut short, and the queue never longer than there is room for.           *)
THEOREM TypeCorrect == PatientSpec => []TypeOK
<1>1. PatientSpec => []IInv
  BY InitIInv, NextIInv, PTL DEF PatientSpec
<1> QED
  BY <1>1, IInvImplies, PTL

(* While no command is waiting, what tells a written block from one that   *)
(* was not is what is stored, whatever was refused or reset before.        *)
THEOREM CopyStored == PatientSpec => []CopyIsStored
<1>1. PatientSpec => []IInv
  BY InitIInv, NextIInv, PTL DEF PatientSpec
<1> QED
  BY <1>1, IInvImplies, PTL

-----------------------------------------------------------------------------
(* The drive and its disk are what the program expects.  What a block      *)
(* reads as is told apart from the drive, so that a step need only say     *)
(* which blocks it may have changed.                                       *)
Reads(b) == IF b = media.index /\ ~off THEN media.block ELSE Shown(store[b])

(* A disk in Redis was written from its first block to its last: a load of *)
(* a block that was not would leave the old one in its place.              *)
Whole == InRedis => \A b \in Block : store[b] # Missing

LEMMA ContentKept ==
  ASSUME \A b \in Block : Reads(b)' = Reads(b)
  PROVE  Content' = Content
<1>1. \A p \in Place : p[1] \in Block /\ p[2] \in Sector
  BY DEF Place
<1>2. \A s \in Sector : Zeroes[s] = Blank
  BY DEF Zeroes
<1>3. ASSUME NEW p \in Place
      PROVE  /\ Reads(p[1])[p[2]] = IF p[1] = media.index /\ ~off THEN media.block[p[2]]
                                    ELSE IF store[p[1]] = Missing THEN Blank ELSE store[p[1]][p[2]]
             /\ Reads(p[1])'[p[2]] = IF p[1] = media'.index /\ ~off' THEN media'.block[p[2]]
                                     ELSE IF store'[p[1]] = Missing THEN Blank ELSE store'[p[1]][p[2]]
  BY <1>1, <1>2 DEF Reads, Shown
<1> QED
  BY <1>1, <1>3 DEF Content

LEMMA InitMaps == Init => Device!Init
<1> SUFFICES ASSUME Init PROVE Device!Init
  OBVIOUS
<1>1. Typed
  BY InitIInv DEF IInv
<1>2. \A p \in Place : Content[p] \in Value
  BY <1>1, BlankAssumption DEF Content, Typed, Place, StoreType, Data
<1>3. Content \in [Place -> Value]
  BY <1>2 DEF Content
<1>4. Request = << >> /\ got = << >>
  BY DEF Init, Request, Busy
<1> QED
  BY <1>3, <1>4 DEF Device!Init

(* What the block in memory is stored as does not change what is read.     *)
LEMMA StoreReads ==
  ASSUME IInv, UNCHANGED <<media, off>>, ~off,
         store' = Stored(store, media.index, media.block)
  PROVE  Content' = Content /\ (Whole => Whole')
<1>1. \A x \in Block \ {media.index} :
         /\ Shown(store'[x]) = Shown(store[x])
         /\ store[x] # Missing => store'[x] # Missing
  BY StoredKeeps DEF IInv, Typed
<1>2. store'[media.index] # Missing
  BY StoredKeeps, DataIsThere DEF IInv, Typed
<1>3. \A x \in Block : Reads(x)' = Reads(x)
  BY <1>1 DEF Reads, Shown
<1>4. Whole => Whole'
  BY <1>1, <1>2 DEF Whole, InRedis
<1> QED
  BY <1>3, <1>4, ContentKept

(* A file that is written back holds the block as it was in memory.        *)
LEMMA WrittenBack ==
  ASSUME IInv, InFile, ~off
  PROVE  /\ Shown(FileAfter[media.index]) = media.block
         /\ \A x \in Block \ {media.index} : Shown(FileAfter[x]) = Shown(store[x])
<1>1. CASE IsDirty
  BY <1>1, StoredKeeps, DataIsThere DEF FileAfter, Shown, IInv, Typed
<1>2. CASE ~IsDirty
  BY <1>2 DEF FileAfter, IsDirty, IInv
<1> QED
  BY <1>1, <1>2

(* What moves a disk changes no sector, nor does it lose a block.          *)
LEMMA SeekReads ==
  ASSUME IInv, ~off, Settled, NEW b \in Block, Seek(b), off' = off
  PROVE  Content' = Content /\ (Whole => Whole')
<1>1. CASE b # media.index /\ InFile
  <2>1. store' = FileAfter /\ media' = Arrived(b, FileBlock(b))
    BY <1>1 DEF Seek, InRedis, InFile
  <2>2. media'.index = b /\ media'.block = FileBlock(b) /\ media'.kept = media.kept
    BY <2>1 DEF Arrived, IInv, Typed
  <2>3. Reads(b)' = Shown(store'[b])
    BY <2>1, <2>2 DEF FileBlock, Reads, Shown
  <2>4. \A x \in Block \ {b} : Reads(x)' = Shown(store'[x])
    BY <2>2 DEF Reads
  <2>5. \A x \in Block \ {media.index} : Shown(store'[x]) = Shown(store[x])
    BY <1>1, <2>1, WrittenBack
  <2>6. Shown(store'[media.index]) = media.block
    BY <1>1, <2>1, WrittenBack
  <2>7. \A x \in Block : Reads(x)' = Reads(x)
    BY <2>3, <2>4, <2>5, <2>6 DEF Reads
  <2> QED
    BY <1>1, <2>2, <2>7, ContentKept DEF Whole, InFile, InRedis
<1>2. CASE UNCHANGED <<media, store>>
  BY <1>2, ContentKept DEF Reads, Shown, Whole, InRedis
<1> QED
  BY <1>1, <1>2 DEF Seek

LEMMA BackgroundReads ==
  ASSUME IInv, Whole, ~off, Background, off' = off
  PROVE  Content' = Content /\ Whole'
<1>1. Moving /\ InRedis
  BY DEF IInv, Quiet, Background, STick, Serve, Recv, RecvWritten, RecvLoaded, RecvRefused, Moving
<1>2. PICK b \in Block \ {media.index} :
         WritingBlock(b) \/ \E w \in Block : LoadingBlock(b, w)
  BY <1>1 DEF Moving
<1>3. CASE UNCHANGED <<media, store>>
  BY <1>3, ContentKept DEF Reads, Shown, Whole, InRedis
<1>4. CASE RecvLoaded
  <2>1. PICK w \in Block : LoadingBlock(b, w)
    BY <1>2, <1>4 DEF RecvLoaded, WritingBlock
  <2>2. wire[2] = store[b] /\ Head(cmdq).rd = b
    BY <1>4, <2>1 DEF RecvLoaded, LoadingBlock
  <2>3. store[b] # Missing /\ store[media.index] = media.block /\ store[media.index] # Missing
    BY <1>1, <2>1 DEF LoadingBlock, StoredAs, Whole, IInv, Typed
  <2>4. media'.index = b /\ media'.block = store[b] /\ store' = store /\ media'.kept = media.kept
    BY <1>4, <2>2, <2>3 DEF RecvLoaded, Arrived, IInv, Typed
  <2>5. \A x \in Block : Reads(x)' = Reads(x)
    BY <2>3, <2>4 DEF Reads, Shown
  <2> QED
    BY <2>4, <2>5, ContentKept DEF Whole, InRedis
<1>5. CASE Serve /\ store' # store
  <2>1. UNCHANGED media /\ store' = Stored(store, wire[2], wire[3]) /\ wire # << >> /\ wire[1] = "SETRANGE"
    BY <1>5 DEF Serve
  <2>2. wire[2] = media.index /\ wire[3] = media.block
    BY <1>2, <2>1 DEF WritingBlock, LoadingBlock
  <2> QED
    BY <2>1, <2>2, StoreReads
<1> QED
  BY <1>3, <1>4, <1>5 DEF Background, STick, Serve, Recv, RecvWritten, RecvRefused

LEMMA UnlinkReads ==
  ASSUME IInv, Whole, ~off, Disconnect, off' = off
  PROVE  Content' = Content /\ Whole'
<1>1. UNCHANGED media
  BY DEF Disconnect
<1>2. CASE UNCHANGED store
  BY <1>1, <1>2, ContentKept DEF Reads, Shown, Whole, InRedis
<1>3. CASE wire # << >> /\ wire[1] = "SETRANGE" /\ store' = Stored(store, wire[2], wire[3])
  <2>1. wire[2] = media.index /\ wire[3] = media.block
    BY <1>3 DEF IInv, Quiet, Moving, WritingBlock, LoadingBlock
  <2> QED
    BY <1>1, <1>3, <2>1, StoreReads
<1> QED
  BY <1>2, <1>3 DEF Disconnect, Unlink

LEMMA ShutdownReads ==
  ASSUME IInv, ~off, InFile, Shutdown
  PROVE  Content' = Content /\ Whole'
<1>1. store' = FileAfter /\ off' = TRUE /\ UNCHANGED media
  BY DEF Shutdown, Unload
<1>2. Shown(store'[media.index]) = media.block
  BY <1>1, WrittenBack
<1>3. \A x \in Block \ {media.index} : Shown(store'[x]) = Shown(store[x])
  BY <1>1, WrittenBack
<1>4. \A x \in Block : Reads(x)' = Reads(x)
  BY <1>1, <1>2, <1>3 DEF Reads
<1> QED
  BY <1>1, <1>4, ContentKept DEF Whole, InFile, InRedis

(* Each step is one of the program's: a request, its end, or nothing.      *)
LEMMA StepMaps ==
  ASSUME IInv, Whole, [PatientNext]_vars
  PROVE  [Device!Next]_(Device!vars) /\ Whole'
<1> USE DEF Device!Next
<1>1. ASSUME ~off, Settled, NEW p \in Place, HwiRead(p) PROVE Device!Ask /\ Whole'
  <2>1. Content' = Content /\ Whole'
    BY <1>1, SeekReads DEF HwiRead, Place
  <2>2. Request = << >> /\ Request' = <<"read", p>> /\ got' = << >>
    BY <1>1 DEF HwiRead, Request, Busy, IInv, Typed
  <2> QED
    BY <2>1, <2>2 DEF Device!Ask
<1>2. ASSUME ~off, Settled, NEW p \in Place, NEW v \in Value, HwiWrite(p, v)
      PROVE  Device!Ask /\ Whole'
  <2>1. Content' = Content /\ Whole'
    BY <1>2, SeekReads DEF HwiWrite, Place
  <2>2. Request = << >> /\ Request' = <<"write", p, v>> /\ got' = << >>
    BY <1>2 DEF HwiWrite, Request, Busy, IInv, Typed
  <2> QED
    BY <2>1, <2>2 DEF Device!Ask
<1>3. ASSUME ~off, Finish PROVE (Device!Read \/ Device!Write) /\ Whole'
  <2> DEFINE p == drive.place
  <2>1. p \in Place /\ p[1] = media.index /\ Content[p] = media.block[p[2]] /\ off' = off
    BY <1>3 DEF Finish, Content, IInv, Typed
  <2>2. Request' = << >> /\ drive'.oper = "IDLE" /\ store' = store /\ media'.kept = media.kept
    BY <1>3 DEF Finish, Request, Busy, IInv, Typed
  <2>3. Whole'
    BY <2>2 DEF Whole, InRedis
  <2>4. CASE drive.oper = "BUSYREAD"
    <3>1. Request = <<"read", p>> /\ got' = <<p, Content[p]>>
      BY <1>3, <2>1, <2>4 DEF Finish, Request, Busy
    <3>2. Content' = Content
      BY <1>3, <2>1, <2>2, <2>4, ContentKept DEF Finish, Reads, Shown
    <3> QED
      BY <2>2, <2>3, <3>1, <3>2 DEF Device!Read
  <2>5. CASE drive.oper = "BUSYWRITE"
    <3>1. Request = <<"write", p, drive.svbuf>> /\ got' = << >>
      BY <1>3, <2>5 DEF Finish, Request, Busy
    <3>2. /\ media'.index = media.index /\ off' = off /\ store' = store
          /\ media'.block = [media.block EXCEPT ![p[2]] = drive.svbuf]
          /\ media.block \in Data
      BY <1>3, <2>2, <2>5 DEF Finish, IInv, Typed
    <3>3. ASSUME NEW q \in Place
          PROVE  Content'[q] = IF q = p THEN drive.svbuf ELSE Content[q]
      <4>1. q[1] = p[1] /\ q[2] = p[2] => q = p
        BY <2>1 DEF Place
      <4>2. q[2] \in Sector
        BY DEF Place
      <4> QED
        BY <1>3, <2>1, <3>2, <4>1, <4>2 DEF Content, Data
    <3>4. Content' = [Content EXCEPT ![p] = drive.svbuf]
      BY <3>3 DEF Content
    <3> QED
      BY <2>2, <2>3, <3>1, <3>4 DEF Device!Write
  <2> QED
    BY <1>3, <2>4, <2>5 DEF Finish, Busy
<1>4. ASSUME ~off, NoticeEject \/ Reset PROVE (Device!Abort \/ Device!Forget) /\ Whole'
  <2>1. Content' = Content /\ Whole'
    BY <1>4, ContentKept DEF NoticeEject, Reset, Reads, Shown, Whole, InRedis, diskVars
  <2>2. Request' = << >> /\ got' = << >>
    BY <1>4 DEF NoticeEject, Reset, Request, Busy, IInv, Typed
  <2> QED
    BY <2>1, <2>2 DEF Device!Abort, Device!Forget
<1>5. ASSUME ~off, Status \/ Refuse \/ NoticeMedia \/ Swap PROVE Device!Forget /\ Whole'
  <2>1. Content' = Content /\ Whole'
    BY <1>5, ContentKept DEF Status, Refuse, NoticeMedia, Swap, Reads, Shown, Whole, InRedis, diskVars
  <2>2. Request' = Request /\ got' = << >>
    BY <1>5 DEF Status, Refuse, NoticeMedia, Swap, Request, Busy, IInv, Typed
  <2> QED
    BY <2>1, <2>2 DEF Device!Forget
<1>6. ASSUME ~off, Loop PROVE Device!Forget /\ Whole'
  <2>1. Content' = Content /\ Whole'
    BY <1>6, BackgroundReads, UnlinkReads DEF Loop
  <2>2. Request' = Request /\ got' = << >>
    BY <1>6 DEF Loop, Request, Busy
  <2> QED
    BY <2>1, <2>2 DEF Device!Forget
<1>7. ASSUME ~off, InFile, Shutdown PROVE (Device!Abort \/ Device!Forget) /\ Whole'
  <2>1. Content' = Content /\ Whole'
    BY <1>7, ShutdownReads
  <2>2. Request' = << >> /\ got' = << >>
    BY <1>7 DEF Shutdown, Request
  <2> QED
    BY <2>1, <2>2 DEF Device!Abort, Device!Forget
<1>8. CASE UNCHANGED vars
  BY <1>8, ContentKept DEF vars, diskVars, Device!vars, Request, Busy, Reads, Shown, Whole, InRedis
<1> QED
  BY <1>1, <1>2, <1>3, <1>4, <1>5, <1>6, <1>7, <1>8
     DEF PatientNext, Requests, Others, Run

(* The drive implements the block device a program expects, for a disk     *)
(* kept nowhere, in a file or whole in Redis: what was written to a sector *)
(* is what is read from it, whichever blocks were moved in between, and    *)
(* whatever was refused, lost with the session, ejected or reset.          *)
THEOREM Implements ==
  ASSUME "redis" \notin Fresh
  PROVE  PatientSpec => ReadsWhatWasWritten
<1>1. Init => Whole
  BY DataIsThere DEF Init, DiskInit, Whole, InRedis, Contents
<1>2. PatientSpec => [](IInv /\ Whole)
  <2>1. Init => IInv /\ Whole
    BY <1>1, InitIInv
  <2>2. IInv /\ Whole /\ [PatientNext]_vars => (IInv /\ Whole)'
    BY NextIInv, StepMaps
  <2> QED
    BY <2>1, <2>2, PTL DEF PatientSpec
<1>3. IInv /\ Whole /\ [PatientNext]_vars => [Device!Next]_(Device!vars)
  BY StepMaps
<1> QED
  BY <1>2, <1>3, InitMaps, PTL DEF PatientSpec, ReadsWhatWasWritten, Device!Spec
=============================================================================
