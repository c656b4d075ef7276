------------------------------- MODULE Floppy -------------------------------
(***************************************************************************)
(* The M35FD floppy drive (hardware/floppy_m35.cpp) and the disk in it.    *)
(* The program's requests seek the disk to the block of the sector; the    *)
(* drive then turns until the head is over the sector and the disk holds   *)
(* the block.  How long that takes, and the interrupts that tell of every  *)
(* change, are left out; so are write-protected disks, which nothing makes.*)
(***************************************************************************)
EXTENDS DiskStore

Place == Block \X Sector
NoPlace == <<0, 0>>
ASSUME SectorAssumption == 0 \in Sector

VARIABLES
    drive,      \* [oper, errcode, place, svbuf]: place is seeksector
    inserted,   \* a disk is attached at point 0
    got,        \* <<place, value>> copied to the program's memory, or nothing
    off         \* the emulator has ended

vars == <<diskVars, drive, inserted, got, off>>

Init ==
    /\ DiskInit
    /\ drive = [oper |-> "NO_MEDIA", errcode |-> "NONE", place |-> NoPlace, svbuf |-> Blank]
    /\ inserted = TRUE
    /\ got = << >>
    /\ off = FALSE

Busy == drive.oper \in {"BUSYREAD", "BUSYWRITE"}

-----------------------------------------------------------------------------
(* Hardware interrupts from the program.                                   *)

(* HWI 0 reports the error and forgets it.                                 *)
Status ==
    /\ drive' = [drive EXCEPT !.errcode = "NONE"]
    /\ got' = << >>
    /\ UNCHANGED <<diskVars, inserted, off>>

(* HWI 2 and HWI 3 refused; the last is a sector number above 1439.        *)
Refuse ==
    /\ \E e \in IF Busy THEN {"BUSY"} ELSE IF ~inserted THEN {"NO_MEDIA"} ELSE {"SECTOR"} :
          drive' = [drive EXCEPT !.errcode = e]
    /\ got' = << >>
    /\ UNCHANGED <<diskVars, inserted, off>>

HwiRead(p) ==
    /\ ~Busy /\ inserted
    /\ Seek(p[1])
    /\ drive' = [drive EXCEPT !.oper = "BUSYREAD", !.place = p]
    /\ got' = << >>
    /\ UNCHANGED <<wire, linked, inserted, off>>

(* The words to write are taken from memory at once.                       *)
HwiWrite(p, v) ==
    /\ ~Busy /\ inserted
    /\ Seek(p[1])
    /\ drive' = [drive EXCEPT !.oper = "BUSYWRITE", !.place = p, !.svbuf = v]
    /\ got' = << >>
    /\ UNCHANGED <<wire, linked, inserted, off>>

-----------------------------------------------------------------------------
(* Run.                                                                    *)
Finish ==
    /\ Busy /\ inserted
    /\ media.index = drive.place[1]
    /\ IF drive.oper = "BUSYREAD"
         THEN /\ got' = <<drive.place, media.block[drive.place[2]]>>
              /\ UNCHANGED media
         ELSE /\ media' = [media EXCEPT !.block[drive.place[2]] = drive.svbuf]
              /\ got' = << >>
    /\ drive' = [drive EXCEPT !.oper = "IDLE"]
    /\ UNCHANGED <<store, cmdq, wire, linked, inserted, off>>

NoticeEject ==
    /\ Busy /\ ~inserted
    /\ drive' = [drive EXCEPT !.oper = "NO_MEDIA", !.errcode = "EJECT"]
    /\ got' = << >>
    /\ UNCHANGED <<diskVars, inserted, off>>

NoticeMedia ==
    /\ ~Busy
    /\ drive' = [drive EXCEPT !.oper = IF ~inserted THEN "NO_MEDIA"
                                       ELSE IF @ = "NO_MEDIA" THEN "IDLE" ELSE @]
    /\ got' = << >>
    /\ UNCHANGED <<diskVars, inserted, off>>

Run == Finish \/ NoticeEject \/ NoticeMedia

-----------------------------------------------------------------------------
(* The CPU resets the drive; sessions attach and deattach the disk.        *)
Reset ==
    /\ drive' = [drive EXCEPT !.oper = "NO_MEDIA", !.errcode = "NONE", !.place = NoPlace]
    /\ got' = << >>
    /\ UNCHANGED <<diskVars, inserted, off>>

Swap ==
    /\ inserted' = ~inserted
    /\ got' = << >>
    /\ UNCHANGED <<diskVars, drive, off>>

Shutdown ==
    /\ Unload
    /\ off' = TRUE
    /\ got' = << >>
    /\ UNCHANGED <<media, drive, inserted>>

Requests == \E p \in Place : HwiRead(p) \/ \E v \in Value : HwiWrite(p, v)

Loop == (Background \/ Disconnect) /\ got' = << >> /\ UNCHANGED <<drive, inserted, off>>

Others == Status \/ Refuse \/ Run \/ Reset \/ Swap \/ Loop

Next == ~off /\ (Requests \/ Others \/ Shutdown)

Spec == Init /\ [][Next]_vars

(* Programs that ask for nothing while the disk is still being moved for   *)
(* a request that a reset or an ejection ended; and users who end the      *)
(* emulator only when their disks are files.                               *)
Settled == cmdq = << >>
PatientNext == ~off /\ ((Settled /\ Requests) \/ Others \/ (InFile /\ Shutdown))

PatientSpec == Init /\ [][PatientNext]_vars

(* The bus runs the drive, and the main loop the Redis session, again and  *)
(* again; the disk turns under the head and Redis answers.                 *)
FairSpec ==
    /\ PatientSpec
    /\ WF_vars(~off /\ (Finish \/ NoticeEject))
    /\ WF_vars(~off /\ Background /\ got' = << >> /\ UNCHANGED <<drive, inserted, off>>)

-----------------------------------------------------------------------------
Oper == {"NO_MEDIA", "IDLE", "BUSYREAD", "BUSYWRITE"}
Errcode == {"NONE", "BUSY", "NO_MEDIA", "SECTOR", "EJECT"}
Command == [cmd : {"DISKLOAD", "DISKWRLD"}, rd : Block, wr : Block]

TypeOK ==
    /\ media \in [kept : Backing, index : Block, block : Data, dblock : Data]
    /\ store \in [Block -> Data \cup {Missing}]
    /\ cmdq \in Seq(Command) /\ Len(cmdq) <= QueueLimit
    /\ wire # << >> => cmdq # << >>
    /\ drive \in [oper : Oper, errcode : Errcode, place : Place, svbuf : Value]
    /\ inserted \in BOOLEAN /\ off \in BOOLEAN /\ linked \in BOOLEAN
    /\ got \in {<< >>} \cup (Place \X Value)

(* What tells a written block from an unwritten one is the block that is   *)
(* stored, so that neither is a write left out nor an old block put back,  *)
(* as long as what stores them is there.                                   *)
CopyIsStored ==
    Settled /\ (linked \/ (InFile /\ ~off)) /\ store[media.index] # Missing
        => media.dblock = store[media.index]

(* What the program expects (see BlockDevice): a sector reads as what was  *)
(* last written, whatever blocks were moved, disks swapped and drives      *)
(* reset in between, and after the emulator has ended.                     *)
Content == [p \in Place |->
    IF p[1] = media.index /\ ~off THEN media.block[p[2]]
    ELSE IF store[p[1]] = Missing THEN Blank ELSE store[p[1]][p[2]]]

Request ==
    IF ~Busy \/ off THEN << >>
    ELSE IF drive.oper = "BUSYREAD" THEN <<"read", drive.place>>
    ELSE <<"write", drive.place, drive.svbuf>>

Device == INSTANCE BlockDevice WITH content <- Content, request <- Request

ReadsWhatWasWritten == Device!Spec

(* A request ends, unless the disk keeps being taken out and put back, or  *)
(* its block cannot be had: the disk is kept nowhere, the Redis session   *)
(* is gone, or Redis has refused to take the block before it.              *)
Unreachable ==
    /\ media.index # drive.place[1]
    /\ \/ media.kept = "none"
       \/ InRedis /\ ~linked
       \/ InRedis /\ Settled /\ store[media.index] # media.block

Answered == []<>(~Busy \/ ~inserted \/ off \/ Unreachable)
=============================================================================
