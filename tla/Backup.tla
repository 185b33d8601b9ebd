------------------------------- MODULE Backup -------------------------------
(***************************************************************************)
(* machine-backup and machine-restore of one machine, while its guest      *)
(* writes to its disks: machine-list-disks, lvm-snapshot-lv,               *)
(* backup-blockdev, backup-fs, restore-blockdev. Several machine-backup    *)
(* may run at a time (run-full-backup and an operator's), and each may be  *)
(* interrupted. LVM and the backup store (backup-cmd) are external.        *)
(*                                                                         *)
(* The machine's disks are files of its directory (DISK_x_TYPE is not      *)
(* set), and its guest is down while the machine is restored.              *)
(***************************************************************************)
EXTENDS Naturals, Sequences

CONSTANTS
    DiskSeq,     \* the disk names, in the order of the scripts' loops
    Procs,       \* machine-backup processes
    RawKinds,    \* disk -> what x.raw may be in the first state: "none", "dm", "blk" or "file"
    QcowKinds,   \* disk -> the choices for "there is an x.qcow2" in the first state
    MaxVersion,  \* bound: writes of the guest to a disk
    MaxClock     \* bound: seconds

Disks == {DiskSeq[i] : i \in DOMAIN DiskSeq}

ASSUME BackupConstants ==
    /\ DiskSeq \in Seq(Disks) /\ DiskSeq # <<>>
    /\ RawKinds \in [Disks -> SUBSET {"none", "dm", "blk", "file"}]
    /\ QcowKinds \in [Disks -> SUBSET BOOLEAN]
    /\ MaxVersion \in Nat /\ MaxClock \in Nat

VARIABLES
    files,   \* disk -> what x.raw is, and whether x.qcow2 exists
    data,    \* disk -> content of the file the guest uses
    snaps,   \* <<disk, second>> -> content: the snapshots of the volume group
    clock,   \* date +%s
    bk,      \* machine-backup: its next step, disk, snapshot, what it has read; history:
             \* what the guest saw when it began, and the content began of that second
    last,    \* disk -> the image that the store has last been given
    rst,     \* machine-restore: <<next step, disk>>
    began,   \* history: disk -> its content when the current second began
    taken,   \* history: of the image in last, what the guest saw when it was asked for, the
             \* content began of that second, and whether it is one of a snapshot
    mishaps  \* history: "full" volume group, "overlap" of two backups, "killed" backup

backupVars == <<files, data, snaps, clock, bk, last, rst, began, taken, mishaps>>

\* A content is a file format, a state and the number of the guest's last write.
Content(fmt, state, v) == [fmt |-> fmt, state |-> state, ver |-> v]
NoContent == Content("raw", "none", 0)

Idle == [pc |-> "idle", i |-> 1, sn |-> 0, read |-> NoContent, seen |-> NoContent, floor |-> NoContent]

\* diskarg: the file QEMU is given
GuestFile(d) ==
    IF files[d].raw # "none" THEN "raw" ELSE IF files[d].qcow2 THEN "qcow2" ELSE "none"

\* QEMU opens x.raw as raw and x.qcow2 as qcow2; the other format is garbage to it.
GuestView(d) ==
    IF GuestFile(d) = "none" THEN NoContent
    ELSE IF data[d].fmt # GuestFile(d) THEN Content(GuestFile(d), "garbage", 0) ELSE data[d]

\* machine-list-disks: the type of a disk, "none" when it is not listed
ListType(d) ==
    CASE files[d].raw = "dm" -> "blockdev-lvm"
      [] files[d].raw = "blk" -> "blockdev-raw"
      [] files[d].raw = "file" -> "image-file-raw"
      [] files[d].raw = "none" /\ files[d].qcow2 -> "image-file-qcow2"
      [] OTHER -> "none"

BackupInit ==
    /\ files \in [Disks -> [raw : {"none", "dm", "blk", "file"}, qcow2 : BOOLEAN]]
    /\ \A d \in Disks : files[d].raw \in RawKinds[d] /\ files[d].qcow2 \in QcowKinds[d]
    /\ data = [d \in Disks |-> Content(IF GuestFile(d) = "qcow2" THEN "qcow2" ELSE "raw", "ok", 0)]
    /\ snaps = <<>>
    /\ clock = 1
    /\ bk = [p \in Procs |-> Idle]
    /\ last = [d \in Disks |-> NoContent]
    /\ rst = <<"idle", 1>>
    /\ began = data
    /\ taken = [d \in Disks |-> [seen |-> NoContent, floor |-> NoContent, snap |-> FALSE]]
    /\ mishaps = {}

-----------------------------------------------------------------------------
(* machine-backup *)

Disk(p) == DiskSeq[bk[p].i]
Go(p, pc) == bk' = [bk EXCEPT ![p].pc = pc]

BackupStart(p) ==
    /\ bk[p].pc = "idle" /\ rst[1] = "idle"
    /\ Go(p, "disk")
    /\ mishaps' = mishaps \cup (IF \E q \in Procs : bk[q].pc # "idle" THEN {"overlap"} ELSE {})
    /\ UNCHANGED <<files, data, snaps, clock, last, rst, began, taken>>

\* One disk of machine-list-disks: a type without a case is skipped, and a disk that is
\* not listed has no line.
BackupDisk(p) ==
    LET t == ListType(Disk(p))
    IN  /\ bk[p].pc = "disk"
        /\ Go(p, CASE t = "blockdev-lvm" -> "snap"
                   [] t \in {"image-file-qcow2", "image-file-raw"} -> "dd"
                   [] OTHER -> "fs")
        /\ UNCHANGED <<files, data, snaps, clock, last, rst, began, taken, mishaps>>

\* Broken variant: the name of the snapshot has no date.
StampNone == 1

\* The date in the name of a snapshot
Stamp == clock

\* lvm-snapshot-lv: lvcreate fails when there is such a snapshot, or no space; the name is
\* printed all the same.
Snapshot(p) ==
    LET name == <<Disk(p), Stamp>>
    IN  /\ bk[p].pc = "snap"
        /\ bk' = [bk EXCEPT ![p].pc = "dd", ![p].sn = Stamp,
                             ![p].seen = GuestView(Disk(p)), ![p].floor = began[Disk(p)]]
        /\ \/ /\ name \notin DOMAIN snaps
              /\ snaps' = [n \in DOMAIN snaps \cup {name} |->
                              IF n = name THEN data[Disk(p)] ELSE snaps[n]]
              /\ mishaps' = mishaps
           \/ /\ name \notin DOMAIN snaps
              /\ mishaps' = mishaps \cup {"full"}
              /\ snaps' = snaps
           \/ name \in DOMAIN snaps /\ UNCHANGED <<snaps, mishaps>>
        /\ UNCHANGED <<files, data, clock, last, rst, began, taken>>

Lvm(p) == ListType(Disk(p)) = "blockdev-lvm"
Name(p) == <<Disk(p), bk[p].sn>>

\* dd opens the snapshot, or the image file. Without a snapshot it fails, and xz and
\* backup-cmd store the empty stream.
DdOpen(p) ==
    LET source == IF Lvm(p) THEN IF Name(p) \in DOMAIN snaps THEN snaps[Name(p)]
                                 ELSE Content("raw", "empty", 0)
                  ELSE data[Disk(p)]
    IN  /\ bk[p].pc = "dd"
        /\ bk' = [bk EXCEPT ![p].pc = "read", ![p].read = source,
                             ![p].seen = IF Lvm(p) THEN @ ELSE GuestView(Disk(p))]
        /\ UNCHANGED <<files, data, snaps, clock, last, rst, began, taken, mishaps>>

\* Broken variant: dd reads the volume, not its snapshot.
DdEndOrigin(p) ==
    LET d   == Disk(p)
        img == IF data[d] = bk[p].read THEN bk[p].read ELSE [bk[p].read EXCEPT !.state = "torn"]
    IN  /\ bk[p].pc = "read"
        /\ last' = [last EXCEPT ![d] = img]
        /\ taken' = [taken EXCEPT ![d] = [seen |-> bk[p].seen, floor |-> bk[p].floor, snap |-> Lvm(p)]]
        /\ Go(p, IF Lvm(p) THEN "rm" ELSE "fs")
        /\ UNCHANGED <<files, data, snaps, clock, rst, began, mishaps>>

\* The image is complete. A file the guest wrote to in the meantime is neither its old nor
\* its new content.
DdEnd(p) ==
    LET d   == Disk(p)
        img == IF Lvm(p) \/ data[d] = bk[p].read THEN bk[p].read
               ELSE [bk[p].read EXCEPT !.state = "torn"]
    IN  /\ bk[p].pc = "read"
        /\ last' = [last EXCEPT ![d] = img]
        /\ taken' = [taken EXCEPT ![d] = [seen |-> bk[p].seen, floor |-> bk[p].floor, snap |-> Lvm(p)]]
        /\ Go(p, IF Lvm(p) THEN "rm" ELSE "fs")
        /\ UNCHANGED <<files, data, snaps, clock, rst, began, mishaps>>


\* lvchange -a n and lvremove -y: both refuse a snapshot that is being read.
SnapshotRemove(p) ==
    LET inUse == \E q \in Procs : bk[q].pc = "read" /\ Lvm(q) /\ Name(q) = Name(p)
    IN  /\ bk[p].pc = "rm"
        /\ snaps' = [n \in DOMAIN snaps \ (IF inUse THEN {} ELSE {Name(p)}) |-> snaps[n]]
        /\ Go(p, "fs")
        /\ UNCHANGED <<files, data, clock, last, rst, began, taken, mishaps>>


\* backup-fs of the machine's directory, then the next line
BackupFs(p) ==
    /\ bk[p].pc = "fs"
    /\ bk' = [bk EXCEPT ![p] = IF @.i < Len(DiskSeq)
                               THEN [Idle EXCEPT !.pc = "disk", !.i = bk[p].i + 1] ELSE Idle]
    /\ UNCHANGED <<files, data, snaps, clock, last, rst, began, taken, mishaps>>

\* The script is interrupted.
BackupKilled(p) ==
    /\ bk[p].pc # "idle"
    /\ bk' = [bk EXCEPT ![p] = Idle]
    /\ mishaps' = mishaps \cup {"killed"}
    /\ UNCHANGED <<files, data, snaps, clock, last, rst, began, taken>>

-----------------------------------------------------------------------------
(* machine-restore, the guest, the clock *)

\* backup-query-snapshots: the store has an image of the disk.
Found(d) == last[d].state # "none"

\* restore-fs, and the directory of the disks is moved aside.
RestoreStart ==
    /\ rst[1] = "idle" /\ \A p \in Procs : bk[p].pc = "idle"
    /\ rst' = <<"disk", 1>>
    /\ files' = [d \in Disks |-> [raw |-> "none", qcow2 |-> FALSE]]
    /\ UNCHANGED <<data, snaps, clock, bk, last, began, taken, mishaps>>

\* Broken variant: the image of the first disk goes to every disk.
RestoreDiskFirst ==
    LET d == DiskSeq[rst[2]]
    IN  /\ rst[1] = "disk"
        /\ files' = [files EXCEPT ![d].raw = "file"]
        /\ data' = [data EXCEPT ![d] = last[DiskSeq[1]]]
        /\ rst' = IF rst[2] < Len(DiskSeq) THEN <<"disk", rst[2] + 1>> ELSE <<"done", 1>>
        /\ UNCHANGED <<snaps, clock, bk, last, began, taken, mishaps>>

\* restore-blockdev: the last image of the disk, if there is one, becomes x.raw.
RestoreDisk ==
    LET d == DiskSeq[rst[2]]
    IN  /\ rst[1] = "disk"
        /\ files' = [files EXCEPT ![d].raw = IF Found(d) THEN "file" ELSE @]
        /\ data' = [data EXCEPT ![d] = IF Found(d) THEN last[d] ELSE @]
        /\ rst' = IF rst[2] < Len(DiskSeq) THEN <<"disk", rst[2] + 1>> ELSE <<"done", 1>>
        /\ UNCHANGED <<snaps, clock, bk, last, began, taken, mishaps>>

\* The guest is started again.
RestoreEnd ==
    /\ rst[1] = "done"
    /\ rst' = <<"idle", 1>>
    /\ UNCHANGED <<files, data, snaps, clock, bk, last, began, taken, mishaps>>

GuestWrite(d) ==
    /\ rst[1] = "idle" /\ GuestView(d).state = "ok"
    /\ data[d].ver < MaxVersion
    /\ data' = [data EXCEPT ![d].ver = @ + 1]
    /\ UNCHANGED <<files, snaps, clock, bk, last, rst, began, taken, mishaps>>

Tick ==
    /\ clock < MaxClock
    /\ clock' = clock + 1
    /\ began' = data
    /\ UNCHANGED <<files, data, snaps, bk, last, rst, taken, mishaps>>

BackupNext ==
    \/ \E p \in Procs :
          \/ BackupStart(p) \/ BackupDisk(p) \/ Snapshot(p) \/ DdOpen(p) \/ DdEnd(p)
          \/ SnapshotRemove(p) \/ BackupFs(p) \/ BackupKilled(p)
    \/ RestoreStart \/ RestoreDisk \/ RestoreEnd
    \/ \E d \in Disks : GuestWrite(d)
    \/ Tick

BackupSpec == BackupInit /\ [][BackupNext]_backupVars

-----------------------------------------------------------------------------
(* Properties *)

\* A backup does not read a snapshot older than the second in which it asked for one, also
\* when a killed backup has left a snapshot behind or another backup made the one of this
\* second: the date is part of the name (lvm-snapshot-lv:6). And backups that overlap, even
\* in the same second and on the same disk, or whose snapshot could not be made, leave no
\* snapshot behind (machine-backup:34-35).
SnapshotsOwn ==
    /\ \A p \in Procs :
           bk[p].pc \in {"dd", "read"} /\ Lvm(p) /\ Name(p) \in DOMAIN snaps =>
               snaps[Name(p)].ver >= bk[p].floor.ver
    /\ (\A p \in Procs : bk[p].pc = "idle") /\ "killed" \notin mishaps => DOMAIN snaps = {}

\* What the store gets for a logical volume is the content of the disk at one moment of
\* the second in which the backup asked for a snapshot, or later, however long dd takes and
\* whatever the guest writes meanwhile: the moment of the request, unless a snapshot could
\* not be made or a backup overlapped another or was interrupted. In the first two cases
\* the image may be empty: lvm-snapshot-lv prints the name of a snapshot that is not there
\* (lvm-snapshot-lv:20), and machine-backup stores what dd reads of it.
ImageConsistent ==
    \A d \in Disks : files[d].raw = "dm" /\ last[d].state # "none" =>
        /\ \/ last[d].state = "ok" /\ last[d].ver >= taken[d].floor.ver
           \/ last[d].state = "empty" /\ mishaps \cap {"full", "overlap"} # {}
        /\ mishaps = {} => last[d] = taken[d].seen

\* machine-restore brings a raw image that is whole back as the disk the guest saw when the
\* backup asked for it (restore-blockdev:29, "Restoring machine:$m disk:$d to
\* path:$target"). After a mishap, the image of a snapshot may be another moment since the
\* second of the request began. Nothing is said of images that are not whole, which are
\* restored as well: a raw image file to which the guest wrote while dd read it (dd reads
\* the file itself, machine-backup:43-45), and an empty one.
RestoreFaithful ==
    rst[1] = "done" =>
        \A d \in Disks : last[d].state = "ok" /\ last[d].fmt = "raw" =>
            IF mishaps = {} \/ ~taken[d].snap THEN GuestView(d) = taken[d].seen
            ELSE GuestView(d).state = "ok" /\ GuestView(d).ver >= taken[d].floor.ver
=============================================================================
