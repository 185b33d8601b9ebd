---------------------------- MODULE BackupProofs ----------------------------
(***************************************************************************)
(* Proofs about backup and restore, for every number of disks, of          *)
(* concurrent backups and of snapshots, and for every speed of the guest.  *)
(***************************************************************************)
EXTENDS Backup, TLAPS

USE DEF backupVars

Formats == {"raw", "qcow2"}
States == {"none", "ok", "empty", "torn", "garbage"}
Contents == [fmt : Formats, state : States, ver : Nat]
Pcs == {"idle", "disk", "snap", "dd", "read", "rm", "fs"}
Jobs == [pc : Pcs, i : 1..Len(DiskSeq), sn : Nat,
         read : Contents, seen : Contents, floor : Contents]

BackupType ==
    /\ files \in [Disks -> [raw : {"none", "dm", "blk", "file"}, qcow2 : BOOLEAN]]
    /\ data \in [Disks -> Contents]
    /\ \A n \in DOMAIN snaps : n \in Disks \X Nat /\ snaps[n] \in Contents
    /\ clock \in Nat
    /\ bk \in [Procs -> Jobs]
    /\ last \in [Disks -> Contents]
    /\ rst \in {"idle", "disk", "done"} \X (1..Len(DiskSeq))
    /\ began \in [Disks -> Contents]
    /\ taken \in [Disks -> [seen : Contents, floor : Contents, snap : BOOLEAN]]
    /\ mishaps \subseteq {"full", "overlap", "killed"}

-----------------------------------------------------------------------------
(***************************************************************************)
(* The inductive invariant, in parts.                                      *)
(***************************************************************************)

\* The disk of a backup is an image file.
ImageFile(p) == ListType(Disk(p)) \in {"image-file-qcow2", "image-file-raw"}

\* A restore has the machine for itself, and the steps with a snapshot are those of a
\* backup of a logical volume.
Apart ==
    /\ rst[1] # "idle" => \A p \in Procs : bk[p].pc = "idle"
    /\ \A p \in Procs :
           /\ bk[p].pc \in {"snap", "rm"} => Lvm(p)
           /\ bk[p].pc \in {"dd", "read"} => Lvm(p) \/ ImageFile(p)

\* The format of what a file holds: a restore makes raw files only, a logical volume
\* is never made again.
FormatOf ==
    \A d \in Disks :
        /\ files[d].raw = "dm" => /\ data[d].fmt = "raw" /\ data[d].state = "ok"
                                  /\ data[d].ver >= began[d].ver
        /\ files[d].raw = "none" /\ files[d].qcow2 => data[d].fmt = "qcow2"

\* A snapshot is not from the future, and one of this second is not older than the second.
SnapsDated ==
    \A n \in DOMAIN snaps :
        /\ n[2] <= clock
        /\ files[n[1]].raw = "dm" => snaps[n].fmt = "raw" /\ snaps[n].state = "ok"
        /\ n[2] = clock /\ files[n[1]].raw = "dm" => snaps[n].ver >= began[n[1]].ver

\* The same of the snapshot a backup uses, or would use if another one made it.
BackupDated ==
    \A p \in Procs :
        bk[p].pc \in {"dd", "read"} /\ Lvm(p) =>
            /\ bk[p].sn <= clock
            /\ bk[p].sn = clock => bk[p].floor.ver <= began[Disk(p)].ver
            /\ Name(p) \in DOMAIN snaps => snaps[Name(p)].ver >= bk[p].floor.ver

\* As long as no backup is killed, every snapshot has a backup that will remove it.
HasRemover(n) == \E p \in Procs : bk[p].pc \in {"dd", "read", "rm"} /\ Lvm(p) /\ Name(p) = n
Removers == "killed" \notin mishaps => \A n \in DOMAIN snaps : HasRemover(n)

\* Without overlap one backup runs at a time.
Alone ==
    "overlap" \notin mishaps =>
        \A p, q \in Procs : bk[p].pc # "idle" /\ bk[q].pc # "idle" => p = q

\* What is read of a volume: a content not older than the second of the request, or
\* nothing, if there was no snapshot.
Unmade == mishaps \cap {"full", "overlap"} # {}
FromVolume(c, floor) ==
    \/ c.fmt = "raw" /\ c.state = "ok" /\ c.ver >= floor.ver
    \/ c.state = "empty" /\ Unmade

\* What a backup is about to read, or has read, is what the guest saw, or something else
\* only after a mishap.
ReadRight ==
    \A p \in Procs :
        /\ bk[p].pc = "dd" /\ Lvm(p) /\ ~Unmade => Name(p) \in DOMAIN snaps
        /\ bk[p].pc = "dd" /\ Lvm(p) /\ mishaps = {} => snaps[Name(p)] = bk[p].seen
        /\ bk[p].pc = "read" /\ Lvm(p) => FromVolume(bk[p].read, bk[p].floor)
        /\ bk[p].pc = "read" /\ Lvm(p) /\ mishaps = {} => bk[p].read = bk[p].seen
        /\ bk[p].pc = "read" /\ ~Lvm(p) /\ bk[p].read.fmt = "raw" => bk[p].read = bk[p].seen

\* And so is what the store has.
StoredRight ==
    \A d \in Disks : last[d].state # "none" =>
        /\ files[d].raw = "dm" => taken[d].snap
        /\ taken[d].snap => FromVolume(last[d], taken[d].floor)
        /\ taken[d].snap /\ mishaps = {} => last[d] = taken[d].seen
        /\ ~taken[d].snap /\ last[d].state = "ok" /\ last[d].fmt = "raw" => last[d] = taken[d].seen

\* A restore has put the images of the store in place, up to the disk it is at.
Restored ==
    rst[1] # "idle" =>
        \A j \in 1..Len(DiskSeq) :
            (rst[1] = "done" \/ j < rst[2]) /\ Found(DiskSeq[j]) =>
                files[DiskSeq[j]].raw = "file" /\ data[DiskSeq[j]] = last[DiskSeq[j]]

BackupInv ==
    /\ BackupType /\ Apart /\ FormatOf /\ SnapsDated /\ BackupDated /\ Removers /\ Alone
    /\ ReadRight /\ StoredRight /\ Restored

-----------------------------------------------------------------------------
LEMMA FirstDisk == Len(DiskSeq) \in Nat /\ 1 \in 1..Len(DiskSeq)
BY BackupConstants

LEMMA JobTypes ==
    ASSUME NEW j \in Jobs, NEW n \in Nat, NEW c \in Contents, NEW e \in Contents
    PROVE  /\ [j EXCEPT !.pc = "dd", !.sn = n, !.seen = c, !.floor = e] \in Jobs
           /\ [j EXCEPT !.pc = "read", !.read = c, !.seen = e] \in Jobs
<1> DEFINE k == [[j EXCEPT !.pc = "dd"] EXCEPT !.sn = n]
           l == [[j EXCEPT !.pc = "read"] EXCEPT !.read = c]
<1>1. k \in Jobs /\ l \in Jobs
  BY DEF Jobs, Pcs
<1> HIDE DEF k, l
<1>2. [[k EXCEPT !.seen = c] EXCEPT !.floor = e] \in Jobs /\ [l EXCEPT !.seen = e] \in Jobs
  BY <1>1 DEF Jobs
<1> QED
  BY <1>2 DEF k, l

LEMMA ContentTypes ==
    ASSUME BackupType
    PROVE  /\ NoContent \in Contents
           /\ \A d \in Disks : GuestView(d) \in Contents
           /\ \A p \in Procs : Disk(p) \in Disks /\ bk[p] \in Jobs
           /\ Idle \in Jobs
<1>1. NoContent \in Contents
  BY DEF NoContent, Content, Contents, Formats, States
<1>2. \A d \in Disks : GuestView(d) \in Contents
  BY <1>1 DEF BackupType, GuestView, GuestFile, Content, Contents, Formats, States
<1>3. \A p \in Procs : bk[p] \in Jobs /\ Disk(p) \in Disks
  BY BackupConstants DEF BackupType, Jobs, Disk, Disks
<1>4. Idle \in Jobs
  BY <1>1, FirstDisk DEF Idle, Jobs, Pcs
<1> QED
  BY <1>1, <1>2, <1>3, <1>4

\* A step of machine-backup changes its own record only.
LEMMA GoType ==
    ASSUME bk \in [Procs -> Jobs], NEW p \in Procs, NEW pc \in Pcs, Go(p, pc)
    PROVE  bk' \in [Procs -> Jobs]
BY DEF Go, Jobs

LEMMA BackupTypeStep == BackupType /\ [BackupNext]_backupVars => BackupType'
<1> SUFFICES ASSUME BackupType, [BackupNext]_backupVars PROVE BackupType'
  OBVIOUS
<1> USE DEF BackupType
<1>1. ASSUME NEW p \in Procs, BackupStart(p) PROVE BackupType'
  BY <1>1, GoType DEF BackupStart, Pcs
<1>2. ASSUME NEW p \in Procs, BackupDisk(p) PROVE BackupType'
  <2>1. PICK pc \in Pcs : Go(p, pc)
    BY <1>2 DEF BackupDisk, Pcs
  <2> QED
    BY <1>2, <2>1, GoType DEF BackupDisk
<1>3. ASSUME NEW p \in Procs, Snapshot(p) PROVE BackupType'
  <2>1. GuestView(Disk(p)) \in Contents /\ Disk(p) \in Disks /\ Stamp \in Nat
    BY ContentTypes DEF Stamp
  <2>2. bk' \in [Procs -> Jobs]
    <3>1. began[Disk(p)] \in Contents
      BY <2>1
    <3>2. [bk[p] EXCEPT !.pc = "dd", !.sn = Stamp, !.seen = GuestView(Disk(p)), !.floor = began[Disk(p)]] \in Jobs
      BY <2>1, <3>1, JobTypes
    <3>3. bk' = [bk EXCEPT ![p] = [bk[p] EXCEPT !.pc = "dd", !.sn = Stamp, !.seen = GuestView(Disk(p)),
                                   !.floor = began[Disk(p)]]]
      BY <1>3 DEF Snapshot
    <3> QED
      BY <3>2, <3>3
  <2>3. \A n \in DOMAIN snaps' : n \in Disks \X Nat /\ snaps'[n] \in Contents
    BY <1>3, <2>1 DEF Snapshot
  <2> QED
    BY <1>3, <2>2, <2>3 DEF Snapshot
<1>4. ASSUME NEW p \in Procs, DdOpen(p) PROVE BackupType'
  <2>1. GuestView(Disk(p)) \in Contents /\ Disk(p) \in Disks /\ Content("raw", "empty", 0) \in Contents
    BY ContentTypes DEF Content, Contents, Formats, States
  <2>2. PICK c \in Contents, s \in Contents : bk' = [bk EXCEPT ![p].pc = "read", ![p].read = c, ![p].seen = s]
    <3>1. bk[p].seen \in Contents
      BY DEF Jobs
    <3> QED
      BY <1>4, <2>1, <3>1 DEF DdOpen
  <2>3. [bk[p] EXCEPT !.pc = "read", !.read = c, !.seen = s] \in Jobs
    BY JobTypes
  <2>4. bk' = [bk EXCEPT ![p] = [bk[p] EXCEPT !.pc = "read", !.read = c, !.seen = s]]
    BY <2>2
  <2>5. bk' \in [Procs -> Jobs]
    BY <2>3, <2>4
  <2> QED
    BY <1>4, <2>5 DEF DdOpen
<1>5. ASSUME NEW p \in Procs, DdEnd(p) PROVE BackupType'
  <2>1. Disk(p) \in Disks /\ bk[p] \in Jobs
    BY ContentTypes
  <2>2. bk[p].read \in Contents /\ bk[p].seen \in Contents /\ [bk[p].read EXCEPT !.state = "torn"] \in Contents
    BY <2>1 DEF Jobs, Contents, States
  <2>3. bk' \in [Procs -> Jobs]
    <3>1. PICK pc \in Pcs : Go(p, pc)
      BY <1>5 DEF DdEnd, Pcs
    <3> QED
      BY <3>1, GoType
  <2>4. [seen |-> bk[p].seen, floor |-> bk[p].floor, snap |-> Lvm(p)]
            \in [seen : Contents, floor : Contents, snap : BOOLEAN]
    BY <2>1, <2>2 DEF Jobs, Lvm
  <2>5. taken' \in [Disks -> [seen : Contents, floor : Contents, snap : BOOLEAN]]
    BY <1>5, <2>1, <2>4 DEF DdEnd
  <2>6. last' \in [Disks -> Contents]
    BY <1>5, <2>1, <2>2 DEF DdEnd
  <2> QED
    BY <1>5, <2>3, <2>5, <2>6 DEF DdEnd
<1>6. ASSUME NEW p \in Procs, SnapshotRemove(p) PROVE BackupType'
  <2>1. bk' \in [Procs -> Jobs]
    BY <1>6, GoType DEF SnapshotRemove, Pcs
  <2>2. \A n \in DOMAIN snaps' : n \in Disks \X Nat /\ snaps'[n] \in Contents
    BY <1>6 DEF SnapshotRemove
  <2> QED
    BY <1>6, <2>1, <2>2 DEF SnapshotRemove
<1>7. ASSUME NEW p \in Procs, BackupFs(p) PROVE BackupType'
  <2>1. bk' \in [Procs -> Jobs]
    <3>1. Idle \in Jobs /\ bk[p] \in Jobs
      BY ContentTypes
    <3>2. ASSUME bk[p].i < Len(DiskSeq)
          PROVE  [Idle EXCEPT !.pc = "disk", !.i = bk[p].i + 1] \in Jobs
      <4>1. bk[p].i + 1 \in 1..Len(DiskSeq)
        BY <3>1, <3>2, BackupConstants DEF Jobs
      <4> QED
        BY <3>1, <4>1 DEF Jobs, Pcs
    <3> QED
      BY <1>7, <3>1, <3>2 DEF BackupFs
  <2> QED
    BY <1>7, <2>1 DEF BackupFs
<1>8. ASSUME NEW p \in Procs, BackupKilled(p) PROVE BackupType'
  BY <1>8, ContentTypes DEF BackupKilled
<1>9. CASE RestoreStart
  BY <1>9, BackupConstants DEF RestoreStart
<1>10. CASE RestoreDisk
  <2>1. DiskSeq[rst[2]] \in Disks
    BY BackupConstants
  <2>2. rst' \in {"idle", "disk", "done"} \X (1..Len(DiskSeq))
    BY <1>10, BackupConstants DEF RestoreDisk
  <2> QED
    BY <1>10, <2>1, <2>2 DEF RestoreDisk
<1>11. CASE RestoreEnd
  BY <1>11, BackupConstants DEF RestoreEnd
<1>12. ASSUME NEW d \in Disks, GuestWrite(d) PROVE BackupType'
  <2>1. data' \in [Disks -> Contents]
    <3>1. data[d].ver + 1 \in Nat /\ data[d] \in Contents
      BY DEF Contents
    <3>2. [data[d] EXCEPT !.ver = data[d].ver + 1] \in Contents
      BY <3>1 DEF Contents
    <3>3. data' = [data EXCEPT ![d] = [data[d] EXCEPT !.ver = data[d].ver + 1]]
      BY <1>12 DEF GuestWrite
    <3> QED
      BY <3>2, <3>3
  <2> QED
    BY <1>12, <2>1 DEF GuestWrite
<1>13. CASE Tick
  BY <1>13 DEF Tick
<1>14. CASE UNCHANGED backupVars
  BY <1>14
<1> QED
  BY <1>1, <1>2, <1>3, <1>4, <1>5, <1>6, <1>7, <1>8, <1>9, <1>10, <1>11, <1>12, <1>13, <1>14 DEF BackupNext

-----------------------------------------------------------------------------
\* Go changes one field of one record.
LEMMA GoEffect ==
    ASSUME BackupType, NEW p \in Procs, NEW pc, Go(p, pc)
    PROVE  /\ \A q \in Procs \ {p} : bk'[q] = bk[q]
           /\ bk'[p].pc = pc /\ bk'[p].i = bk[p].i /\ bk'[p].sn = bk[p].sn
           /\ bk'[p].read = bk[p].read /\ bk'[p].seen = bk[p].seen /\ bk'[p].floor = bk[p].floor
BY DEF Go, BackupType, Jobs

\* A disk is backed up through a snapshot when it is a logical volume.
LEMMA LvmIsVolume == \A p \in Procs : Lvm(p) <=> files[Disk(p)].raw = "dm"
BY DEF Lvm, ListType

\* The disk and the snapshot of a backup that stays where it is.
LEMMA SamePlace ==
    ASSUME UNCHANGED files, NEW q \in Procs, bk'[q].i = bk[q].i
    PROVE  /\ Disk(q)' = Disk(q) /\ (Lvm(q)' <=> Lvm(q)) /\ (ImageFile(q)' <=> ImageFile(q))
           /\ bk'[q].sn = bk[q].sn => Name(q)' = Name(q)
BY DEF Disk, Lvm, ImageFile, ListType, Name

\* What the guest sees of a logical volume is what is there, and of a raw file too.
LEMMA ViewOfVolume ==
    ASSUME BackupType, FormatOf, NEW d \in Disks
    PROVE  /\ files[d].raw = "dm" => GuestView(d) = data[d]
           /\ files[d].raw # "none" /\ data[d].fmt = "raw" => GuestView(d) = data[d]
           /\ ListType(d) \in {"image-file-qcow2", "image-file-raw"} /\ data[d].fmt = "raw" =>
                  GuestView(d) = data[d]
BY DEF FormatOf, GuestView, GuestFile, ListType

\* A step that moves one backup on, without a change of snapshots and disks: it has no
\* snapshot yet or any more, or is killed.
LEMMA MoveKeeps ==
    ASSUME BackupInv, NEW p \in Procs,
           \A q \in Procs \ {p} : bk'[q] = bk[q],
           bk'[p].pc \in {"idle", "disk", "snap", "dd", "fs"},
           bk'[p].pc \in {"snap", "dd"} => bk'[p].i = bk[p].i,
           bk'[p].pc = "snap" => Lvm(p),
           bk'[p].pc = "dd" => ~Lvm(p) /\ ImageFile(p),
           bk[p].pc \notin {"dd", "read", "rm"} \/ "killed" \in mishaps',
           rst[1] = "idle" \/ bk'[p].pc = "idle",
           bk[p].pc # "idle" \/ ("overlap" \notin mishaps' => \A q \in Procs : bk[q].pc = "idle"),
           UNCHANGED <<files, data, snaps, clock, last, rst, began, taken>>,
           mishaps \subseteq mishaps'
    PROVE  /\ Apart' /\ FormatOf' /\ SnapsDated' /\ BackupDated' /\ Removers' /\ Alone'
           /\ ReadRight' /\ StoredRight' /\ Restored'
<1> USE DEF BackupInv
<1>1. \A q \in Procs \ {p} : Disk(q)' = Disk(q) /\ (Lvm(q)' <=> Lvm(q)) /\ (ImageFile(q)' <=> ImageFile(q)) /\ Name(q)' = Name(q)
  BY SamePlace
<1>2. bk'[p].pc \in {"snap", "dd"} => (Lvm(p)' <=> Lvm(p)) /\ (ImageFile(p)' <=> ImageFile(p))
  BY SamePlace
<1>3. Apart'
  BY <1>1, <1>2 DEF Apart
<1>4. FormatOf' /\ SnapsDated'
  BY DEF FormatOf, SnapsDated
<1>5. BackupDated'
  BY <1>1, <1>2 DEF BackupDated
<1>6. Removers'
  BY <1>1 DEF Removers, HasRemover
<1>7. Alone'
  BY DEF Alone
<1>8. ReadRight'
  BY <1>1, <1>2 DEF ReadRight, FromVolume, Unmade
<1>9. StoredRight' /\ Restored'
  BY DEF StoredRight, Restored, Found, FromVolume, Unmade
<1> QED
  BY <1>3, <1>4, <1>5, <1>6, <1>7, <1>8, <1>9

LEMMA BackupMoves ==
    ASSUME BackupInv, NEW p \in Procs, BackupStart(p) \/ BackupDisk(p) \/ BackupFs(p) \/ BackupKilled(p)
    PROVE  /\ Apart' /\ FormatOf' /\ SnapsDated' /\ BackupDated' /\ Removers' /\ Alone'
           /\ ReadRight' /\ StoredRight' /\ Restored'
<1> USE DEF BackupInv
<1>1. CASE BackupStart(p)
  <2>1. /\ bk[p].pc = "idle" /\ rst[1] = "idle" /\ bk'[p].pc = "disk"
        /\ \A q \in Procs \ {p} : bk'[q] = bk[q]
    BY <1>1, GoEffect DEF BackupStart
  <2> QED
    BY <1>1, <2>1, MoveKeeps DEF BackupStart
<1>2. CASE BackupDisk(p)
  <2>1. /\ bk[p].pc = "disk" /\ rst[1] = "idle"
        /\ bk'[p].pc \in {"snap", "dd", "fs"} /\ bk'[p].i = bk[p].i
        /\ bk'[p].pc = "snap" => Lvm(p)
        /\ bk'[p].pc = "dd" => ~Lvm(p) /\ ImageFile(p)
        /\ \A q \in Procs \ {p} : bk'[q] = bk[q]
    BY <1>2, GoEffect DEF BackupDisk, Lvm, ImageFile, Apart
  <2> QED
    BY <1>2, <2>1, MoveKeeps DEF BackupDisk
<1>3. CASE BackupFs(p)
  <2>1. /\ bk[p].pc = "fs" /\ rst[1] = "idle"
        /\ bk'[p].pc \in {"idle", "disk"}
        /\ \A q \in Procs \ {p} : bk'[q] = bk[q]
    BY <1>3 DEF BackupFs, Idle, Apart, BackupType
  <2> QED
    BY <1>3, <2>1, MoveKeeps DEF BackupFs
<1>4. CASE BackupKilled(p)
  <2>1. bk'[p].pc = "idle" /\ \A q \in Procs \ {p} : bk'[q] = bk[q]
    BY <1>4 DEF BackupKilled, Idle, BackupType
  <2> QED
    BY <1>4, <2>1, MoveKeeps DEF BackupKilled
<1> QED
  BY <1>1, <1>2, <1>3, <1>4

\* lvm-snapshot-lv: a snapshot that is made has the content of the disk. Without a
\* mishap it is made: no other backup runs, and none has left a snapshot behind.
LEMMA SnapshotKeeps ==
    ASSUME BackupInv, NEW p \in Procs, Snapshot(p)
    PROVE  /\ Apart' /\ FormatOf' /\ SnapsDated' /\ BackupDated' /\ Removers' /\ Alone'
           /\ ReadRight' /\ StoredRight' /\ Restored'
<1> USE DEF BackupInv
<1> DEFINE d == Disk(p)
           name == <<d, clock>>
<1>1. /\ bk[p].pc = "snap" /\ Lvm(p) /\ d \in Disks /\ files[d].raw = "dm" /\ rst[1] = "idle"
      /\ GuestView(d) = data[d] /\ data[d].ver >= began[d].ver
      /\ data[d].fmt = "raw" /\ data[d].state = "ok"
      /\ UNCHANGED <<files, data, clock, last, rst, began, taken>>
      /\ mishaps \subseteq mishaps'
  BY ContentTypes, LvmIsVolume, ViewOfVolume DEF Snapshot, Apart, FormatOf
<1>2. /\ bk'[p].pc = "dd" /\ bk'[p].i = bk[p].i /\ bk'[p].sn = clock
      /\ bk'[p].seen = data[d] /\ bk'[p].floor = began[d]
      /\ \A q \in Procs \ {p} : bk'[q] = bk[q]
  BY <1>1 DEF Snapshot, Stamp, BackupType, Jobs
<1>3. /\ \A q \in Procs : Disk(q)' = Disk(q) /\ (Lvm(q)' <=> Lvm(q)) /\ (ImageFile(q)' <=> ImageFile(q))
      /\ \A q \in Procs \ {p} : Name(q)' = Name(q)
      /\ Name(p)' = name
  BY <1>1, <1>2, SamePlace DEF Name, Disk
<1>4. \/ /\ name \notin DOMAIN snaps /\ DOMAIN snaps' = DOMAIN snaps \cup {name}
         /\ snaps'[name] = data[d] /\ \A n \in DOMAIN snaps : snaps'[n] = snaps[n]
         /\ mishaps' = mishaps
      \/ name \notin DOMAIN snaps /\ snaps' = snaps /\ "full" \in mishaps'
      \/ name \in DOMAIN snaps /\ snaps' = snaps /\ mishaps' = mishaps
  BY DEF Snapshot, Stamp
<1>5. Apart' /\ Alone'
  BY <1>1, <1>2, <1>3 DEF Apart, Alone
<1>6. FormatOf' /\ StoredRight' /\ Restored'
  BY <1>1 DEF FormatOf, StoredRight, Restored, Found, FromVolume, Unmade
<1>7. SnapsDated'
  <2>1. ASSUME NEW n \in DOMAIN snaps'
        PROVE  (n = name /\ snaps'[n] = data[d]) \/ (n \in DOMAIN snaps /\ snaps'[n] = snaps[n])
    <3>1. CASE n \in DOMAIN snaps
      BY <1>4, <3>1
    <3>2. CASE n \notin DOMAIN snaps
      BY <1>4, <2>1, <3>2
    <3> QED
      BY <3>1, <3>2
  <2>2. name[1] = d /\ name[2] = clock /\ clock <= clock
    BY DEF BackupType
  <2> QED
    BY <1>1, <2>1, <2>2 DEF SnapsDated
<1>8. BackupDated'
  <2>1. began[d].ver \in Nat /\ clock \in Nat
    BY <1>1 DEF BackupType, Contents
  <2>2. ASSUME NEW q \in Procs, q # p, bk[q].pc \in {"dd", "read"}, Lvm(q), Name(q) \in DOMAIN snaps'
        PROVE  snaps'[Name(q)].ver >= bk[q].floor.ver
    <3>1. CASE Name(q) \in DOMAIN snaps
      BY <1>4, <2>2, <3>1 DEF BackupDated
    <3>2. CASE Name(q) \notin DOMAIN snaps
      <4>1. Name(q) = name /\ snaps'[name] = data[d]
        BY <1>4, <2>2, <3>2
      <4>2. bk[q].sn = clock /\ Disk(q) = d
        BY <4>1 DEF Name
      <4>3. bk[q].floor.ver <= began[d].ver
        BY <2>2, <4>2 DEF BackupDated
      <4>4. bk[q].floor.ver \in Nat /\ data[d].ver \in Nat
        BY <1>1 DEF BackupType, Jobs, Contents
      <4> QED
        BY <1>1, <2>1, <4>1, <4>3, <4>4
    <3> QED
      BY <3>1, <3>2
  <2>3. name \in DOMAIN snaps' => snaps'[name].ver >= began[d].ver
    BY <1>1, <1>4 DEF SnapsDated
  <2> QED
    BY <1>1, <1>2, <1>3, <2>1, <2>2, <2>3 DEF BackupDated
<1>9. Removers'
  BY <1>1, <1>2, <1>3, <1>4 DEF Removers, HasRemover
<1>10. ReadRight'
  <2>1. ASSUME mishaps' = {}
        PROVE  name \in DOMAIN snaps' /\ snaps'[name] = data[d]
    <3>1. mishaps = {}
      BY <1>1, <2>1
    <3>2. \A n \in DOMAIN snaps : FALSE
      BY <1>1, <3>1 DEF Removers, HasRemover, Alone
    <3> QED
      BY <1>4, <2>1, <3>2
  <2>2. ASSUME NEW q \in Procs, q # p, mishaps' = {}
        PROVE  bk[q].pc = "idle"
    BY <1>1, <2>2 DEF Alone
  <2>3. (Unmade => Unmade') /\ (~Unmade' => name \in DOMAIN snaps')
    BY <1>1, <1>4 DEF Unmade
  <2>4. \A n \in DOMAIN snaps : n \in DOMAIN snaps'
    BY <1>4
  <2>5. ASSUME NEW q \in Procs, q # p
        PROVE  /\ bk'[q].pc = "dd" /\ Lvm(q)' /\ ~Unmade' => Name(q)' \in DOMAIN snaps'
               /\ bk'[q].pc = "dd" /\ Lvm(q)' /\ mishaps' = {} => snaps'[Name(q)'] = bk'[q].seen
               /\ bk'[q].pc = "read" /\ Lvm(q)' => FromVolume(bk[q].read, bk[q].floor)'
               /\ bk'[q].pc = "read" /\ Lvm(q)' /\ mishaps' = {} => bk'[q].read = bk'[q].seen
               /\ bk'[q].pc = "read" /\ ~Lvm(q)' /\ bk'[q].read.fmt = "raw" => bk'[q].read = bk'[q].seen
    <3>1. bk[q].pc = "read" /\ Lvm(q) => FromVolume(bk[q].read, bk[q].floor)'
      BY <1>2, <2>3, <2>5 DEF ReadRight, FromVolume
    <3> QED
      BY <1>2, <1>3, <2>2, <2>3, <2>4, <2>5, <3>1 DEF ReadRight
  <2> QED
    BY <1>1, <1>2, <1>3, <2>1, <2>3, <2>5 DEF ReadRight
<1> QED
  BY <1>5, <1>6, <1>7, <1>8, <1>9, <1>10

\* dd opens its source: a snapshot that is as the guest saw the disk, or the file.
LEMMA DdOpenKeeps ==
    ASSUME BackupInv, NEW p \in Procs, DdOpen(p)
    PROVE  /\ Apart' /\ FormatOf' /\ SnapsDated' /\ BackupDated' /\ Removers' /\ Alone'
           /\ ReadRight' /\ StoredRight' /\ Restored'
<1> USE DEF BackupInv
<1> DEFINE d == Disk(p)
<1>1. /\ bk[p].pc = "dd" /\ rst[1] = "idle" /\ d \in Disks
      /\ UNCHANGED <<files, data, snaps, clock, last, rst, began, taken, mishaps>>
  BY ContentTypes DEF DdOpen, Apart
<1>2. /\ bk'[p].pc = "read" /\ bk'[p].i = bk[p].i /\ bk'[p].sn = bk[p].sn /\ bk'[p].floor = bk[p].floor
      /\ bk'[p].seen = IF Lvm(p) THEN bk[p].seen ELSE GuestView(d)
      /\ Lvm(p) /\ Name(p) \in DOMAIN snaps => bk'[p].read = snaps[Name(p)]
      /\ ~Lvm(p) => bk'[p].read = data[d]
      /\ \A q \in Procs \ {p} : bk'[q] = bk[q]
  BY DEF DdOpen, BackupType, Jobs
<1>3. \A q \in Procs : Disk(q)' = Disk(q) /\ (Lvm(q)' <=> Lvm(q)) /\ (ImageFile(q)' <=> ImageFile(q)) /\ Name(q)' = Name(q)
  BY <1>1, <1>2, SamePlace
<1>4. Apart' /\ Alone'
  BY <1>1, <1>2, <1>3 DEF Apart, Alone
<1>5. FormatOf' /\ StoredRight' /\ Restored' /\ SnapsDated'
  BY <1>1 DEF FormatOf, StoredRight, Restored, Found, SnapsDated, FromVolume, Unmade
<1>6. BackupDated'
  BY <1>1, <1>2, <1>3 DEF BackupDated
<1>7. Removers'
  BY <1>1, <1>2, <1>3 DEF Removers, HasRemover
<1>8. ~Lvm(p) /\ data[d].fmt = "raw" => GuestView(d) = data[d]
  BY <1>1, ViewOfVolume DEF Apart, ImageFile
<1>9. ReadRight'
  <2>1. Unmade' <=> Unmade
    BY <1>1 DEF Unmade
  <2>2. ASSUME NEW q \in Procs, q # p, bk'[q].pc = "read", Lvm(q)'
        PROVE  FromVolume(bk[q].read, bk[q].floor)'
    BY <1>2, <1>3, <2>1, <2>2 DEF ReadRight, FromVolume
  <2>3. Lvm(p) => FromVolume(bk[p].read, bk[p].floor)'
    <3>1. CASE Lvm(p) /\ Name(p) \in DOMAIN snaps
      <4>1. snaps[Name(p)].fmt = "raw" /\ snaps[Name(p)].state = "ok"
        BY <1>1, <3>1, LvmIsVolume DEF SnapsDated, Name
      <4>2. snaps[Name(p)].ver >= bk[p].floor.ver
        BY <1>1, <3>1 DEF BackupDated
      <4> QED
        BY <1>2, <3>1, <4>1, <4>2 DEF FromVolume
    <3>2. CASE Lvm(p) /\ Name(p) \notin DOMAIN snaps
      <4>1. Unmade
        BY <1>1, <3>2 DEF ReadRight
      <4>2. bk'[p].read.state = "empty"
        BY <3>2 DEF DdOpen, BackupType, Jobs, Content
      <4> QED
        BY <2>1, <4>1, <4>2 DEF FromVolume
    <3> QED
      BY <3>1, <3>2
  <2>4. Lvm(p) /\ mishaps = {} => bk'[p].read = bk'[p].seen
    <3>1. mishaps = {} => ~Unmade
      BY DEF Unmade
    <3> QED
      BY <1>1, <1>2, <3>1 DEF ReadRight
  <2> QED
    BY <1>1, <1>2, <1>3, <1>8, <2>1, <2>2, <2>3, <2>4 DEF ReadRight
<1> QED
  BY <1>4, <1>5, <1>6, <1>7, <1>9

\* The image goes to the store.
LEMMA DdEndKeeps ==
    ASSUME BackupInv, NEW p \in Procs, DdEnd(p)
    PROVE  /\ Apart' /\ FormatOf' /\ SnapsDated' /\ BackupDated' /\ Removers' /\ Alone'
           /\ ReadRight' /\ StoredRight' /\ Restored'
<1> USE DEF BackupInv
<1> DEFINE d == Disk(p)
<1>1. /\ bk[p].pc = "read" /\ rst[1] = "idle" /\ d \in Disks
      /\ UNCHANGED <<files, data, snaps, clock, rst, began, mishaps>>
  BY ContentTypes DEF DdEnd, Apart
<1>2. /\ bk'[p].pc = IF Lvm(p) THEN "rm" ELSE "fs"
      /\ bk'[p].i = bk[p].i /\ bk'[p].sn = bk[p].sn
      /\ \A q \in Procs \ {p} : bk'[q] = bk[q]
  BY GoEffect DEF DdEnd
<1>3. \A q \in Procs : Disk(q)' = Disk(q) /\ (Lvm(q)' <=> Lvm(q)) /\ (ImageFile(q)' <=> ImageFile(q)) /\ Name(q)' = Name(q)
  BY <1>1, <1>2, SamePlace
<1>4. Apart' /\ Alone'
  BY <1>1, <1>2, <1>3 DEF Apart, Alone
<1>5. FormatOf' /\ Restored' /\ SnapsDated'
  BY <1>1 DEF FormatOf, Restored, SnapsDated
<1>6. BackupDated'
  BY <1>1, <1>2, <1>3 DEF BackupDated
<1>7. Removers'
  BY <1>1, <1>2, <1>3 DEF Removers, HasRemover
<1>8. ReadRight'
  BY <1>1, <1>2, <1>3 DEF ReadRight, FromVolume, Unmade
<1>9. StoredRight'
  <2>1. /\ \A e \in Disks \ {d} : last'[e] = last[e] /\ taken'[e] = taken[e]
        /\ taken'[d].seen = bk[p].seen /\ taken'[d].floor = bk[p].floor /\ (taken'[d].snap <=> Lvm(p))
        /\ last'[d] = bk[p].read \/ (~Lvm(p) /\ last'[d].state = "torn")
    BY <1>1 DEF DdEnd, BackupType, Jobs, Contents
  <2>2. Lvm(p) => /\ FromVolume(bk[p].read, bk[p].floor)
                  /\ mishaps = {} => bk[p].read = bk[p].seen
    BY <1>1 DEF ReadRight, FromVolume, Unmade
  <2>3. ~Lvm(p) /\ bk[p].read.fmt = "raw" => bk[p].read = bk[p].seen
    BY <1>1 DEF ReadRight, FromVolume, Unmade
  <2> QED
    BY <1>1, <2>1, <2>2, <2>3, LvmIsVolume DEF StoredRight, FromVolume, Unmade
<1> QED
  BY <1>4, <1>5, <1>6, <1>7, <1>8, <1>9

\* A snapshot is removed by the last backup that reads it.
LEMMA SnapshotRemoveKeeps ==
    ASSUME BackupInv, NEW p \in Procs, SnapshotRemove(p)
    PROVE  /\ Apart' /\ FormatOf' /\ SnapsDated' /\ BackupDated' /\ Removers' /\ Alone'
           /\ ReadRight' /\ StoredRight' /\ Restored'
<1> USE DEF BackupInv
<1> DEFINE inUse == \E q \in Procs : bk[q].pc = "read" /\ Lvm(q) /\ Name(q) = Name(p)
<1>1. /\ bk[p].pc = "rm" /\ rst[1] = "idle"
      /\ UNCHANGED <<files, data, clock, last, rst, began, taken, mishaps>>
  BY DEF SnapshotRemove, Apart
<1>2. /\ bk'[p].pc = "fs" /\ bk'[p].i = bk[p].i /\ bk'[p].sn = bk[p].sn
      /\ \A q \in Procs \ {p} : bk'[q] = bk[q]
  BY GoEffect DEF SnapshotRemove
<1>3. \A q \in Procs : Disk(q)' = Disk(q) /\ (Lvm(q)' <=> Lvm(q)) /\ (ImageFile(q)' <=> ImageFile(q)) /\ Name(q)' = Name(q)
  BY <1>1, <1>2, SamePlace
<1>4. /\ \A n \in DOMAIN snaps' : n \in DOMAIN snaps /\ snaps'[n] = snaps[n]
      /\ ~inUse => Name(p) \notin DOMAIN snaps'
  BY DEF SnapshotRemove
<1>5. Apart' /\ Alone'
  BY <1>1, <1>2, <1>3 DEF Apart, Alone
<1>6. FormatOf' /\ StoredRight' /\ Restored' /\ SnapsDated'
  BY <1>1, <1>4 DEF FormatOf, StoredRight, Restored, Found, SnapsDated, FromVolume, Unmade
<1>7. BackupDated'
  BY <1>1, <1>2, <1>3, <1>4 DEF BackupDated
<1>8. Removers'
  BY <1>1, <1>2, <1>3, <1>4 DEF Removers, HasRemover
<1>9. ReadRight'
  <2>1. ~Unmade => \A q \in Procs \ {p} : bk[q].pc = "idle"
    BY <1>1 DEF Alone, Unmade
  <2> QED
    BY <1>1, <1>2, <1>3, <2>1 DEF ReadRight, FromVolume, Unmade
<1> QED
  BY <1>5, <1>6, <1>7, <1>8, <1>9

\* machine-restore: the machine is down, and no backup runs.
LEMMA RestoreKeeps ==
    ASSUME BackupInv, RestoreStart \/ RestoreDisk \/ RestoreEnd
    PROVE  /\ Apart' /\ FormatOf' /\ SnapsDated' /\ BackupDated' /\ Removers' /\ Alone'
           /\ ReadRight' /\ StoredRight' /\ Restored'
<1> USE DEF BackupInv
<1>1. /\ \A p \in Procs : bk[p].pc = "idle"
      /\ UNCHANGED <<snaps, clock, bk, last, began, taken, mishaps>>
  BY DEF Apart, RestoreStart, RestoreDisk, RestoreEnd
<1>2. /\ \A d \in Disks : files'[d].raw \in {files[d].raw, "none", "file"}
      /\ \A d \in Disks : files'[d].raw = "dm" => data'[d] = data[d]
      /\ \A d \in Disks : files'[d].qcow2 => files[d].qcow2
  <2>1. CASE RestoreStart
    BY <2>1 DEF RestoreStart
  <2>2. CASE RestoreDisk
    BY <2>2 DEF RestoreDisk, BackupType
  <2>3. CASE RestoreEnd
    BY <2>3 DEF RestoreEnd
  <2> QED
    BY <2>1, <2>2, <2>3
<1>3. Apart' /\ BackupDated' /\ Alone' /\ ReadRight'
  BY <1>1 DEF Apart, BackupDated, Alone, ReadRight, FromVolume, Unmade
<1>4. Removers'
  BY <1>1 DEF Removers, HasRemover
<1>5. SnapsDated' /\ StoredRight'
  BY <1>1, <1>2 DEF SnapsDated, StoredRight, BackupType, FromVolume, Unmade
<1>6. FormatOf'
  <2>1. CASE RestoreStart
    BY <1>1, <2>1 DEF RestoreStart, FormatOf
  <2>2. CASE RestoreDisk
    BY <1>1, <2>2 DEF RestoreDisk, FormatOf, BackupType
  <2>3. CASE RestoreEnd
    BY <1>1, <2>3 DEF RestoreEnd, FormatOf
  <2> QED
    BY <2>1, <2>2, <2>3
<1>7. Restored'
  <2>1. CASE RestoreStart
    BY <2>1 DEF RestoreStart, Restored
  <2>2. CASE RestoreDisk
    <3> DEFINE d == DiskSeq[rst[2]]
    <3>1. d \in Disks /\ rst[1] = "disk" /\ rst[2] \in 1..Len(DiskSeq) /\ Len(DiskSeq) \in Nat
      BY <2>2, BackupConstants DEF RestoreDisk, BackupType
    <3>2. ASSUME NEW j \in 1..Len(DiskSeq), j <= rst[2], Found(DiskSeq[j])
          PROVE  files'[DiskSeq[j]].raw = "file" /\ data'[DiskSeq[j]] = last[DiskSeq[j]]
      <4>1. CASE DiskSeq[j] = d
        BY <2>2, <3>1, <3>2, <4>1 DEF RestoreDisk, BackupType
      <4>2. CASE DiskSeq[j] # d
        <5>1. j < rst[2]
          BY <3>1, <3>2, <4>2
        <5>2. files[DiskSeq[j]].raw = "file" /\ data[DiskSeq[j]] = last[DiskSeq[j]]
          BY <3>1, <3>2, <5>1 DEF Restored
        <5>3. DiskSeq[j] \in Disks
          BY BackupConstants
        <5> QED
          BY <2>2, <4>2, <5>2, <5>3 DEF RestoreDisk, BackupType
      <4> QED
        BY <4>1, <4>2
    <3>3. rst' = IF rst[2] < Len(DiskSeq) THEN <<"disk", rst[2] + 1>> ELSE <<"done", 1>>
      BY <2>2 DEF RestoreDisk
    <3>4. ASSUME NEW j \in 1..Len(DiskSeq), rst'[1] = "done" \/ j < rst'[2]
          PROVE  j <= rst[2]
      BY <3>1, <3>3, <3>4
    <3> QED
      BY <1>1, <3>2, <3>4 DEF Restored, Found
  <2>3. CASE RestoreEnd
    BY <2>3 DEF RestoreEnd, Restored
  <2> QED
    BY <2>1, <2>2, <2>3
<1> QED
  BY <1>3, <1>4, <1>5, <1>6, <1>7

\* The guest writes, and the clock goes on.
LEMMA GuestAndClockKeep ==
    ASSUME BackupInv, Tick \/ \E d \in Disks : GuestWrite(d)
    PROVE  /\ Apart' /\ FormatOf' /\ SnapsDated' /\ BackupDated' /\ Removers' /\ Alone'
           /\ ReadRight' /\ StoredRight' /\ Restored'
<1> USE DEF BackupInv
<1>1. UNCHANGED <<files, snaps, bk, last, rst, taken, mishaps>>
  BY DEF Tick, GuestWrite
<1>2. \A q \in Procs : Disk(q)' = Disk(q) /\ (Lvm(q)' <=> Lvm(q)) /\ (ImageFile(q)' <=> ImageFile(q)) /\ Name(q)' = Name(q)
  BY <1>1, SamePlace
<1>3. Apart' /\ Alone' /\ Removers' /\ ReadRight' /\ StoredRight'
  BY <1>1, <1>2 DEF Apart, Alone, Removers, HasRemover, ReadRight, StoredRight, FromVolume, Unmade
<1>4. CASE Tick
  <2>1. clock' = clock + 1 /\ clock \in Nat /\ began' = data /\ data' = data
    BY <1>4 DEF Tick, BackupType
  <2>2. \A d \in Disks : data[d].ver \in Nat
    BY DEF BackupType, Contents
  <2>3. FormatOf' /\ Restored'
    BY <1>1, <2>1, <2>2 DEF FormatOf, Restored, Found
  <2>4. \A n \in DOMAIN snaps : n[2] \in Nat /\ n[2] <= clock
    BY DEF SnapsDated, BackupType
  <2>5. SnapsDated'
    BY <1>1, <2>1, <2>4 DEF SnapsDated
  <2>6. \A p \in Procs : bk[p].sn \in Nat
    BY DEF BackupType, Jobs
  <2>7. BackupDated'
    BY <1>1, <1>2, <2>1, <2>6 DEF BackupDated
  <2> QED
    BY <1>3, <2>3, <2>5, <2>7
<1>5. ASSUME NEW d \in Disks, GuestWrite(d)
      PROVE  FormatOf' /\ SnapsDated' /\ BackupDated' /\ Restored'
  <2>1. /\ rst[1] = "idle" /\ UNCHANGED <<clock, began>>
        /\ data'[d].ver = data[d].ver + 1 /\ data'[d].fmt = data[d].fmt
        /\ data'[d].state = data[d].state
        /\ \A e \in Disks \ {d} : data'[e] = data[e]
    BY <1>5 DEF GuestWrite, BackupType, Contents
  <2>2. data[d].ver \in Nat /\ began[d].ver \in Nat
    BY DEF BackupType, Contents
  <2>3. FormatOf'
    BY <1>1, <2>1, <2>2 DEF FormatOf
  <2>4. SnapsDated' /\ Restored'
    BY <1>1, <2>1 DEF SnapsDated, Restored
  <2>5. BackupDated'
    BY <1>1, <1>2, <2>1 DEF BackupDated
  <2> QED
    BY <2>3, <2>4, <2>5
<1> QED
  BY <1>3, <1>4, <1>5

LEMMA BackupInductive == BackupSpec => []BackupInv
<1>1. BackupInit => BackupInv
  <2> SUFFICES ASSUME BackupInit PROVE BackupInv
    OBVIOUS
  <2> USE DEF BackupInit
  <2>1. BackupType
    <3>1. NoContent \in Contents /\ Idle \in Jobs
      BY FirstDisk DEF NoContent, Content, Contents, Formats, States, Idle, Jobs, Pcs
    <3>2. data \in [Disks -> Contents]
      BY DEF Content, Contents, Formats, States
    <3> QED
      BY <3>1, <3>2, FirstDisk DEF BackupType
  <2>2. Apart /\ BackupDated /\ Alone /\ ReadRight /\ Restored
    BY DEF Apart, BackupDated, Alone, ReadRight, Restored, Idle, FromVolume, Unmade
  <2>3. SnapsDated /\ Removers /\ StoredRight
    BY DEF SnapsDated, Removers, StoredRight, NoContent, Content, FromVolume, Unmade
  <2>4. FormatOf
    BY DEF FormatOf, GuestFile, Content
  <2> QED
    BY <2>1, <2>2, <2>3, <2>4 DEF BackupInv
<1>2. BackupInv /\ [BackupNext]_backupVars => BackupInv'
  <2> SUFFICES ASSUME BackupInv, [BackupNext]_backupVars PROVE BackupInv'
    OBVIOUS
  <2>1. BackupType'
    BY BackupTypeStep DEF BackupInv
  <2>2. CASE UNCHANGED backupVars
    <3>1. Apart' /\ BackupDated' /\ Alone'
      BY <2>2 DEF BackupInv, Apart, BackupDated, Alone, Lvm, ImageFile, ListType, Name, Disk
    <3>5. ReadRight'
      BY <2>2 DEF BackupInv, ReadRight, Lvm, ListType, Name, Disk, FromVolume, Unmade
    <3>2. FormatOf' /\ SnapsDated'
      BY <2>2 DEF BackupInv, FormatOf, SnapsDated
    <3>3. Removers'
      BY <2>2 DEF BackupInv, Removers, HasRemover, Lvm, ListType, Name, Disk
    <3>4. StoredRight' /\ Restored'
      BY <2>2 DEF BackupInv, StoredRight, Restored, Found, FromVolume, Unmade
    <3> QED
      BY <2>1, <3>1, <3>2, <3>3, <3>4, <3>5 DEF BackupInv
  <2>3. CASE BackupNext
    <3>1. /\ Apart' /\ FormatOf' /\ SnapsDated' /\ BackupDated' /\ Removers' /\ Alone'
          /\ ReadRight' /\ StoredRight' /\ Restored'
      BY <2>3, BackupMoves, SnapshotKeeps, DdOpenKeeps, DdEndKeeps, SnapshotRemoveKeeps,
         RestoreKeeps, GuestAndClockKeep DEF BackupNext
    <3> QED
      BY <2>1, <3>1 DEF BackupInv
  <2> QED
    BY <2>2, <2>3
<1> QED
  BY <1>1, <1>2, PTL DEF BackupSpec

\* No backup reads a snapshot older than its own beginning, although the names of the
\* snapshots have the seconds only (machine-backup), and unless a backup is killed the
\* last one to end leaves no snapshot behind.
THEOREM SnapshotsSafe == BackupSpec => []SnapshotsOwn
<1>1. BackupInv => SnapshotsOwn
  <2> SUFFICES ASSUME BackupInv PROVE SnapshotsOwn
    OBVIOUS
  <2>1. \A p \in Procs :
           bk[p].pc \in {"dd", "read"} /\ Lvm(p) /\ Name(p) \in DOMAIN snaps =>
               snaps[Name(p)].ver >= bk[p].floor.ver
    BY DEF BackupInv, BackupDated
  <2>2. (\A p \in Procs : bk[p].pc = "idle") /\ "killed" \notin mishaps => DOMAIN snaps = {}
    BY DEF BackupInv, Removers, HasRemover
  <2> QED
    BY <2>1, <2>2 DEF SnapshotsOwn
<1> QED
  BY <1>1, BackupInductive, PTL

\* What the store has of a logical volume is one content of the disk, not older than the
\* second in which the backup asked for its snapshot, or the empty image of a snapshot that
\* could not be made or that an overlapping backup removed.
THEOREM ImagesConsistent == BackupSpec => []ImageConsistent
<1>1. BackupInv => ImageConsistent
  BY DEF BackupInv, StoredRight, FromVolume, Unmade, ImageConsistent
<1> QED
  BY <1>1, BackupInductive, PTL

\* When machine-restore has ended, the guest sees on every disk whose image is raw and
\* whole (not torn by the guest's writes to a file, not empty) what it saw when that image
\* was asked for; after a mishap, of a volume, a content since that second.
THEOREM RestoresFaithfully == BackupSpec => []RestoreFaithful
<1>1. BackupInv => RestoreFaithful
  <2> SUFFICES ASSUME BackupInv, rst[1] = "done",
                      NEW d \in Disks, last[d].state = "ok", last[d].fmt = "raw"
               PROVE  IF mishaps = {} \/ ~taken[d].snap THEN GuestView(d) = taken[d].seen
                      ELSE GuestView(d).state = "ok" /\ GuestView(d).ver >= taken[d].floor.ver
    BY DEF RestoreFaithful
  <2>1. PICK j \in 1..Len(DiskSeq) : DiskSeq[j] = d
    BY BackupConstants DEF Disks
  <2>2. files[d].raw = "file" /\ data[d] = last[d]
    BY <2>1 DEF BackupInv, Restored, Found
  <2>3. GuestView(d) = last[d]
    BY <2>2 DEF GuestView, GuestFile
  <2>4. /\ mishaps = {} \/ ~taken[d].snap => last[d] = taken[d].seen
        /\ taken[d].snap => last[d].ver >= taken[d].floor.ver
    BY DEF BackupInv, StoredRight, FromVolume, FromVolume, Unmade
  <2> QED
    BY <2>3, <2>4
<1> QED
  BY <1>1, BackupInductive, PTL
=============================================================================
