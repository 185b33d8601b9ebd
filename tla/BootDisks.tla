----------------------------- MODULE BootDisks -----------------------------
(***************************************************************************)
(* From the drives of a machine to a running guest. The threads of the     *)
(* controllers look for drives side by side; a drive that answers is       *)
(* sorted into BootList by its boot priority, one that does not is freed,  *)
(* and the user may move one entry to the front. The drives get the        *)
(* numbers of int 13h (IDMap) and the geometries the guest sees, the boot  *)
(* entries are tried one after the other, and a CD may stand in for a      *)
(* floppy or a hard disk (El Torito). The guest uses int 13h, and may ask  *)
(* for the next entry (int 18h) or begin anew (int 19h).                   *)
(***************************************************************************)
EXTENDS Integers, Sequences, SequencesExt, FiniteSets

CONSTANTS
    Threads,        \* controllers, each with a thread of its own
    ScanOf,         \* [Threads -> sequence of drives], in the order of the scan
    Found,          \* [drives -> how a drive is recognised]: "scsi", "ata", "floppy"
    Rank,           \* [drives -> Nat]: drive_s.type, then cntl_id
    FilePrio,       \* [drives and ROMs, "HALT" -> place in the file bootorder, or -1]
    Roms,           \* [ROMs -> "bev" or "bcv"]: boot entries of option ROMs
    NvramOrders,    \* CMOS_BIOS_BOOTFLAG: possible sequences of three types
    Geometries      \* sizes a disk may report: [c, h, s, sectors]

Drives == DOMAIN Found

VARIABLES
    phase,      \* "scan", "prepare", "boot", "guest" or "fail"
    todo,       \* [Threads -> drives still to look for]
    seen,       \* [Threads -> the drive being set up, or "none"]
    mem,        \* [Drives -> "none", "live", "freed"]: the struct of a drive
    disk,       \* [Drives -> geometry reported]
    prio,       \* [boot types -> default priority]
    roms,       \* option ROMs that were not run yet
    list,       \* BootList
    chosen      \* history: the entry picked in the menu, or "none"

listVars == <<phase, todo, seen, mem, disk, prio, roms, list, chosen>>

DefaultPrio == 9999

\* IPL_TYPE_*, in the order of their numbers.
Types == [floppy |-> 1, hd |-> 2, cd |-> 3, bev |-> 128, bcv |-> 129, halt |-> 240]

\* boot_init: the three nibbles of the nvram give the types the priorities 101
\* to 103; a type that is named twice has the later one.
NvramPrio(order) ==
    [t \in {"floppy", "hd", "cd", "bev"} |->
        LET named == {i \in 1 .. 3 : order[i] = t}
        IN  IF named = {} THEN DefaultPrio ELSE 100 + CHOOSE i \in named : \A j \in named : j <= i]

\* defPrio of the result of bootprio_find_*.
PrioOf(what, type) == IF FilePrio[what] < 0 THEN prio[type] ELSE FilePrio[what]

\* The order of BootList: priority, type, and for drives their kind and number.
Before(e, f) ==
    \/ e.prio < f.prio
    \/ /\ e.prio = f.prio
       /\ \/ Types[e.type] < Types[f.type]
          \/ /\ e.type = f.type
             /\ e.type \in {"floppy", "hd", "cd"}
             /\ Rank[e.data] < Rank[f.data]

\* bootentry_add: in front of the first entry that comes later.
BootentryAdd(l, e) ==
    LET later == {i \in 1 .. Len(l) : Before(e, l[i])}
        at == IF later = {} THEN Len(l) + 1 ELSE CHOOSE i \in later : \A j \in later : i <= j
    IN  InsertAt(l, at, e)

\* boot_add_floppy, boot_add_hd, boot_add_cd. Without memory for the entry the
\* drive is left out, and nobody is told.
BootAdd(type, what) ==
    \/ list' = BootentryAdd(list, [type |-> type, prio |-> PrioOf(what, type), data |-> what])
    \/ list' = list

-----------------------------------------------------------------------------
\* virtio_scsi_scan_target and its like: REPORT LUNS tells the thread the units;
\* if the device refuses it, lsi and mpt try the numbers in turn and the others
\* have no drives.
ScanTarget(t) ==
    /\ phase = "scan"
    /\ seen[t] = "start"
    /\ \/ seen' = [seen EXCEPT ![t] = "none"] /\ UNCHANGED todo
       \/ /\ \E i \in 1 .. Len(todo[t]) : Found[todo[t][i]] = "scsi"
          /\ todo' = [todo EXCEPT ![t] = <<>>]
          /\ seen' = [seen EXCEPT ![t] = "none"]
    /\ UNCHANGED <<phase, mem, disk, prio, roms, list, chosen>>

\* virtio_scsi_add_lun and its like: memory for the drive, if there is any.
AddLun(t) ==
    /\ phase = "scan"
    /\ seen[t] = "none"
    /\ todo[t] # <<>>
    /\ \/ /\ mem' = [mem EXCEPT ![Head(todo[t])] = "live"]
          /\ seen' = [seen EXCEPT ![t] = Head(todo[t])]
       \/ UNCHANGED <<mem, seen>>
    /\ todo' = [todo EXCEPT ![t] = Tail(@)]
    /\ UNCHANGED <<phase, disk, prio, roms, list, chosen>>

\* scsi_drive_setup: INQUIRY tells a CD from a disk; a disk must become ready
\* and tell a size in sectors of 512 bytes. Whatever fails, the caller frees the
\* drive. The other drivers have asked their device before; boot_add_cd reads
\* the volume name, whatever comes of it.
DriveSetup(t) ==
    LET d == seen[t] IN
    /\ phase = "scan"
    /\ d \in Drives
    /\ seen' = [seen EXCEPT ![t] = "none"]
    /\ \/ /\ Found[d] = "floppy"
          /\ BootAdd("floppy", d)
          /\ UNCHANGED <<mem, disk>>
       \/ /\ Found[d] \in {"scsi", "cd"}
          /\ BootAdd("cd", d)
          /\ UNCHANGED <<mem, disk>>
       \/ /\ Found[d] \in {"scsi", "ata"}
          /\ \E g \in Geometries : disk' = [disk EXCEPT ![d] = g]
          /\ BootAdd("hd", d)
          /\ UNCHANGED mem
       \/ /\ Found[d] # "floppy"
          /\ mem' = [mem EXCEPT ![d] = "freed"]
          /\ UNCHANGED <<disk, list>>
    /\ UNCHANGED <<phase, todo, prio, roms, chosen>>

\* boot_add_bev and boot_add_bcv, when an option ROM is run: only the first BEV
\* has the priority of the nvram.
AddRom(r) ==
    /\ phase = "scan"
    /\ r \in roms
    /\ roms' = roms \ {r}
    /\ BootAdd(Roms[r], r)
    /\ prio' = IF Roms[r] = "bev" THEN [prio EXCEPT !["bev"] = DefaultPrio] ELSE prio
    /\ UNCHANGED <<phase, todo, seen, mem, disk, chosen>>

\* Broken variant: the chosen entry keeps its priority.
PromotedKeep(l, i) == <<l[i]>> \o RemoveAt(l, i)

\* The end of interactive_bootmenu: the entry is the first from now on.
Promoted(l, i) == <<[l[i] EXCEPT !.prio = 0]>> \o RemoveAt(l, i)

\* interactive_bootmenu after wait_threads: the user picks an entry, or none.
BootMenu ==
    /\ phase = "scan"
    /\ \A t \in Threads : todo[t] = <<>> /\ seen[t] = "none"
    /\ roms = {}
    /\ phase' = "prepare"
    /\ \/ UNCHANGED <<list, chosen>>
       \/ \E i \in 1 .. Len(list) :
            /\ chosen' = list[i].data
            /\ list' = Promoted(list, i)
    /\ UNCHANGED <<todo, seen, mem, disk, prio, roms>>

ListInit ==
    /\ phase = "scan"
    /\ todo = ScanOf
    /\ seen = [t \in Threads |-> "start"]
    /\ mem = [d \in Drives |-> "none"]
    /\ disk = [d \in Drives |-> CHOOSE g \in Geometries : TRUE]
    /\ prio \in {NvramPrio(o) : o \in NvramOrders}
    /\ roms = DOMAIN Roms
    /\ list = <<>>
    /\ chosen = "none"

ListNext ==
    \/ \E t \in Threads : ScanTarget(t) \/ AddLun(t) \/ DriveSetup(t)
    \/ \E r \in DOMAIN Roms : AddRom(r)
    \/ BootMenu

-----------------------------------------------------------------------------
(* The drive numbers and the services of int 13h. *)

CONSTANTS
    MaxExtDrive,    \* BUILD_MAX_EXTDRIVE, the size of IDMap
    EmuLbas,        \* first sectors, and
    EmuCounts,      \* numbers of sectors, of the reads of an emulated drive
    EddSizes        \* sizes of the guest's buffer for the EDD parameters

ASSUME Int13Assumption == MaxExtDrive \in Nat \ {0}

VARIABLES
    idmap,      \* [floppy, hd, cd -> drives in the order of their numbers]
    lchs,       \* [Drives -> geometry for the guest]
    hdcount,    \* bda.hdcount, which the guest may read
    cdemu,      \* CDEmu: [media, number, from]: the image, the number it has and
                \* the CD it is on; media is "none" while there is no emulation
    bounce,     \* cdemu_drive_gf and bounce_buf_fl: can an image be emulated?
    xfer        \* what the last call left in the memory of the guest

int13Vars == <<idmap, lchs, hdcount, cdemu, bounce, xfer>>

Kinds == {"floppy", "hd", "cd"}

\* Drive numbers: a kind (below EXTSTART_HD, below EXTSTART_CD, the rest) and an
\* offset. One more number of each kind than there can be drives.
Numbers == Kinds \X (0 .. MaxExtDrive)

NoDrive == "none"

NoXfer == [what |-> "none"]

-----------------------------------------------------------------------------
\* Geometry. TRANSLATION_*, but for the one the host supplies.
TranslationTypes == {"none", "lba", "large", "rechs"}

\* get_translation without advice: the geometry of the disk if it makes sense.
Heuristic(g) ==
    IF g.c * g.h * g.s = 0 \/ g.c * g.h * g.s > g.sectors THEN "lba"
    ELSE IF g.c <= 1024 /\ g.h <= 16 /\ g.s <= 63 THEN "none"
    ELSE IF g.c * g.h <= 131072 THEN "large" ELSE "lba"

Chs(c, h, s) == [c |-> c, h |-> h, s |-> s]

\* The bitshift of TRANSLATION_LARGE: cylinders are halved and heads doubled
\* until either fits. Six times are enough for 16bit cylinders.
Shifted(c, h) ==
    LET Half(n) == [c |-> c \div 2 ^ n, h |-> h * 2 ^ n]
        done == {n \in 0 .. 6 : Half(n).c <= 1024 \/ (n > 0 /\ Half(n).h > 127)}
    IN  Half(CHOOSE n \in done : \A m \in done : n <= m)

\* The number of heads of TRANSLATION_LBA, by the tracks of the disk.
LbaHeads(tracks) ==
    LET n == tracks \div 1024
    IN  IF n > 128 THEN 255 ELSE IF n > 64 THEN 128 ELSE IF n > 32 THEN 64
        ELSE IF n > 16 THEN 32 ELSE 16


\* setup_translation
SetupTranslation(g, translation) ==
    LET tracks == g.sectors \div 63
        rechs == IF g.h = 16
                 THEN [c |-> ((IF g.c > 61439 THEN 61439 ELSE g.c) * 16) \div 15, h |-> 15]
                 ELSE [c |-> g.c, h |-> g.h]
        raw == CASE translation = "none"  -> Chs(g.c, g.h, g.s)
                 [] translation = "lba"   ->
                        IF g.sectors > 63 * 255 * 1024 THEN Chs(1024, 255, 63)
                        ELSE Chs(tracks \div LbaHeads(tracks), LbaHeads(tracks), 63)
                 [] translation = "large" -> Chs(Shifted(g.c, g.h).c, Shifted(g.c, g.h).h, g.s)
                 [] translation = "rechs" ->
                        Chs(Shifted(rechs.c, rechs.h).c, Shifted(rechs.c, rechs.h).h, g.s)
    IN  [raw EXCEPT !.c = IF @ > 1024 THEN 1024 ELSE @]

\* get_translation: an ATA disk under QEMU has its translation in the nvram.
GetTranslation(d, nvram) == IF Found[d] = "ata" THEN nvram[d] ELSE Heuristic(disk[d])

-----------------------------------------------------------------------------
\* Numbers.

\* add_drive in the order of the list: those that find the map full are left out.
Mapped(kind) ==
    LET found == SelectSeq(list, LAMBDA e : e.type = kind)
        n == IF Len(found) < MaxExtDrive THEN Len(found) ELSE MaxExtDrive
    IN  [i \in 1 .. n |-> found[i].data]

\* getDrive
GetDrive(kind, i) == IF i \in 0 .. Len(idmap[kind]) - 1 THEN idmap[kind][i + 1] ELSE NoDrive

\* Does the emulated drive take a number among those of this kind? Bit 7 of the
\* numbers is compared, and CDs keep theirs.
MakesRoom(kind) ==
    /\ cdemu.media # "none"
    /\ kind # "cd"
    /\ (kind = "floppy") <=> (cdemu.number[1] = "floppy")

\* Broken variant: the other drives keep their numbers.
Handle13Fixed(dl) ==
    IF cdemu.media # "none" /\ dl = cdemu.number THEN "emulated"
    ELSE GetDrive(dl[1], dl[2])

\* handle_13 up to disk_13: the drive a number stands for.
Handle13(dl) ==
    IF cdemu.media # "none" /\ dl = cdemu.number THEN "emulated"
    ELSE GetDrive(dl[1], IF MakesRoom(dl[1]) THEN dl[2] - 1 ELSE dl[2])

\* disk_1308: how many drives of this kind the guest is told of.
Count1308(kind) ==
    LET mapped == IF kind = "hd" THEN hdcount ELSE Len(idmap["floppy"])
        count == IF MakesRoom(kind) THEN mapped + 1 ELSE mapped
    IN  IF kind = "floppy" /\ cdemu.media # "none" /\ count > 2 THEN 2 ELSE count

\* disk_1308: the largest cylinder, head and sector the guest is told, in 10, 8
\* and 6 bits; the last cylinder of a hard disk is kept back.
Chs1308(g) == Chs(((g.c - 2) % 65536) % 1024, (g.h - 1) % 256, g.s % 64)

\* The sanity check of basic_access, and the sector it computes.
ChsValid(g, c, h, s) == c < g.c /\ h < g.h /\ s <= g.s /\ s # 0

ChsLba(g, c, h, s) == (c * g.h + h) * g.s + s - 1

-----------------------------------------------------------------------------
\* Transfers.

\* Sectors that reach the buffer at place `at`, counted from `first` in the image.
Copied(at, first, n) == {<<at + i, first + i>> : i \in 0 .. n - 1}

\* The three reads of cdemu_read: what is left of the first block, whole blocks
\* from `block` on, and the start of the last one; there are 4 sectors to a block
\* and the blocks used in part go through the bounce buffer. Every result it can
\* end with, by what the CD says to each.
CdemuReads(lba, count, block) ==
    LET first == IF lba % 4 = 0 THEN 0 ELSE IF count < 4 - (lba % 4) THEN count ELSE 4 - (lba % 4)
        whole == (count - first) \div 4
        rest  == (count - first) % 4
        Result(ok, n, data) ==
            [what |-> "read", lba |-> lba, asked |-> count, ok |-> ok, count |-> n, data |-> data]
        Body(n) == Copied(0, lba, first) \cup Copied(first, block * 4, 4 * n)
    IN  {Result(FALSE, 0, {}) : n \in {f \in {first} : f > 0}}
        \cup {Result(FALSE, first + 4 * n, Body(n)) : n \in 0 .. whole - 1}
        \cup {Result(FALSE, first + 4 * whole, Body(whole)) : n \in {r \in {rest} : r > 0}}
        \cup {Result(TRUE, count, Body(whole) \cup Copied(first + 4 * whole, (block + whole) * 4, rest))}


\* cdemu_read: the whole blocks follow the one that was used in part.
CdemuRead(lba, count) == CdemuReads(lba, count, (lba + 3) \div 4)

\* fill_ata_edd, fill_edd: the drives with a device path, those of ATA and virtio.
HasPath(type) == type \in {"ata", "scsi", "cd"}

\* fill_generic_edd: how many bytes of the guest's buffer are written, by its
\* size; 26 for a drive without a device path.
FillEdd(type, size) ==
    IF size < 26 THEN 0
    ELSE IF size < 30 \/ ~HasPath(type) THEN 26
    ELSE IF size < 66 THEN 30
    ELSE IF size = 74 THEN 74 ELSE 66

-----------------------------------------------------------------------------
\* Calls of the guest.

\* disk_1302 of the emulated drive, disk_1348 of another: the calls that leave
\* something of SeaBIOS's own making with the guest. (All calls of int 13h, one by
\* one, are those of disk_13.)
DiskCall(dl) ==
    /\ phase = "guest"
    /\ xfer = NoXfer
    /\ \/ /\ Handle13(dl) = "emulated"
          /\ \E l \in EmuLbas, n \in EmuCounts : xfer' \in CdemuRead(l, n)
       \/ /\ Handle13(dl) \in Drives
          /\ dl[1] # "floppy"
          /\ \E size \in EddSizes :
                xfer' = [what |-> "edd", size |-> size, written |-> FillEdd(Found[Handle13(dl)], size)]
    /\ UNCHANGED <<listVars, idmap, lchs, hdcount, cdemu, bounce>>

\* cdemu_134b: the emulation ends; the counts of drives stay as they are.
EmuTerminate ==
    /\ phase = "guest"
    /\ cdemu' = [cdemu EXCEPT !.media = "none"]
    /\ xfer' = NoXfer
    /\ UNCHANGED <<listVars, idmap, lchs, hdcount, bounce>>

Int13Init ==
    /\ idmap = [k \in Kinds |-> <<>>]
    /\ lchs = [d \in Drives |-> Chs(0, 0, 0)]
    /\ hdcount = 0
    /\ cdemu = [media |-> "none", number |-> <<"floppy", 0>>, from |-> NoDrive]
    /\ bounce = FALSE
    /\ xfer = NoXfer

Int13Next ==
    \/ \E dl \in Numbers : DiskCall(dl)
    \/ EmuTerminate

-----------------------------------------------------------------------------
(* The boot. *)

CONSTANTS
    BevMax,         \* 20, the size of BEV
    HdCountBound    \* bound of the model on hdcount, which every emulated hard
                    \* disk increments

ASSUME BootAssumption == BevMax \in Nat \ {0}

VARIABLES
    bev,        \* BEV: the boot entries in the order they are tried
    seq         \* BootSequence

bootVars == <<listVars, int13Vars, bev, seq>>

\* The entry of BEV for an entry of the list: the ROM of a BCV has hooked int
\* 13h and is a hard disk from then on.
BevOf(e) ==
    CASE e.type \in {"bcv", "hd"} -> [type |-> "hd", data |-> NoDrive]
      [] e.type = "floppy"        -> [type |-> "floppy", data |-> NoDrive]
      [] OTHER                    -> [type |-> e.type, data |-> e.data]

\* add_bev, of every entry of the list and at last of a floppy and a hard disk:
\* only the first of the hard disks and of the floppies counts, and there is
\* room for BevMax entries.
Bevs ==
    LET all == [i \in 1 .. Len(list) |-> BevOf(list[i])]
                 \o <<BevOf([type |-> "floppy"]), BevOf([type |-> "hd"])>>
        First(i) == all[i].type \in {"hd", "floppy"} => \A j \in 1 .. i - 1 : all[j].type # all[i].type
        kept == SelectSeq([i \in 1 .. Len(all) |-> i], First)
    IN  [k \in 1 .. (IF Len(kept) < BevMax THEN Len(kept) ELSE BevMax) |-> all[kept[k]]]

\* cdrom_prepboot makes the drive to emulate with, if there are a CD and memory.
CdromPrepboot == bounce' \in IF idmap'["cd"] = <<>> THEN {FALSE} ELSE BOOLEAN

\* prepareboot: bcv_prepboot maps the drives in the order of the list, once a
\* HALT of the file bootorder is in it, and fills BEV. BCVs run in between.
PrepListed ==
    /\ phase = "prepare"
    /\ FilePrio["HALT"] >= 0
    /\ \A i \in 1 .. Len(list) : list[i].type # "halt"
    /\ list' = BootentryAdd(list, [type |-> "halt", prio |-> FilePrio["HALT"], data |-> "HALT"])
    /\ UNCHANGED <<phase, todo, seen, mem, disk, prio, roms, chosen, int13Vars, bev, seq>>

PrepareBoot ==
    /\ phase = "prepare"
    /\ FilePrio["HALT"] < 0 \/ \E i \in 1 .. Len(list) : list[i].type = "halt"
    /\ bev' = Bevs
    /\ idmap' = [k \in Kinds |-> Mapped(k)]
    /\ hdcount' = Len(idmap'["hd"])
    /\ \E nvram \in [{d \in Drives : Found[d] = "ata"} -> TranslationTypes] :
        lchs' = [d \in Drives |->
                    IF \E i \in 1 .. Len(list) : list[i].type = "hd" /\ list[i].data = d
                    THEN SetupTranslation(disk[d], GetTranslation(d, nvram)) ELSE Chs(0, 0, 0)]
    /\ CdromPrepboot
    /\ phase' = "boot"
    /\ seq' = 0
    /\ UNCHANGED <<todo, seen, mem, disk, prio, roms, list, chosen, cdemu, xfer>>

-----------------------------------------------------------------------------
\* do_boot: the entry that is tried now.
Trying(type) == phase = "boot" /\ seq < Len(bev) /\ bev[seq + 1].type = type

\* Broken variant: a boot that failed begins again with the first entry.
BootDiskAnew ==
    /\ \E kind \in {"floppy", "hd"} :
        /\ Trying(kind)
        /\ \E ok \in BOOLEAN :
            /\ ok => Handle13(<<kind, 0>>) # NoDrive
            /\ IF ok THEN phase' = "guest" /\ UNCHANGED seq
                     ELSE seq' = 0 /\ UNCHANGED phase
    /\ xfer' = NoXfer
    /\ UNCHANGED <<todo, seen, mem, disk, prio, roms, list, chosen>>
    /\ UNCHANGED <<idmap, lchs, hdcount, cdemu, bounce, bev>>

\* boot_disk: the first sector of drive 0x00 or 0x80 is read with int 13h and
\* run, if it is there and has the signature. Otherwise, and when a boot sector
\* gives up, int 18h tries the next entry (handle_18).
BootDisk ==
    /\ \E kind \in {"floppy", "hd"} :
        /\ Trying(kind)
        /\ \E ok \in BOOLEAN :
            /\ ok => Handle13(<<kind, 0>>) # NoDrive
            /\ IF ok THEN phase' = "guest" /\ UNCHANGED seq
                     ELSE seq' = seq + 1 /\ UNCHANGED phase
    /\ xfer' = NoXfer
    /\ UNCHANGED <<todo, seen, mem, disk, prio, roms, list, chosen>>
    /\ UNCHANGED <<idmap, lchs, hdcount, cdemu, bounce, bev>>

\* The end of cdrom_boot, for a boot catalog with this kind of image. Without
\* emulation the CD is booted under its own number.
Emulate(d, id, media) ==
    IF media = "none"
    THEN /\ cdemu' = [cdemu EXCEPT !.from = d, !.number = <<"cd", id>>]
         /\ UNCHANGED hdcount
    ELSE /\ cdemu' = [media |-> media, number |-> <<media, 0>>, from |-> d]
         /\ hdcount' = hdcount + (IF media = "hd" THEN 1 ELSE 0)

\* cdrom_boot: without a number, a boot record and a boot catalog nothing has
\* happened; an image that cannot be read, or cannot be emulated, leaves the
\* place it is at behind.
BootCdrom ==
    /\ Trying("cd")
    /\ LET d == bev[seq + 1].data
           ids == {i \in 0 .. MaxExtDrive - 1 : GetDrive("cd", i) = d}
       IN  \/ /\ seq' = seq + 1
              /\ UNCHANGED <<phase, cdemu, hdcount>>
           \/ /\ ids # {}
              /\ cdemu' = [cdemu EXCEPT !.from = d]
              /\ seq' = seq + 1
              /\ UNCHANGED <<phase, hdcount>>
           \/ /\ \E i \in ids, media \in {"none", "floppy", "hd"} :
                    /\ media # "none" => bounce
                    /\ media = "hd" => hdcount < HdCountBound
                    /\ Emulate(d, i, media)
              /\ phase' = "guest"
              /\ UNCHANGED seq
    /\ xfer' = NoXfer
    /\ UNCHANGED <<todo, seen, mem, disk, prio, roms, list, chosen>>
    /\ UNCHANGED <<idmap, lchs, bounce, bev>>

\* boot_rom: an option ROM is called, and boots something or returns.
BootRom ==
    /\ Trying("bev")
    /\ \/ phase' = "guest" /\ UNCHANGED seq
       \/ seq' = seq + 1 /\ UNCHANGED phase
    /\ UNCHANGED <<todo, seen, mem, disk, prio, roms, list, chosen, int13Vars, bev>>

\* boot_fail: no entry is left, or HALT is reached. It waits for the reset.
BootFail ==
    /\ phase = "boot"
    /\ seq >= Len(bev) \/ Trying("halt")
    /\ phase' = "fail"
    /\ UNCHANGED <<todo, seen, mem, disk, prio, roms, list, chosen, int13Vars, bev, seq>>

\* handle_18 and handle_19, called by the guest.
NextBoot ==
    /\ phase = "guest"
    /\ seq' \in {0, seq + 1}
    /\ phase' = "boot"
    /\ xfer' = NoXfer
    /\ UNCHANGED <<todo, seen, mem, disk, prio, roms, list, chosen, bev>>
    /\ UNCHANGED <<idmap, lchs, hdcount, cdemu, bounce>>

BootInit == ListInit /\ Int13Init /\ bev = <<>> /\ seq = 0

Scanning == ListNext /\ UNCHANGED <<int13Vars, bev, seq>>

Calling == Int13Next /\ UNCHANGED <<bev, seq>>

Booting == PrepListed \/ PrepareBoot \/ BootDisk \/ BootCdrom \/ BootRom \/ BootFail

BootNext == Scanning \/ Booting \/ NextBoot \/ Calling

-----------------------------------------------------------------------------
\* The list is in the order of priority, type, controller and unit in whatever
\* order the threads came, and what the user picks in the menu is booted first:
\* a disk has the number 0x80 then, even when bootorder asks to halt before it.
BootOrder ==
    /\ \A i, j \in 1 .. Len(list) : i < j => ~Before(list[j], list[i])
    /\ phase \notin {"scan", "prepare"} /\ chosen # "none" =>
        /\ bev[1] = BevOf(list[1])
        /\ list[1].data = chosen
        /\ list[1].type \in Kinds => idmap[list[1].type][1] = chosen

\* Every drive that was mapped is reached under exactly one number, wherever the
\* emulated drive has pushed it, and is a drive that was not freed; no hard disk
\* is beyond the number of disks the guest is told.
DrivesReachable ==
    /\ \A k \in {"floppy", "hd"} : \A i \in 1 .. Len(idmap[k]) :
        /\ mem[idmap[k][i]] = "live"
        /\ Cardinality({dl \in Numbers : Handle13(dl) = idmap[k][i]}) = 1
    /\ \A dl \in Numbers : dl[1] = "hd" /\ Handle13(dl) # NoDrive => dl[2] < Count1308("hd")

\* A hard disk never gets a geometry that reaches beyond its end: every sector
\* that passes the check of basic_access exists. And what disk_1308 tells of a
\* disk of two cylinders or more does pass it.
GeometryFits ==
    \A i \in 1 .. Len(idmap["hd"]) :
        LET d == idmap["hd"][i]
            g == lchs[d]
            told == Chs1308(g)
        IN  /\ g.c > 0 /\ g.h > 0 /\ g.s > 0 => ChsLba(g, g.c - 1, g.h - 1, g.s) < disk[d].sectors
            /\ g.c > 1 => ChsValid(g, told.c, told.h, told.s)

\* Every drive of the guest can be used to its end: it has its number (DrivesReachable)
\* and a geometry that fits (GeometryFits).
DrivesUsable == DrivesReachable /\ GeometryFits

\* What int 13h leaves in the memory of the guest: a read of the emulated drive
\* ends with success and all sectors asked for, each from its place in the
\* image, or tells how many are good; and no more is written than there is room.
TransfersExact ==
    /\ xfer.what = "read" =>
        /\ xfer.ok => xfer.count = xfer.asked
        /\ xfer.data = {<<i, xfer.lba + i>> : i \in 0 .. xfer.count - 1}
    /\ xfer.what = "edd" => xfer.written <= xfer.size

\* After all drives are found something is booted, or the BIOS says that nothing
\* can be: the search for a boot entry ends.
BootEnds == phase = "boot" ~> phase \in {"guest", "fail"}

-----------------------------------------------------------------------------
(***************************************************************************)
(* disk.c: every call of int 13h and int 40h that a guest may make, what   *)
(* it sends to a drive, what it answers, the status it leaves behind and   *)
(* the locks on CDs. Which drive a number stands for is told above, what a *)
(* drive does with a request in BlockDevice.                               *)
(***************************************************************************)
CONSTANTS
    MaxLocks,       \* 255, what a count of locks may reach
    BasicArgs,      \* [count, c, h, s] of the calls with a sector address
    ExtArgs,        \* [lba, count] of the calls with a number of a sector
    EmuChs          \* the geometry of an emulated drive, by its kind

VARIABLES
    locks,          \* CDRom_locks
    held,           \* locks the guest was granted and has not given back
    lastStatus,     \* floppy_last_status and disk_last_status
    call            \* the last call: its number, the drive, what was sent and
                    \* told, and the status the class of its drive had to have

callVars == <<locks, held, lastStatus, call>>

Class(dl) == IF dl[1] = "floppy" THEN "floppy" ELSE "disk"
CdNumbers == 0 .. MaxExtDrive - 1

\* getLCHS: the geometry of the emulated drive comes from CDEmu.
getLCHS(target) == IF target = "emulated" THEN EmuChs[cdemu.media] ELSE lchs[target]

\* An answer: the status, whether disk_ret notes it, what was sent, and how many
\* sectors were asked for and are told.
NoRequest == [lba |-> -1, count |-> 0]
Answer(ret) == [ret |-> ret, noted |-> TRUE, sent |-> NoRequest, asked |-> 0, told |-> 0, lock |-> 0]
Ok == {Answer("ok")}
Param == {Answer("param")}

\* send_disk_op: the drive takes all of the request, or an error ends it early.
send_disk_op(lba, count) ==
    {[Answer("ok") EXCEPT !.sent = [lba |-> lba, count |-> count], !.asked = count, !.told = count]}
    \union {[Answer("error") EXCEPT !.sent = [lba |-> lba, count |-> count], !.asked = count, !.told = n] :
                n \in {k \in {0, count - 1} : k >= 0}}

\* basic_access: up to 128 sectors from a valid address on.
basic_access(target, a) ==
    LET g == getLCHS(target)
    IN  IF a.count > 128 \/ a.count = 0 \/ ~ChsValid(g, a.c, a.h, a.s) THEN Param
        ELSE send_disk_op(ChsLba(g, a.c, a.h, a.s), a.count)

\* extended_access: the first sector has to exist.
extended_access(target, a) ==
    IF a.lba >= disk[target].sectors THEN Param
    ELSE IF a.count = 0 THEN Ok
    ELSE send_disk_op(a.lba, a.count)

\* disk_1300, disk_1310: a reset, and whether the drive is ready.
disk_1300(target) == {Answer("ok"), Answer("error")}

\* disk_1301: the status of the call before.
disk_1301(dl) == {[Answer(lastStatus[Class(dl)]) EXCEPT !.noted = FALSE]}

\* disk_1305: cylinders above 255 cannot be named.
disk_1305(target, a) ==
    LET g == getLCHS(target)
    IN  IF a.c >= g.c \/ a.h >= g.h \/ a.count = 0 \/ a.count > g.s THEN Param
        ELSE {[r EXCEPT !.told = 0, !.asked = 0] : r \in send_disk_op(ChsLba(g, a.c, a.h, 1), a.count)}

\* disk_1308 has nothing to say of a CD.
disk_1308(dl) == IF dl[1] = "cd" THEN Param ELSE Ok

\* disk_1315: the size of a hard disk, without its last cylinder.
disk_1315(dl, target) ==
    LET g == getLCHS(target)
    IN  IF dl[1] = "hd" THEN {[Answer("ok") EXCEPT !.told = (g.c - 1) * g.h * g.s, !.asked = (g.c - 1) * g.h * g.s]}
        ELSE Ok

\* disk_1316: whether a floppy was changed is not known.
disk_1316(dl) == {Answer(IF dl[1] = "floppy" THEN "changed" ELSE "param")}

\* disk_1345: hard disks need no lock; those of a CD are counted.
disk_1345(dl, al) ==
    IF dl[1] # "cd" THEN Ok
    ELSE CASE al = 0 -> IF locks[dl[2]] = MaxLocks THEN {Answer("toomany")}
                        ELSE {[Answer("ok") EXCEPT !.lock = 1]}
           [] al = 1 -> IF locks[dl[2]] = 0 THEN {Answer("notlocked")}
                        ELSE {[Answer("ok") EXCEPT !.lock = -1]}
           [] al = 2 -> Ok
           [] OTHER  -> Param

\* Broken variant: a lock does not matter.
disk_1346Always(dl) == {Answer(IF dl[1] = "cd" THEN "ok" ELSE "notremovable")}
\* disk_1346: a CD is ejected when it is not locked and int 15h, which the guest
\* may have taken, agrees.
disk_1346(dl) ==
    IF dl[1] # "cd" THEN {Answer("notremovable")}
    ELSE IF locks[dl[2]] # 0 THEN {Answer("locked")}
    ELSE {Answer("ok"), Answer("locked")}

\* disk_1349 answers for a CD without a note of it.
disk_1349(dl) == IF dl[1] # "cd" THEN Ok ELSE {[Answer("changed") EXCEPT !.noted = FALSE]}

\* disk_134e
disk_134e(al) == IF al \in {1, 3, 4, 6} THEN Ok ELSE Param

FloppyOps == {"00", "01", "02", "03", "04", "05", "08", "15", "16"}
StubOps == {"09", "0c", "0d", "11", "14"}
OldOps == FloppyOps \union StubOps \union {"10"}
ExtOps == {"41", "42", "43", "44", "45", "46", "47", "48", "49", "4e"}
Ops == OldOps \union ExtOps \union {"other"}

\* disk_13 with the arguments a call has: a sector, or al.
disk_13(op, dl, target, a) ==
    CASE op \in {"00", "10"}             -> disk_1300(target)
      [] op = "01"                       -> disk_1301(dl)
      [] op \in {"02", "03", "04"}       -> basic_access(target, a)
      [] op = "05"                       -> disk_1305(target, a)
      [] op = "08"                       -> disk_1308(dl)
      [] op \in StubOps \union {"41"}    -> Ok
      [] op = "15"                       -> disk_1315(dl, target)
      [] op = "16"                       -> disk_1316(dl)
      [] op \in {"42", "43", "44", "47"} -> extended_access(target, a)
      [] op = "45"                       -> disk_1345(dl, a)
      [] op = "46"                       -> disk_1346(dl)
      [] op = "48"                       -> {Answer("ok"), Answer("param")}
      [] op = "49"                       -> disk_1349(dl)
      [] op = "4e"                       -> disk_134e(a)
      [] OTHER                           -> Param

ArgsOf(op) ==
    CASE op \in {"02", "03", "04", "05"} -> BasicArgs
      [] op \in {"42", "43", "44", "47"} -> ExtArgs
      [] op \in {"45", "4e"}             -> {0, 1, 2, 5}
      [] OTHER                           -> {0}

\* floppy_13 and the emulated drive know the old calls only, and there is
\* nothing to say of a number without a drive.
Answers(op, dl, target, a) ==
    IF target = NoDrive THEN Param
    ELSE IF target = "emulated" /\ op \notin OldOps THEN Param
    ELSE IF target # "emulated" /\ dl[1] = "floppy" /\ op \notin FloppyOps THEN Param
    ELSE disk_13(op, dl, target, a)

\* __disk_ret: the status of floppies and that of all other drives.
disk_ret(dl, r) == lastStatus' = IF r.noted THEN [lastStatus EXCEPT ![Class(dl)] = r.ret] ELSE lastStatus

\* handle_13 and handle_40, which knows of no emulation; a target is fixed
\* before the request is sent.
Call13(op, dl, target, a) ==
    \E r \in Answers(op, dl, target, a) :
        /\ disk_ret(dl, r)
        /\ locks' = IF r.lock = 0 THEN locks ELSE [locks EXCEPT ![dl[2]] = @ + r.lock]
        /\ held' = IF op = "45" /\ dl[1] = "cd" /\ r.ret = "ok"
                   THEN [held EXCEPT ![dl[2]] = @ + (IF a = 0 THEN 1 ELSE IF a = 1 THEN -1 ELSE 0)] ELSE held
        /\ call' = [op |-> op, dl |-> dl, target |-> target, ret |-> r.ret, sent |-> r.sent, asked |-> r.asked,
                    told |-> r.told, free |-> dl[1] = "cd" => held[dl[2]] = 0]

NoCall == [op |-> "none"]

CallReturns == call # NoCall /\ call' = NoCall /\ UNCHANGED <<locks, held, lastStatus>>

DiskCalled ==
    /\ phase = "guest"
    /\ call = NoCall
    /\ \E op \in Ops, dl \in {n \in Numbers : n[2] < MaxExtDrive} : \E a \in ArgsOf(op) :
        Call13(op, dl, Handle13(dl), a) \/ Call13(op, dl, GetDrive(dl[1], dl[2]), a)

CallNext == DiskCalled \/ CallReturns

CallInit ==
    /\ locks = [i \in CdNumbers |-> 0] /\ held = [i \in CdNumbers |-> 0]
    /\ lastStatus = [floppy |-> "ok", disk |-> "ok"]
    /\ call = NoCall

-----------------------------------------------------------------------------
\* A guest gets what it asked for or is told so: no request begins beyond the end
\* of its drive and a success is a complete one; the status it reads back with
\* the call for it is that of its last call to a drive of that class; a size that
\* is told fits the disk; and a CD is ejected only when every lock that was
\* granted has been given back, however many there were.
CallsAnswered ==
    /\ \A i \in CdNumbers : locks[i] = held[i] /\ held[i] \in 0 .. MaxLocks
    /\ call # NoCall =>
        /\ call.ret = "ok" => call.told = call.asked
        /\ call.op = "46" /\ call.dl[1] = "cd" /\ call.ret = "ok" => call.free
        /\ call.op # "49" \/ call.dl[1] # "cd" => lastStatus[Class(call.dl)] = call.ret
        /\ call.sent # NoRequest /\ call.target # "emulated" /\ call.dl[1] # "floppy" =>
            call.sent.lba < disk[call.target].sectors
        /\ call.op = "15" /\ call.dl[1] = "hd" /\ call.target \in Drives =>
            call.told < disk[call.target].sectors

\* Whatever the guest asks of int 13h, the answer is true: of the transfers of an
\* emulated drive and of EDD (TransfersExact) and of all other calls (CallsAnswered).
AnswersTrue == CallsAnswered /\ TransfersExact
=============================================================================
