---------------------------- MODULE MCBootDisks ----------------------------
(***************************************************************************)
(* An instance of BootDisks: a thread with a floppy, one with an ATA disk  *)
(* and a CD, one of a SCSI controller, and an option ROM. The calls of the *)
(* guest are looked at on a machine whose drives were all found, with and  *)
(* without an emulated drive.                                              *)
(***************************************************************************)
EXTENDS BootDisks

VARIABLE part

vars == <<part, bootVars, callVars>>

MCScan == [fdc |-> <<"fd0">>, ide |-> <<"ata0", "cd0">>, scsi |-> <<"sd0">>]
MCFound == [fd0 |-> "floppy", ata0 |-> "ata", cd0 |-> "cd", sd0 |-> "scsi"]
MCRank == [fd0 |-> 1, ata0 |-> 2, cd0 |-> 3, sd0 |-> 4]
MCFilePrio ==
    [fd0 |-> -1, ata0 |-> -1, cd0 |-> -1, sd0 |-> 2, pxe |-> -1, HALT |-> 3]
MCRoms == [pxe |-> "bev"]
MCOrders == {<<"hd", "cd", "floppy">>}

\* A disk of 8 GB, a very small one and one without a geometry of its own.
Small == [c |-> 2, h |-> 16, s |-> 63, sectors |-> 2016]
MCGeometries ==
    {[c |-> 16383, h |-> 16, s |-> 63, sectors |-> 20971520],
     Small,
     [c |-> 0, h |-> 0, s |-> 0, sectors |-> 1097000]}

\* Sectors inside, at the end of and outside the small disk and the emulated ones.
At(n, c, h, s) == [count |-> n, c |-> c, h |-> h, s |-> s]
MCBasicArgs == {At(0, 0, 0, 1), At(129, 0, 0, 1), At(2, 0, 0, 0), At(2, 1, 15, 63), At(2, 2, 0, 1), At(1, 0, 1, 18)}
MCExtArgs == {[lba |-> 2015, count |-> 2], [lba |-> 2016, count |-> 1], [lba |-> 7, count |-> 0]}
MCEmuChs == [floppy |-> Chs(80, 2, 18), hd |-> Chs(3, 16, 63)]

Emulated == {[media |-> "none", number |-> <<"cd", 0>>, from |-> "cd0"]}
            \union {[media |-> m, number |-> <<m, 0>>, from |-> "cd0"] : m \in {"floppy", "hd"}}

Init ==
    \/ part = "boot" /\ BootInit /\ CallInit
    \/ /\ part = "calls" /\ CallInit
       /\ phase = "guest" /\ chosen = "none" /\ roms = {} /\ prio = NvramPrio(<<"hd", "cd", "floppy">>)
       /\ todo = [t \in Threads |-> <<>>] /\ seen = [t \in Threads |-> "none"] /\ list = <<>>
       /\ mem = [d \in Drives |-> "live"] /\ disk = [d \in Drives |-> Small]
       /\ idmap = [floppy |-> <<"fd0">>, hd |-> <<"sd0", "ata0">>, cd |-> <<"cd0">>]
       /\ lchs = [d \in Drives |-> CASE Found[d] = "floppy" -> Chs(80, 2, 18) [] Found[d] = "cd" -> Chs(0, 0, 0)
                                     [] OTHER -> Chs(2, 16, 63)]
       /\ cdemu \in Emulated /\ hdcount = (IF cdemu.media = "hd" THEN 3 ELSE 2)
       /\ bounce = TRUE /\ xfer = NoXfer
       /\ bev = <<[type |-> "cd", data |-> "cd0"]>> /\ seq = 0

BootTurn == part = "boot" /\ BootNext /\ UNCHANGED <<part, callVars>>
CallTurn == part = "calls" /\ CallNext /\ UNCHANGED <<part, bootVars>>

\* The scan and the boot go on by themselves: every wait of theirs has a limit.
Spec == /\ Init /\ [][BootTurn \/ CallTurn]_vars
        /\ WF_vars(part = "boot" /\ Scanning /\ UNCHANGED <<part, callVars>>)
        /\ WF_vars(part = "boot" /\ Booting /\ UNCHANGED <<part, callVars>>)
=============================================================================
