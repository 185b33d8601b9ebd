----------------------------- MODULE OptionRoms -----------------------------
(***************************************************************************)
(* optionroms.c: option roms of displays, of other PCI devices and of      *)
(* files are copied below the BIOS, one behind the other, and run; then    *)
(* the area is searched for what can be booted. An address is a number of  *)
(* units of OPTION_ROM_ALIGN bytes from BUILD_ROM_START. (That roms and    *)
(* low memory stay apart is a matter of FwMemory.)                         *)
(***************************************************************************)
EXTENDS Integers, Sequences, FiniteSets

CONSTANTS
    RomSets,        \* machines: their devices, files and settings
    RomRoom,        \* rom_get_max at the start
    RomSizes        \* the sizes a rom may have when it returns

VARIABLES
    romset,         \* one of RomSets
    stage,          \* "vga", "other", "vgaroms", "options", "genroms", "scan", "done"
    next,           \* the device or the file whose turn it is
    area,           \* the header that is at an address, or Blank
    sources,        \* where the rom at an address is from, set before it runs
    last,           \* RomEnd
    room,           \* rom_get_max, lowered by what roms allocate
    running,        \* the rom that runs, or Idle
    int19,          \* whose int 19h is: [by, fair]: by a rom or the BIOS, and
                    \* whether a rom that may take it has done so
    confirmed,      \* the addresses of the roms that were kept
    postVga,        \* post_vga
    entries         \* what boot_add_bev and boot_add_bcv were called with

romVars == <<romset, stage, next, area, sources, last, room, running, int19, confirmed, postVga, entries>>

Blank == [sig |-> FALSE]
Idle == [at |-> -1]
NoSource == "none"

\* is_valid_rom, by the setting of etc/optionroms-checksum.
is_valid_rom(rom) == rom.sig /\ rom.size # 0 /\ (rom.sum \/ ~romset.checksum)

\* get_pnp_rom and get_pnp_next: the chain of PnP headers, each with a BEV, a
\* BCV or neither.
get_pnp_rom(rom) == rom.pnp # <<>>

\* rom_reserve gives the place behind the last rom that was kept.
Room(size) == last + size <= room

\* The images that a copy leaves from an address on; a rom has its header first.
Laid(images) ==
    LET start[i \in 1 .. Len(images)] == IF i = 1 THEN last ELSE start[i - 1] + images[i - 1].size
        end == last + images[Len(images)].size + (start[Len(images)] - last)
    IN  [a \in DOMAIN area |->
            IF a < last \/ a >= end THEN area[a]
            ELSE LET here == {i \in DOMAIN images : start[i] = a}
                 IN  IF here = {} THEN Blank ELSE images[CHOOSE i \in here : TRUE]]
Length(images) == LET f[i \in 0 .. Len(images)] == IF i = 0 THEN 0 ELSE f[i - 1] + images[i].size
                  IN  f[Len(images)]

\* setRomSource, which the displays do without.
setRomSource(isvga, source) ==
    sources' = IF isvga THEN sources ELSE [sources EXCEPT ![last] = source]

\* rom_confirm: the rom is kept if its size still fits.
Confirm(size) ==
    /\ last' = IF Room(size) THEN last + size ELSE last
    /\ confirmed' = IF Room(size) /\ size > 0 THEN confirmed \union {last} ELSE confirmed

\* init_optionrom: only displays and PnP roms run; what is not valid, or finds no
\* room for the size in its header, stays where it is and the next rom takes its
\* place. `pci` is set for a rom that was found on a device.
init_optionrom(rom, isvga, pci) ==
    IF ~is_valid_rom(rom) \/ ~Room(rom.size)
    THEN UNCHANGED <<last, confirmed, running>>
    ELSE IF isvga \/ get_pnp_rom(rom)
    THEN /\ running' = [at |-> last, vga |-> isvga, pci |-> pci, pnp |-> get_pnp_rom(rom),
                        captured |-> int19.by # "bios"]
         /\ UNCHANGED <<last, confirmed>>
    ELSE Confirm(rom.size) /\ UNCHANGED running

\* Nothing to run.
Skip == UNCHANGED <<area, sources, last, running, confirmed>>

\* deploy_romfile, then its rom: a file that cannot be read, or is too large,
\* is left out; the source is the file or, for a file named after a device, the
\* device.
Deploy(file, isvga, source) ==
    IF ~Room(Length(file.images)) \/ ~file.read THEN Skip
    ELSE /\ area' = Laid(file.images)
         /\ setRomSource(isvga, source)
         /\ init_optionrom(file.images[1], isvga, FALSE)

\* map_pcirom: the images of a rom are searched for the one of this device; 0
\* when there is none, or one without a signature comes first.
Matching(images) ==
    LET found == {i \in DOMAIN images : images[i].match /\ \A j \in 1 .. i : images[j].sig}
    IN  IF found = {} THEN 0 ELSE CHOOSE i \in found : \A j \in found : i <= j
map_pcirom(dev) == IF dev.bar = "rom" THEN Matching(dev.images) ELSE 0

\* init_pcirom
init_pcirom(dev, isvga) ==
    IF dev.file # <<>> THEN Deploy([images |-> dev.file, read |-> TRUE], isvga, dev.id)
    ELSE IF romset.exec > 1 \/ (romset.exec = 1 /\ isvga)
    THEN LET i == map_pcirom(dev)
         IN  IF i = 0 THEN Skip
             ELSE IF ~Room(dev.images[i].size) THEN Skip
             ELSE /\ area' = Laid(<<dev.images[i]>>)
                  /\ setRomSource(isvga, dev.id)
                  /\ init_optionrom(dev.images[i], isvga, TRUE)
    ELSE Skip

-----------------------------------------------------------------------------
Goto(s) == stage' = s /\ next' = 1
Onward == stage' = stage /\ next' = next + 1
RomTurn(s) == stage = s /\ running = Idle
Still == UNCHANGED <<romset, room, int19, postVga, entries>>

\* vgarom_setup: the first display that decodes the addresses of a VGA.
VgaDevice ==
    /\ RomTurn("vga")
    /\ IF next > Len(romset.devs) THEN Goto("other") /\ Skip
       ELSE IF romset.devs[next].class = "vga" THEN Goto("vgaroms") /\ init_pcirom(romset.devs[next], TRUE)
       ELSE Onward /\ Skip
    /\ Still

\* try_setup_display_other: the first other display with a rom of its own.
try_setup_display_other ==
    /\ RomTurn("other")
    /\ IF next > Len(romset.devs) THEN Goto("vgaroms") /\ Skip
       ELSE LET dev == romset.devs[next]
                i == map_pcirom(dev)
            IN  IF dev.class # "other" \/ i = 0 THEN Onward /\ Skip
                ELSE IF ~Room(dev.images[i].size) THEN Onward /\ Skip
                ELSE /\ Goto("vgaroms")
                     /\ area' = Laid(<<dev.images[i]>>)
                     /\ init_optionrom(dev.images[i], TRUE, TRUE)
                     /\ UNCHANGED sources
    /\ Still


\* run_file_roms, of the files for displays and at the end of the others; the
\* place where the displays end is noted.
run_file_roms(s, files, isvga, to) ==
    /\ RomTurn(s)
    /\ IF next > Len(files) THEN Goto(to) /\ Skip
       ELSE Onward /\ Deploy(files[next], isvga, files[next].id)
    /\ postVga' = IF stage' = "options" THEN last ELSE postVga
    /\ UNCHANGED <<romset, room, int19, entries>>

\* optionrom_setup: the devices that are no displays and have no driver.
OptionDevice ==
    /\ RomTurn("options")
    /\ IF next > Len(romset.devs) THEN Goto("genroms") /\ Skip
       ELSE /\ Onward
            /\ IF romset.devs[next].class # "plain" THEN Skip ELSE init_pcirom(romset.devs[next], FALSE)
    /\ Still

\* The rom that runs (external) may take low memory, which the room ends at.
RomAllocates ==
    /\ running # Idle
    /\ room > last + area[running.at].size
    /\ room' = room - 1
    /\ UNCHANGED <<romset, stage, next, area, sources, last, running, int19, confirmed, postVga, entries>>

\* It returns, says how much of it is to stay (what it has grown by it has
\* written), has its checksum right or not and may have taken int 19h, which a
\* PnP rom of a device loses again (init_pcirom).
RomReturns ==
    /\ running # Idle
    /\ \E size \in RomSizes, sum, takes \in BOOLEAN :
        LET pnpDevice == running.pci /\ ~running.vga /\ running.pnp
        IN  /\ area' = [a \in DOMAIN area |->
                            IF a = running.at THEN [area[a] EXCEPT !.size = size, !.sum = sum]
                            ELSE IF a > running.at /\ a < running.at + size THEN Blank ELSE area[a]]
            /\ Confirm(size)
            /\ int19' = IF ~takes THEN int19
                        ELSE IF pnpDevice /\ ~running.captured THEN [int19 EXCEPT !.by = "bios"]
                        ELSE [by |-> area[running.at].id, fair |-> int19.fair \/ ~pnpDevice]
    /\ running' = Idle
    /\ UNCHANGED <<romset, stage, next, sources, room, postVga, entries>>

\* getRomPriority: the device or the file, and which of its entries this is.
RomEntry(a, type, instance) == [at |-> a, type |-> type, source |-> sources[a], instance |-> instance]

\* What a rom has to offer: a legacy rom its entry point, a PnP rom the BEV or
\* BCV of each header up to the first that has neither.
Offers(a) ==
    LET pnp == area[a].pnp
        none == {i \in DOMAIN pnp : pnp[i] = "none"}
        n == IF none = {} THEN Len(pnp) ELSE (CHOOSE i \in none : \A j \in none : i <= j) - 1
    IN  IF pnp = <<>> THEN <<RomEntry(a, "bcv", 0)>> ELSE [i \in 1 .. n |-> RomEntry(a, pnp[i], i - 1)]

\* The search at the end of optionrom_setup goes from rom to rom.
ScanRoms ==
    /\ RomTurn("scan")
    /\ LET at[k \in 1 .. Cardinality(DOMAIN area) + 1] ==
                IF k = 1 THEN postVga
                ELSE \* the place the search goes to from the one before
                     LET p == at[k - 1]
                     IN  IF p >= last THEN p
                         ELSE IF is_valid_rom(area[p]) THEN p + area[p].size ELSE p + 1
           found == {p \in {at[k] : k \in DOMAIN at} : p < last /\ is_valid_rom(area[p])}
       IN  entries' = [p \in found |-> Offers(p)]
    /\ Goto("done")
    /\ Skip /\ UNCHANGED <<romset, room, int19, postVga>>

RomInit ==
    /\ romset \in RomSets
    /\ stage = "vga" /\ next = 1
    /\ area = [a \in 0 .. RomRoom |-> Blank] /\ sources = [a \in 0 .. RomRoom |-> NoSource]
    /\ last = 0 /\ room = RomRoom /\ running = Idle
    /\ int19 = [by |-> "bios", fair |-> FALSE]
    /\ confirmed = {} /\ postVga = 0 /\ entries = [p \in {} |-> <<>>]

RomNext ==
    \/ VgaDevice \/ try_setup_display_other
    \/ run_file_roms("vgaroms", romset.vgafiles, TRUE, "options")
    \/ OptionDevice
    \/ run_file_roms("genroms", romset.files, FALSE, "scan")
    \/ RomAllocates \/ RomReturns \/ ScanRoms

-----------------------------------------------------------------------------
\* Every rom that was kept and is still valid is offered for booting, with all it
\* has to offer and under the priority of the very device or file it came from,
\* never that of one whose rom was given up at the same place; nothing of a
\* display or of a rom that was not kept is. And int 19h is not with a PnP rom of
\* a device unless another rom, which may have it, had taken it first.
RomsListed ==
    /\ stage = "done" =>
        /\ {a \in confirmed : a >= postVga /\ is_valid_rom(area[a])} = DOMAIN entries
        /\ \A a \in DOMAIN entries : \A i \in DOMAIN entries[a] :
            entries[a][i].source = area[a].id /\ entries[a][i].instance = i - 1
    /\ int19.by # "bios" => int19.fair
=============================================================================
