------------------------------ MODULE FwFiles ------------------------------
(***************************************************************************)
(* The "files" of the firmware: the list of romfile.c and the sources that *)
(* fill it, QEMU's fw_cfg (fw/paravirt.c), the flash of coreboot           *)
(* (fw/coreboot.c) and multiboot modules (fw/multiboot.c). The list is     *)
(* made before there are threads; files are read by POST alone as long as  *)
(* it builds tables, and by POST and the threads of drivers afterwards,    *)
(* through one fw_cfg device whose transfers a thread waits for in yield.  *)
(* Numbers are one cell wide, whatever their size in bytes.                *)
(***************************************************************************)
EXTENDS Integers, Sequences, SequencesExt, FiniteSetsExt

CONSTANTS
    FileMachines,  \* what QEMU, the flash and the boot loader of a machine offer
    FileThreads,   \* threads that read files; "post" is maininit
    FileNames,     \* the names that are asked for
    Unlucky,       \* names whose structure may find no memory
    Written,       \* the cell that qemu_cfg_write_file writes
    SerialPort     \* PORT_SERIAL1

VARIABLES
    fm,       \* the machine, and the name whose structure will find no memory
    fphase,   \* "off", "alone": POST builds tables, "threads": drivers run
    romfiles, \* RomfileRoot: the list, newest first
    fwcfg,    \* the device: items, selected one, offset, transfers it has accepted
    rd,       \* thread -> what it reads or writes and how far it is
    wrote,    \* history: <<file, offset>> of the cell POST has written, <<>> before
    payload   \* the boot entries of payloads, and the memory after one was run

fileVars == <<fm, fphase, romfiles, fwcfg, rd, wrote, payload>>

-----------------------------------------------------------------------------
(* romfile.c *)

\* struct romfile_s, with what the structure around it adds
RomFileOf(name, size, copy, src) == [name |-> name, size |-> size, copy |-> copy, src |-> src]
NoFile == RomFileOf(<<>>, 0, "none", <<>>)

romfile_add(list, f) == <<f>> \o list

\* A structure for a file that finds no memory is left out.
Adding(m, list, f) == IF f.name = m.lost THEN list ELSE romfile_add(list, f)

Named(list, name) == SelectSeq(list, LAMBDA f : f.name = name)
romfile_find(list, name) == IF Named(list, name) = <<>> THEN NoFile ELSE Named(list, name)[1]

\* The files a loop over romfile_findprefix(dir, ...) sees; a name is <<dir, file>>.
romfile_findprefix(list, dir) == SelectSeq(list, LAMBDA f : f.name[1] = dir)

const_romfile_add_int(m, list, name, value) ==
    Adding(m, list, RomFileOf(name, 1, "const", [data |-> <<value>>]))

-----------------------------------------------------------------------------
(* fw_cfg: the device (external), and what fw/paravirt.c reads before there are threads *)

Chain(ss) == LET f[i \in 0..Len(ss)] == IF i = 0 THEN <<>> ELSE f[i - 1] \o ss[i] IN f[Len(ss)]

\* struct qemu_smbios_header is length, headertype, tabletype and fieldoffset; in an
\* entry that is a table (headertype 1) the last two are the start of the table.
SmbiosEntry(e) ==
    IF e.type = "field" THEN <<Len(e.body) + 4, 0, e.kind, e.at>> \o e.body
    ELSE <<Len(e.body) + 2, 1>> \o e.body

FwItems(m) ==
    [k \in {"NUMA", "ACPI", "SMBIOS", "MAX_CPUS", "BOOT_MENU", "IRQ0", "DIR"} \cup {e.key : e \in Range(m.dir)} |->
        CASE k = "NUMA" -> <<Len(m.nodes)>> \o m.cpumap \o m.nodes
          [] k = "ACPI" -> <<Len(m.acpi)>> \o Chain([i \in DOMAIN m.acpi |-> <<Len(m.acpi[i])>> \o m.acpi[i]])
          [] k = "SMBIOS" -> <<Len(m.smbios)>> \o Chain([i \in DOMAIN m.smbios |-> SmbiosEntry(m.smbios[i])])
          [] k = "MAX_CPUS" -> <<Len(m.cpumap)>>
          [] k \in {"BOOT_MENU", "IRQ0"} -> <<m.misc>>
          [] k = "DIR" -> <<Len(m.dir)>> \o [i \in DOMAIN m.dir |-> [name |-> m.dir[i].name, key |-> m.dir[i].key,
                                                                      size |-> Len(m.dir[i].body)]]
          [] OTHER -> m.dir[SelectInSeq(m.dir, LAMBDA e : e.key = k)].body]

\* What a read of n cells gives; beyond the end of an item there are zeros.
FwCells(d, n) ==
    [i \in 1..n |-> IF d.off + i <= Len(d.items[d.sel]) THEN d.items[d.sel][d.off + i] ELSE 0]

qemu_cfg_select(d, key) == [d EXCEPT !.sel = key, !.off = 0]
qemu_cfg_skip(d, n) == [d EXCEPT !.off = @ + n]

\* A read of one cell of an item at an offset, as the stream of reads has come to it
At1(m, key, off) == FwItems(m)[key][off + 1]

qemu_romfile_add(m, list, name, key, skip, size) ==
    Adding(m, list, RomFileOf(name, size, "qemu", [select |-> key, skip |-> skip]))

\* The stream (dev) and the count the code keeps of it (offset) go on side by side.
AcpiTables(m, list0) ==
    LET f[i \in 0..Len(m.acpi)] ==
            IF i = 0 THEN [dev |-> 1, offset |-> 1, list |-> list0]
            ELSE LET p == f[i - 1] len == At1(m, "ACPI", p.dev)
                 IN  [dev |-> p.dev + 1 + len, offset |-> p.offset + 1 + len,
                      list |-> qemu_romfile_add(m, p.list, <<"acpi", i>>, "ACPI", p.offset + 1, len)]
    IN  f[At1(m, "ACPI", 0)].list

SmbiosFiles(m, list0) ==
    LET f[i \in 0..Len(m.smbios)] ==
            IF i = 0 THEN [dev |-> 1, offset |-> 1, list |-> list0]
            ELSE LET p == f[i - 1]
                     length == At1(m, "SMBIOS", p.dev)
                     field  == At1(m, "SMBIOS", p.dev + 1) = 0
                     head   == IF field THEN 4 ELSE 2
                 IN  [dev |-> p.dev + 4 + (length - 4), offset |-> p.offset + length,
                      list |-> qemu_romfile_add(m, p.list,
                          IF field THEN <<"smbios", At1(m, "SMBIOS", p.dev + 2), At1(m, "SMBIOS", p.dev + 3)>>
                          ELSE <<"smbios", At1(m, "SMBIOS", p.dev + 2), i>>,
                          "SMBIOS", p.offset + head, length - head)]
    IN  f[At1(m, "SMBIOS", 0)].list

\* The entries that are older than the directory of files
qemu_cfg_legacy(m) ==
    LET Add(list, name, key, skip, size) == qemu_romfile_add(m, list, <<"etc", name>>, key, skip, size)
        misc  == Add(Add(Add(<<>>, "show-boot-menu", "BOOT_MENU", 0, 1), "irq0-override", "IRQ0", 0, 1), "max-cpus", "MAX_CPUS", 0, 1)
        count == At1(m, "NUMA", 0)
        cpus  == IF romfile_find(misc, <<"etc", "max-cpus">>) = NoFile THEN 0 ELSE At1(m, "MAX_CPUS", 0)
        numa  == Add(Add(misc, "numa-cpu-map", "NUMA", 1, cpus), "numa-nodes", "NUMA", 1 + cpus, count)
    IN  SmbiosFiles(m, AcpiTables(m, numa))

\* A coreboot build has no legacy entries; on other hardware there is no fw_cfg.
qemu_cfg_init(m) ==
    LET old == IF m.build = "qemu" THEN qemu_cfg_legacy(m) ELSE <<>>
        dir[e \in 0..Len(m.dir)] ==
            IF e = 0 THEN old
            ELSE LET q == At1(m, "DIR", e) IN qemu_romfile_add(m, dir[e - 1], q.name, q.key, 0, q.size)
        all == dir[At1(m, "DIR", 0)]
        sercon == romfile_find(all, <<"etc", "sercon-port">>) # NoFile \/ romfile_find(all, <<"vgaroms", "sgabios.bin">>) # NoFile
    IN  IF ~m.sig THEN <<>>
        ELSE IF m.nogfx /\ ~sercon THEN const_romfile_add_int(m, all, <<"etc", "sercon-port">>, SerialPort)
        ELSE all

-----------------------------------------------------------------------------
(* fw/coreboot.c and fw/multiboot.c *)

\* Data that cannot be uncompressed, or is more than there is room for, is refused.
ulzma(c, maxlen) == IF c.bad \/ Len(c.body) > maxlen THEN [ok |-> FALSE, data |-> <<>>] ELSE [ok |-> TRUE, data |-> c.body]

\* The size of a compressed file is in its header; the name loses its suffix.
CbfsFile(c) ==
    RomFileOf(c.name, Len(c.body), "cbfs", [data |-> c, flags |-> c.lzma, fhdr |-> c.name])

\* The walk over the flash ends at the first structure that finds no memory.
CbfsWalk(m, list0) ==
    LET cut == SelectInSeq(m.flash, LAMBDA c : c.name = m.lost)
        f[i \in 0..Len(m.flash)] == IF i = 0 THEN list0 ELSE romfile_add(f[i - 1], CbfsFile(m.flash[i]))
    IN  f[IF cut = 0 THEN Len(m.flash) ELSE cut - 1]

\* A link is a copy of its destination's structure under another name. The file of
\* links is one of the flash; lines without a destination are left out of it.
process_links_file(m, list0) ==
    LET file  == romfile_find(list0, <<"links", "">>)
        lines == IF file = NoFile THEN <<>> ELSE ulzma(file.src.data, file.size).data
        cut   == SelectInSeq(lines, LAMBDA l : l.link = m.lost)
        f[i \in 0..Len(lines)] ==
            IF i = 0 THEN list0
            ELSE LET p == f[i - 1] to == romfile_find(p, lines[i].dest)
                 IN  IF to = NoFile \/ cut \in 1..i THEN p ELSE romfile_add(p, [to EXCEPT !.name = lines[i].link])
    IN  f[Len(lines)]

coreboot_cbfs_init(m, list) ==
    IF m.build = "qemu" THEN list ELSE process_links_file(m, CbfsWalk(m, list))

\* The value of the first word "name=..." of a command line
extract_filename(words) ==
    LET at == SelectInSeq(words, LAMBDA w : w.key = "name") IN IF at = 0 THEN <<>> ELSE words[at].val

multiboot_init(m, list0) ==
    LET names == [i \in DOMAIN m.mods |-> extract_filename(m.mods[i].cmdline)]
        cut   == SelectInSeq(names, LAMBDA n : n # <<>> /\ n = m.lost)
        f[i \in 0..Len(m.mods)] ==
            IF i = 0 THEN list0
            ELSE LET p == f[i - 1]
                 IN  IF cut \in 1..i \/ names[i] = <<>> THEN p
                     ELSE romfile_add(p, RomFileOf(names[i], Len(m.mods[i].body), "mbfs", [data |-> m.mods[i].body]))
    IN  IF m.build = "qemu" THEN list0 ELSE f[Len(m.mods)]

\* Every file below img/, which are files of the flash, becomes a boot entry.
cbfs_payload_setup ==
    IF fm.build = "qemu" THEN <<>>
    ELSE LET imgs == romfile_findprefix(romfiles, "img") IN [i \in DOMAIN imgs |-> imgs[i].src.fhdr]

\* The segments of a payload are put in their places, the rest of each is cleared, until
\* the one that says where to begin; one that cannot be uncompressed ends it.
cbfs_run_payload(segs) ==
    LET Put(mem, s, data) ==
            [a \in DOMAIN mem \cup {s.addr + i : i \in 0..(s.size - 1)} |->
                IF a \notin s.addr .. (s.addr + s.size - 1) THEN mem[a]
                ELSE IF a - s.addr < Len(data) THEN data[a - s.addr + 1] ELSE 0]
        f[i \in 0..Len(segs)] ==
            IF i = 0 THEN [mem |-> <<>>, at |-> "loading"]
            ELSE LET p == f[i - 1]
                     s == segs[i]
                     got == CASE s.comp = "none" -> [ok |-> TRUE, data |-> SubSeq(s.body, 1, Min({Len(s.body), s.size}))]
                              [] s.comp = "lzma" -> ulzma(s, s.size)
                              [] OTHER -> [ok |-> FALSE, data |-> <<>>]
                 IN  CASE p.at # "loading" -> p
                       [] s.type = "bss" -> [p EXCEPT !.mem = Put(@, s, <<>>)]
                       [] s.type = "entry" -> [p EXCEPT !.at = "entered"]
                       [] s.type = "code" /\ ~got.ok -> [p EXCEPT !.at = "returned"]
                       [] OTHER -> [p EXCEPT !.mem = Put(@, s, got.data)]
    IN  f[Len(segs)]

-----------------------------------------------------------------------------
(* Reading and writing files *)

\* A transfer of the DMA interface is accepted and done later; who asked waits in yield.
qemu_cfg_dma_transfer(d, t, key, op, n) == [d EXCEPT !.q = Append(@, [t |-> t, key |-> key, op |-> op, n |-> n])]

\* A thread that has asked for a file (want "file"), a number ("int"), or to write a cell
Asking(name, want, f, at) ==
    [pc |-> "idle", served |-> FALSE, name |-> name, want |-> want, f |-> f, at |-> at, ok |-> FALSE, buf |-> <<>>, oom |-> FALSE]
NotAsking == Asking(<<>>, "", NoFile, 0)
Awaits(r, pc) == [r EXCEPT !.pc = pc, !.served = FALSE]
Ends(r, ok, data) == [r EXCEPT !.pc = "done", !.ok = ok, !.buf = data]
Without(r) == [Ends(r, FALSE, <<>>) EXCEPT !.oom = TRUE]

\* Broken variant: the item is selected first and read by a transfer of its own
qemu_cfg_read_entryApart(t, r, key, n) ==
    /\ fwcfg' = qemu_cfg_dma_transfer(qemu_cfg_select(fwcfg, key), t, "none", "read", n)
    /\ rd' = [rd EXCEPT ![t] = Awaits(r, "read")]

\* With DMA, one transfer selects and reads; without, the ports are read with no yield.
qemu_cfg_read_entry(t, r, key, n) ==
    IF fwcfg.dma
    THEN /\ fwcfg' = qemu_cfg_dma_transfer(fwcfg, t, key, "read", n)
         /\ rd' = [rd EXCEPT ![t] = Awaits(r, "read")]
    ELSE \E d \in {qemu_cfg_select(fwcfg, key)} :
            /\ rd' = [rd EXCEPT ![t] = Ends(r, TRUE, FwCells(d, n))]
            /\ fwcfg' = qemu_cfg_skip(d, n)

qemu_cfg_read_file(t, r) ==
    \E d \in {qemu_cfg_select(fwcfg, r.f.src.select)} :
        IF r.f.src.skip = 0 THEN qemu_cfg_read_entry(t, r, r.f.src.select, r.f.size)
        ELSE IF fwcfg.dma
        THEN /\ fwcfg' = qemu_cfg_dma_transfer(d, t, "none", "skip", r.f.src.skip)
             /\ rd' = [rd EXCEPT ![t] = Awaits(r, "skip")]
        ELSE /\ fwcfg' = qemu_cfg_skip(d, r.f.src.skip + r.f.size)
             /\ rd' = [rd EXCEPT ![t] = Ends(r, TRUE, FwCells(qemu_cfg_skip(d, r.f.src.skip), r.f.size))]

\* A compressed file is copied to memory first, and its thread pauses after uncompressing it.
cbfs_copyfile(t, r) ==
    /\ UNCHANGED fwcfg
    /\ IF ~r.f.src.flags THEN rd' = [rd EXCEPT ![t] = Ends(r, TRUE, r.f.src.data.body)]
       ELSE \/ rd' = [rd EXCEPT ![t] = Without(r)]
            \/ \E got \in {ulzma(r.f.src.data, IF r.want = "int" THEN 8 ELSE r.f.size)} :
                  rd' = [rd EXCEPT ![t] = [Awaits(r, "yield") EXCEPT !.ok = got.ok, !.buf = got.data]]

\* const_read_file and mbfs_copyfile
MemoryCopy(t, r) == UNCHANGED fwcfg /\ rd' = [rd EXCEPT ![t] = Ends(r, TRUE, r.f.src.data)]

Copy(t, r) ==
    CASE r.f.copy = "qemu" -> qemu_cfg_read_file(t, r)
      [] r.f.copy = "cbfs" -> cbfs_copyfile(t, r)
      [] OTHER -> MemoryCopy(t, r)

Refused(t, r) == UNCHANGED fwcfg /\ rd' = [rd EXCEPT ![t] = r]

romfile_loadfile(t, name) ==
    \E r \in {Asking(name, "file", romfile_find(romfiles, name), 0)} :
        IF r.f.size = 0 THEN Refused(t, Ends(r, FALSE, <<>>)) ELSE Refused(t, Without(r)) \/ Copy(t, r)

\* The default stands for what is not a number.
romfile_loadint(t, name) ==
    \E r \in {Asking(name, "int", romfile_find(romfiles, name), 0)} :
        IF r.f.size \notin {1, 2, 4, 8} THEN Refused(t, Ends(r, FALSE, <<>>)) ELSE Copy(t, r)

\* The cell at an offset of a file of fw_cfg is overwritten.
qemu_cfg_write_file(t, name, at) ==
    \E r \in {Asking(name, "write", romfile_find(romfiles, name), at)} :
        IF at + 1 > r.f.size \/ ~fwcfg.dma \/ r.f.copy # "qemu" THEN Refused(t, Ends(r, FALSE, <<>>))
        ELSE IF at = 0
        THEN /\ fwcfg' = qemu_cfg_dma_transfer(fwcfg, t, r.f.src.select, "write", 1)
             /\ rd' = [rd EXCEPT ![t] = Awaits(r, "write")]
        ELSE /\ fwcfg' = qemu_cfg_dma_transfer(qemu_cfg_select(fwcfg, r.f.src.select), t, "none", "skip", at)
             /\ rd' = [rd EXCEPT ![t] = Awaits(r, "skip")]

\* The device does the transfers it has accepted, in their order.
FwCfgServe ==
    /\ fwcfg.q # <<>>
    /\ \E a \in {Head(fwcfg.q)} : \E d \in {IF a.key = "none" THEN fwcfg ELSE qemu_cfg_select(fwcfg, a.key)} :
          /\ fwcfg' = [qemu_cfg_skip(d, a.n) EXCEPT !.q = Tail(fwcfg.q),
                        !.items[d.sel] = IF a.op = "write" THEN ReplaceAt(@, d.off + 1, Written) ELSE @]
          /\ rd' = [rd EXCEPT ![a.t].served = TRUE, ![a.t].buf = IF a.op = "read" THEN FwCells(d, a.n) ELSE @]
    /\ UNCHANGED <<fm, fphase, romfiles, wrote, payload>>

\* A thread finds its transfer done, or gets the processor back.
Resume(t) ==
    /\ rd[t].pc \in {"skip", "read", "write", "yield"}
    /\ rd[t].served \/ rd[t].pc = "yield"
    /\ \E r \in {rd[t]} :
          CASE r.pc = "skip" ->
                 /\ fwcfg' = qemu_cfg_dma_transfer(fwcfg, t, "none", IF r.want = "write" THEN "write" ELSE "read",
                                                   IF r.want = "write" THEN 1 ELSE r.f.size)
                 /\ rd' = [rd EXCEPT ![t] = Awaits(r, IF r.want = "write" THEN "write" ELSE "read")]
            [] r.pc = "yield" -> Refused(t, Ends(r, r.ok, r.buf))
            [] OTHER -> Refused(t, Ends(r, TRUE, r.buf))
    /\ wrote' = IF rd[t].pc = "write" THEN <<rd[t].name, rd[t].at>> ELSE wrote
    /\ UNCHANGED <<fm, fphase, romfiles, payload>>

-----------------------------------------------------------------------------
(* POST and the drivers *)

Legacy(f) == f.copy = "qemu" /\ f.src.skip > 0

\* The tables that need a part of an item, or write one, are built before there are drivers;
\* the table loader is told to write files of the directory only.
AskFor(t, name) ==
    /\ rd[t].pc = "idle"
    /\ \/ fphase = "alone" /\ t = "post"
       \/ fphase = "threads" /\ ~Legacy(romfile_find(romfiles, name))
    /\ \/ romfile_loadfile(t, name)
       \/ romfile_loadint(t, name)
       \/ fphase = "alone" /\ wrote = <<>> /\ ~Legacy(romfile_find(romfiles, name)) /\ \E at \in {0, 1} : qemu_cfg_write_file(t, name, at)
    /\ UNCHANGED <<fm, fphase, romfiles, wrote, payload>>

\* interface_init: the list is made.
MakeList ==
    /\ fphase = "off" /\ fphase' = "alone"
    /\ romfiles' = multiboot_init(fm, coreboot_cbfs_init(fm, qemu_cfg_init(fm)))
    /\ UNCHANGED <<fm, fwcfg, rd, wrote, payload>>

\* POST, with nothing to wait for, builds more tables or starts the drivers.
MoveOn ==
    /\ fphase = "alone" /\ rd["post"].pc \in {"idle", "done"}
    /\ fphase' = IF rd["post"].want = "write" THEN "alone" ELSE "threads"
    /\ rd' = [rd EXCEPT !["post"] = NotAsking]
    /\ payload' = [payload EXCEPT !.entries = IF fphase' = "threads" THEN cbfs_payload_setup ELSE @]
    /\ UNCHANGED <<fm, romfiles, fwcfg, wrote>>

\* A payload is chosen in the boot menu once all threads have ended.
RunPayload ==
    /\ fphase = "threads" /\ \A t \in FileThreads : rd[t].pc \in {"idle", "done"}
    /\ \E i \in DOMAIN payload.entries :
          LET c == fm.flash[SelectInSeq(fm.flash, LAMBDA e : e.name = payload.entries[i])]
          IN  payload' = [payload EXCEPT !.ran = c.name, !.memory = cbfs_run_payload(c.body)]
    /\ fphase' = "gone"
    /\ UNCHANGED <<fm, romfiles, fwcfg, rd, wrote>>

FileInit ==
    /\ \E m \in FileMachines, n \in Unlucky \cup {<<>>} :
          /\ fm = m @@ [lost |-> n]
          /\ fwcfg = [items |-> FwItems(m), sel |-> "DIR", off |-> 0, dma |-> m.dma, q |-> <<>>]
    /\ fphase = "off" /\ romfiles = <<>> /\ wrote = <<>>
    /\ rd = [t \in FileThreads |-> NotAsking]
    /\ payload = [entries |-> <<>>, ran |-> <<>>, memory |-> [mem |-> <<>>, at |-> "loading"]]

FileNext ==
    \/ MakeList \/ MoveOn \/ RunPayload \/ FwCfgServe
    \/ \E t \in FileThreads : Resume(t) \/ \E name \in FileNames : AskFor(t, name)

-----------------------------------------------------------------------------
(* What a file is, read off the machine: all that is offered, the oldest first *)

Thing(name, body) == [name |-> name, body |-> body, bad |-> FALSE]
Newest(things, name) ==
    LET of == {i \in DOMAIN things : things[i].name = name}
    IN  IF of = {} THEN Thing(name, <<>>) ELSE things[Max(of)]

LegacyThings(m) ==
    <<Thing(<<"etc", "show-boot-menu">>, <<m.misc>>), Thing(<<"etc", "irq0-override">>, <<m.misc>>),
      Thing(<<"etc", "max-cpus">>, <<Len(m.cpumap)>>), Thing(<<"etc", "numa-cpu-map">>, m.cpumap),
      Thing(<<"etc", "numa-nodes">>, m.nodes)>>
    \o [i \in DOMAIN m.acpi |-> Thing(<<"acpi", i>>, m.acpi[i])]
    \o [i \in DOMAIN m.smbios |-> LET e == m.smbios[i] IN
            Thing(IF e.type = "field" THEN <<"smbios", e.kind, e.at>> ELSE <<"smbios", e.body[1], i>>, e.body)]

Things(m) ==
    LET fw    == IF ~m.sig THEN <<>>
                 ELSE (IF m.build = "qemu" THEN LegacyThings(m) ELSE <<>>) \o [i \in DOMAIN m.dir |-> Thing(m.dir[i].name, m.dir[i].body)]
        port  == IF m.sig /\ m.nogfx /\ \A i \in DOMAIN fw : fw[i].name \notin {<<"etc", "sercon-port">>, <<"vgaroms", "sgabios.bin">>}
                 THEN <<Thing(<<"etc", "sercon-port">>, <<SerialPort>>)>> ELSE <<>>
        flash == [i \in DOMAIN m.flash |-> [Thing(m.flash[i].name, m.flash[i].body) EXCEPT !.bad = m.flash[i].lzma /\ m.flash[i].bad]]
        lines == Newest(flash, <<"links", "">>).body
        links == [i \in DOMAIN lines |-> [Newest(fw \o port \o flash, lines[i].dest) EXCEPT !.name = lines[i].link]]
        mods  == [i \in DOMAIN m.mods |-> Thing(extract_filename(m.mods[i].cmdline), m.mods[i].body)]
    IN  IF m.build = "qemu" THEN fw \o port ELSE fw \o port \o flash \o links \o mods

\* What is in a file now
BodyNow(thing) ==
    IF wrote # <<>> /\ wrote[1] = thing.name THEN ReplaceAt(thing.body, wrote[2] + 1, Written) ELSE thing.body

\* A finished read gives exactly the newest file of its name, unmixed with what other
\* threads read through the same fw_cfg device at the same time and with what POST wrote
\* included; it gives nothing only if there is no such file, it is empty, not a number,
\* damaged or there is no memory. Where the list lacks memory for a name, an older file or
\* none is read (but the counts of NUMA, which need etc/max-cpus).
ReadsOwn ==
    \A t \in FileThreads : rd[t].pc = "done" /\ rd[t].want # "write" =>
        LET things == Things(fm)
            thing  == Newest(things, rd[t].name)
            none   == \/ rd[t].oom \/ thing.bad \/ thing.body = <<>>
                      \/ rd[t].want = "int" /\ Len(thing.body) \notin {1, 2, 4, 8}
        IN  IF fm.lost = <<>> THEN rd[t].ok = ~none /\ (rd[t].ok => rd[t].buf = BodyNow(thing))
            ELSE rd[t].ok /\ fm.lost # <<"etc", "max-cpus">> =>
                    \E i \in DOMAIN things : things[i].name = rd[t].name /\ rd[t].buf = BodyNow(things[i])

\* Every payload of the flash is offered, and one that is entered finds each of its
\* segments where it belongs, with zeros where a segment is longer than its data.
PayloadRight ==
    /\ fphase = "threads" /\ fm.lost = <<>> /\ fm.build # "qemu" =>
          \A i \in DOMAIN fm.flash : fm.flash[i].name[1] = "img" =>
              \E k \in DOMAIN payload.entries : payload.entries[k] = fm.flash[i].name
    /\ payload.memory.at = "entered" =>
          LET segs  == fm.flash[SelectInSeq(fm.flash, LAMBDA e : e.name = payload.ran)].body
              start == SelectInSeq(segs, LAMBDA s : s.type = "entry")
              Covers(i, a) == segs[i].type # "entry" /\ a \in segs[i].addr .. (segs[i].addr + segs[i].size - 1)
          IN  \A a \in DOMAIN payload.memory.mem :
                LET of == {i \in 1..start : Covers(i, a)}
                    s  == segs[Max(of)]
                IN  of # {} /\ payload.memory.mem[a] = IF s.type = "code" /\ a - s.addr < Len(s.body) THEN s.body[a - s.addr + 1] ELSE 0

\* Files are read whole and unmixed, and payloads are put where they belong.
FilesOwn == ReadsOwn /\ PayloadRight
=============================================================================
