------------------------------ MODULE FwTables ------------------------------
(***************************************************************************)
(* biostables.c, acpi.c, smbios.c, mptable.c, pirtable.c and               *)
(* romfile_loader.c: the tables the operating system will look for, built  *)
(* by the BIOS, handed over by the platform, or loaded from QEMU with a    *)
(* script of allocations and pointers. Of a table the model knows where it *)
(* is and which tables it points to. What a table says is a function of    *)
(* the machine: the structures of smbios.c, the interrupts and processors  *)
(* of mptable.c and of the MADT, the ranges of the SRAT and the lengths of *)
(* the SSDT; their sizes of memory are in units that stand for megabytes.  *)
(***************************************************************************)
EXTENDS FwMemory

CONSTANTS
    Kinds,      \* platforms: which tables there are, and who makes them
    TempSize,   \* size of the area that a table is put together in
    MaxAcpi     \* MAX_ACPI_TABLES

VARIABLES
    kind,       \* the platform, one of Kinds
    done,       \* what has been set up, in order
    tab,        \* the tables: where, and where they point to
    root,       \* PirAddr, RsdpAddr, SMBiosAddr and the last mptable; 0 for none
    files,      \* what the script of QEMU has loaded, and where
    told,       \* the addresses that were written back to QEMU
    replay,     \* romfile_pointer_list
    line,       \* commands of the script that have run
    short       \* whether memory ran short for the loader, which goes on regardless

tabVars == <<kind, done, tab, root, files, told, replay, line, short>>

NoFiles == [f \in {} |-> 0]
TabInit ==
    /\ kind \in Kinds
    /\ done = {} /\ tab = {} /\ files = NoFiles /\ told = NoFiles /\ replay = <<>>
    /\ root = [pir |-> 0, rsdp |-> 0, smbios |-> 0, mp |-> 0]
    /\ line = 0 /\ short = FALSE

Table(at, refs) == [at |-> at, refs |-> refs]

\* A setup that runs once, after the ones before it.
Turn(name, after) ==
    /\ phase = "post" /\ ops = MaxOps
    /\ name \notin done /\ after \subseteq done /\ done' = done \union ({name} \ {""})
    /\ SameMap /\ UNCHANGED <<romEnd, rom, kept, phase, platform, feed, ram, ops, kind>>

\* A table of the f-segment, with what it points to; there is one of a kind, and
\* none when there is no room.
Rooted(st, name, a, refs) ==
    IF a.at = 0 THEN st
    ELSE [st EXCEPT !.zs = a.zs, !.tab = @ \union {Table(a.at, refs)}, !.root[name] = a.at]
Copied(st, name, size, refs) ==
    IF st.root[name] # 0 THEN st ELSE Rooted(st, name, malloc_palloc(st.zs, "FSeg", size, 1), refs)
copy_pir(st) == Copied(st, "pir", 1, {})
copy_smbios(st, tables) == Copied(st, "smbios", 1, {tables})
copy_acpi_rsdp(st, rsdt) == Copied(st, "rsdp", 1, {rsdt})
\* The mptable is copied whenever it is met, with its configuration behind it,
\* unless it is too large for the f-segment.
copy_mptable(st, large) ==
    IF large THEN st ELSE Rooted(st, "mp", malloc_palloc(st.zs, "FSeg", 2, 1), {})
Now == [zs |-> zones, tab |-> tab, root |-> root]
Become(st) == zones' = st.zs /\ tab' = st.tab /\ root' = st.root

pirtable_setup ==
    /\ Turn("pir", {})
    /\ Become(copy_pir(Now))
    /\ UNCHANGED <<files, told, replay, line, short>>

\* The configuration is put together in temporary memory and freed after the copy.
mptable_setup ==
    /\ Turn("mp", {"pir"})
    /\ \E t \in {malloc_tmp(zones, TempSize, 1)} :
       \E st \in {copy_mptable([Now EXCEPT !.zs = t.zs], kind.cpus > 1)} :
          Become(IF t.at = 0 THEN Now ELSE [st EXCEPT !.zs = malloc_pfree(st.zs, t.at)])
    /\ UNCHANGED <<files, told, replay, line, short>>

\* The structures move to the f-segment, or above when they are many; then the
\* entry point is copied, and the temporary memory freed.
SmbiosMoved(st, a) ==
    IF a.at = 0 THEN st ELSE copy_smbios([st EXCEPT !.zs = a.zs, !.tab = @ \union {Table(a.at, {})}], a.at)
SmbiosPlaced(st, t) ==
    IF t.at = 0 THEN st
    ELSE LET room == malloc_palloc(t.zs, IF kind.cpus > 1 THEN "High" ELSE "FSeg", 1, 1)
         IN [SmbiosMoved([st EXCEPT !.zs = t.zs], room) EXCEPT !.zs = malloc_pfree(@, t.at)]
\* The structures of QEMU, with a type 0 in front when there is none.
smbios_romfile_setup(st) ==
    SmbiosPlaced(st, malloc_palloc(st.zs, "TmpHigh", 1, 1))
\* The structures that the BIOS makes itself, each unless a file replaces it.
smbios_legacy_setup(st) ==
    SmbiosPlaced(st, malloc_palloc(st.zs, "TmpHigh", TempSize, 1))
smbios_setup ==
    /\ Turn("smbios", {"mp"})
    /\ \E q \in {IF kind.anchor THEN smbios_romfile_setup(Now) ELSE Now} :
       \E st \in {IF q.tab # tab THEN q ELSE smbios_legacy_setup(q)} : Become(st)
    /\ UNCHANGED <<files, told, replay, line, short>>

-----------------------------------------------------------------------------
\* acpi_setup: each builder adds its table to the list that the RSDT will name;
\* one that has no memory leaves its table out.

HighAt(st, align) == malloc_palloc(st.zs, "High", 1, align)
Listed(st, a) == IF a.at = 0 THEN [st EXCEPT !.zs = a.zs]
                 ELSE [st EXCEPT !.zs = a.zs, !.list = Append(@, a.at)]
\* The FADT needs a FACS beside it; with only one of the two there is none, and
\* the memory of the other stays taken.
build_fadt(st) ==
    LET a == HighAt(st, 1)
        b == HighAt([st EXCEPT !.zs = a.zs], 4)
    IN IF a.at = 0 \/ b.at = 0 THEN [st EXCEPT !.zs = b.zs]
       ELSE [st EXCEPT !.zs = b.zs, !.list = Append(@, a.at), !.fadt = a.at, !.facs = b.at]
build_ssdt(st) == Listed(st, HighAt(st, 1))
build_madt(st) == Listed(st, HighAt(st, 1))
build_hpet(st) == IF "hpet" \in kind.acpi THEN Listed(st, HighAt(st, 1)) ELSE st
\* The two files about the nodes are loaded. They are freed when something is
\* missing; after the table is made the pointers have moved, and free finds nothing.
build_srat(st) ==
    LET nodes == malloc_palloc(st.zs, "TmpHigh", 1, 1)
        cpus == malloc_palloc(nodes.zs, "TmpHigh", 1, 1)
        freed == malloc_pfree(malloc_pfree(cpus.zs, nodes.at), cpus.at)
        table == HighAt([st EXCEPT !.zs = cpus.zs], 1)
    IN IF "numa" \notin kind.acpi THEN st
       ELSE IF nodes.at = 0 \/ cpus.at = 0 \/ table.at = 0 THEN [st EXCEPT !.zs = freed]
       ELSE Listed(st, table)
build_mcfg_q35(st) == IF "q35" \in kind.acpi THEN Listed(st, HighAt(st, 1)) ELSE st
\* Broken variant: the DSDT that is replaced stays where it points.
fill_dsdtFirst(st, at) == [st EXCEPT !.zs = malloc_pfree(@, at), !.dsdt = IF @ = 0 THEN at ELSE @]
\* The DSDT that was there is freed.
fill_dsdt(st, at) == [st EXCEPT !.zs = IF st.dsdt = 0 THEN @ ELSE malloc_pfree(@, st.dsdt), !.dsdt = at]
\* A table of QEMU: a DSDT goes to the FADT, anything else to the list, until the
\* list is full.
AcpiFile(st, f) ==
    LET a == HighAt(st, 1)
    IN IF Len(st.list) >= MaxAcpi THEN st
       ELSE IF a.at = 0 THEN [st EXCEPT !.zs = a.zs]
       ELSE IF f # "dsdt" THEN Listed(st, a)
       ELSE IF st.fadt = 0 THEN [st EXCEPT !.zs = a.zs]
       ELSE fill_dsdt([st EXCEPT !.zs = a.zs], a.at)
\* The DSDT of the BIOS where no other came.
OwnDsdt(st) ==
    LET a == HighAt(st, 1)
    IN IF st.fadt = 0 \/ st.dsdt # 0 THEN st ELSE [st EXCEPT !.zs = a.zs, !.dsdt = a.at]
\* The builders in their order, then the files of QEMU.
Built ==
    LET step(k, st) ==
          CASE k = 1 -> build_fadt(st) [] k = 2 -> build_ssdt(st) [] k = 3 -> build_madt(st)
            [] k = 4 -> build_hpet(st) [] k = 5 -> build_srat(st) [] k = 6 -> build_mcfg_q35(st)
            [] OTHER -> AcpiFile(st, kind.files[k - 6])
        f[k \in 0..(6 + Len(kind.files))] ==
          IF k = 0 THEN [zs |-> zones, list |-> <<>>, fadt |-> 0, facs |-> 0, dsdt |-> 0]
          ELSE step(k, f[k - 1])
    IN OwnDsdt(f[6 + Len(kind.files)])
\* The RSDT and the tables it leads to.
AcpiTables(st, rsdt) ==
    {Table(at, IF at = st.fadt THEN {st.facs, st.dsdt} ELSE {}) : at \in Range(st.list)}
    \union {Table(rsdt, Range(st.list))} \union {Table(at, {}) : at \in {st.facs, st.dsdt} \ {0}}
\* Without memory for the DSDT or the RSDT there is no RSDP.
acpi_setup ==
    /\ Turn("acpi", {"smbios"})
    /\ "script" \notin kind.acpi \/ root.rsdp = 0
    /\ "script" \in kind.acpi => "loader" \in done
    /\ \E st \in {Built} : \E r \in {HighAt(st, 1)} :
          Become(IF (st.fadt # 0 /\ st.dsdt = 0) \/ r.at = 0 THEN [Now EXCEPT !.zs = r.zs]
                 ELSE copy_acpi_rsdp([zs |-> r.zs, tab |-> tab \union AcpiTables(st, r.at), root |-> root], r.at))
    /\ UNCHANGED <<files, told, replay, line, short>>

\* copy_table: what Xen, coreboot or a UEFI hand over is copied to the f-segment
\* as it is met; what it points to stays where it was, in reserved memory.
copy_table ==
    /\ Turn("copied", {}) /\ kind.from = "tables"
    /\ \E copies \in {copy_smbios(copy_acpi_rsdp(copy_mptable(copy_pir(Now), FALSE), 0), 0)} : Become(copies)
    /\ UNCHANGED <<files, told, replay, line, short>>

-----------------------------------------------------------------------------
\* The script of QEMU.

Find(f) == IF f \in DOMAIN files THEN files[f] ELSE 0
\* romfile_loader_allocate
LoaderAllocate(c) ==
    \E a \in {malloc_palloc(zones, c.zone, c.size, c.align)} :
       /\ zones' = a.zs
       /\ files' = IF a.at = 0 THEN files ELSE [f \in DOMAIN files \union {c.file} |->
                                                  IF f = c.file THEN a.at ELSE files[f]]
       /\ tab' = IF a.at = 0 THEN tab ELSE tab \union {Table(a.at, {})}
       /\ short' = (short \/ a.at = 0)
       /\ root' = IF c.file = "rsdp" /\ a.at # 0 THEN [root EXCEPT !.rsdp = a.at] ELSE root
       /\ UNCHANGED <<told, replay>>
\* romfile_loader_add_pointer: the pointer grows by the address of what it names;
\* unless both are loaded it stays as it was in the file.
LoaderPointer(c) ==
    /\ tab' = IF Find(c.dest) = 0 \/ Find(c.src) = 0 THEN tab
              ELSE {IF t.at = Find(c.dest) THEN Table(t.at, t.refs \union {Find(c.src)}) ELSE t : t \in tab}
    /\ UNCHANGED <<zones, root, files, told, replay, short>>
Stored(at, c) == <<[dest |-> c.dest, at |-> at]>>
\* romfile_loader_write_pointer: QEMU learns an address, and the BIOS remembers
\* what it wrote for the time after a suspension, if it has the memory.
LoaderWrite(c) ==
    LET s == malloc_palloc(zones, "High", 1, 1)
        ok == Find(c.src) # 0
    IN /\ told' = IF ok THEN [d \in DOMAIN told \union {c.dest} |->
                                IF d = c.dest THEN Find(c.src) ELSE told[d]] ELSE told
       /\ zones' = IF ok THEN s.zs ELSE zones
       /\ replay' = IF ok /\ s.at # 0 THEN Stored(Find(c.src), c) \o replay ELSE replay
       /\ short' = (short \/ (ok /\ s.at = 0))
       /\ UNCHANGED <<tab, root, files>>
\* romfile_loader_execute: one command after the other, the failed ones skipped.
Loader ==
    LET c == kind.script[line + 1] IN
    /\ "script" \in kind.acpi /\ line < Len(kind.script) /\ line' = line + 1
    /\ Turn(IF line' = Len(kind.script) THEN "loader" ELSE "", {"smbios"})
    /\ CASE c.cmd = "allocate" -> LoaderAllocate(c)
         [] c.cmd = "pointer" -> LoaderPointer(c)
         [] c.cmd = "write" -> LoaderWrite(c)

\* romfile_fw_cfg_resume: QEMU forgets the addresses in a reset, and gets them
\* again in the order of the list.
After(list) ==
    [d \in {list[k].dest : k \in DOMAIN list} |->
        list[Max({k \in DOMAIN list : list[k].dest = d})].at]

TabNext ==
    \/ (BootSteps \/ OwnCalls) /\ UNCHANGED tabVars
    \/ pirtable_setup \/ mptable_setup \/ smbios_setup \/ acpi_setup \/ copy_table
    \/ Loader

\* Every table that can be found leads to tables that are there for ever: a
\* pointer of a table, and the address of a root, is that of a block of permanent
\* memory that was never freed, and no two lie at the same place; with a loader
\* that found memory for all of it, what is loaded is linked, and QEMU gets back
\* after a suspension what it was told.
TablesLinked ==
    /\ \A n \in DOMAIN root : root[n] # 0 =>
          /\ \E t \in tab : t.at = root[n]
          /\ Taken(zones, root[n])
    /\ \A t, u \in tab : t.at = u.at => t = u
    /\ \A t \in tab : \A r \in t.refs \ {0} :
          /\ Taken(zones, r)
          /\ LET f == alloc_find(zones, r) IN f[1] \in {"High", "FSeg"}
          /\ \E u \in tab : u.at = r
    /\ ~short => After(replay) = told
    /\ "loader" \in done /\ ~short =>
          \A k \in DOMAIN kind.script : kind.script[k].cmd = "pointer" =>
             \E t \in tab : t.at = Find(kind.script[k].dest) /\ Find(kind.script[k].src) \in t.refs

-----------------------------------------------------------------------------
(* What the tables say. *)

CONSTANTS
    Machines,       \* low and over: RAM below and above 4 GB; cpus: MaxCountCPUs; present:
                    \* the APIC ids found; pkg: CPUs of a package; nodes: sizes of the NUMA
                    \* nodes; irq0: etc/irq0-override; pci: functions of bus 0; ext: the types
                    \* of structures that are given; own0: whether QEMU's tables have a type 0
    Dimm,           \* memory of a device at most, 16384 MB
    Gig4, Meg1, Low640,     \* 4 GB, 1 MB and 640 KB
    PciIrqs,        \* BUILD_PCI_IRQS
    ProcSize, SlotSize      \* PROC_SIZEOF and PCIHP_SIZEOF

VARIABLE machine

ConInit == machine \in Machines

Sum(q) == FoldLeft(LAMBDA x, y : x + y, 0, q)
Span(s, n) == s..(s + n - 1)
Ram(m) == m.low + m.over

-----------------------------------------------------------------------------
\* SMBIOS. A structure has a type, a handle, and what else the others rely on.

Struct(t, h) == [type |-> t, handle |-> h, base |-> 0, size |-> 0, of |-> 0, in |-> 0]
smbios_init_type_0 == Struct(0, 0)
smbios_init_type_1 == Struct(1, 256)
smbios_init_type_3 == Struct(3, 768)
smbios_init_type_4(cpu) == Struct(4, 1024 + cpu)
smbios_init_type_16(devs) == [Struct(16, 4096) EXCEPT !.size = devs]
smbios_init_type_17(mb, i) == [Struct(17, 4352 + i) EXCEPT !.size = mb, !.in = 4096]
smbios_init_type_19(start, mb, i) == [Struct(19, 4864 + i) EXCEPT !.base = start, !.size = mb, !.in = 4096]
smbios_init_type_20(start, mb, i, dev, arr) ==
    [Struct(20, 5120 + i) EXCEPT !.base = start, !.size = mb, !.of = 4352 + dev, !.in = 4864 + arr]
smbios_init_type_32 == Struct(32, 8192)
smbios_init_type_127 == Struct(127, 32512)

NrMemDevs(m) == (Ram(m) + Dimm - 1) \div Dimm
DevMb(m, i) == IF i = NrMemDevs(m) - 1 THEN ((Ram(m) - 1) % Dimm) + 1 ELSE Dimm
\* What of a device is mapped above 4 GB: the first has the memory below as well.
Mapped(m, i) == IF i = 0 THEN DevMb(m, 0) - m.low ELSE DevMb(m, i)
MemoryStructs(m) ==
    LET n == NrMemDevs(m)
        before(i) == Sum([k \in 1..i |-> Mapped(m, k - 1)])
    IN <<smbios_init_type_16(n)>>
       \o [k \in 1..n |-> smbios_init_type_17(DevMb(m, k - 1), k - 1)]
       \o <<smbios_init_type_19(0, m.low, 0)>>
       \o (IF m.over = 0 THEN <<>> ELSE <<smbios_init_type_19(Gig4, m.over, 1)>>)
       \o <<smbios_init_type_20(0, m.low, 0, 0, 0)>>
       \o (IF m.over = 0 THEN <<>>
           ELSE [k \in 1..n |-> smbios_init_type_20(Gig4 + before(k - 1), Mapped(m, k - 1), k, k - 1, 1)])
\* get_external: the given structures of a type take the place of the first own
\* one, and the other own ones are left out; what is left of them comes at the end.
Given(t) == [Struct(t, 60000 + t) EXCEPT !.of = 1]
get_external(m, own) ==
    LET first(k) == \A j \in 1..(k - 1) : own[j].type # own[k].type
        at(k) == IF own[k].type \notin m.ext THEN <<own[k]>>
                 ELSE IF first(k) THEN <<Given(own[k].type)>> ELSE <<>>
        left == m.ext \ {own[k].type : k \in DOMAIN own}
    IN FlattenSeq([k \in DOMAIN own |-> at(k)]) \o SetToSeq({Given(t) : t \in left})
\* smbios_legacy_setup; the end marker cannot be given.
Structs(m) ==
    get_external(m, <<smbios_init_type_0, smbios_init_type_1, smbios_init_type_3>>
                    \o [k \in 1..m.cpus |-> smbios_init_type_4(k)]
                    \o MemoryStructs(m) \o <<smbios_init_type_32>>)
    \o <<smbios_init_type_127>>
\* smbios_romfile_setup: QEMU's structures, with a type 0 in front if none has it,
\* and how many the entry point says there are.
RomfileStructs(m) ==
    LET given == [k \in 1..3 |-> Struct(IF m.own0 /\ k = 2 THEN 0 ELSE k, k)]
        need == \A k \in 1..3 : given[k].type # 0
    IN [structs |-> (IF need THEN <<smbios_init_type_0>> ELSE <<>>) \o given,
        count |-> IF need THEN 4 ELSE 3]

-----------------------------------------------------------------------------
\* Processors and interrupts.

CpuFlag(m, i) == i \in m.present
MadtCpus(m) == [k \in 1..m.cpus |-> [id |-> k - 1, on |-> CpuFlag(m, k - 1)]]
Override(i, g, level) == [src |-> i, gsi |-> g, level |-> level]
MadtOverrides(m) ==
    (IF m.irq0 THEN {Override(0, 2, FALSE)} ELSE {}) \union {Override(i, i, TRUE) : i \in PciIrqs}

\* The first CPU of each package; the first of all is the one that boots.
MptCpus(m) ==
    [k \in 1..((m.cpus + m.pkg - 1) \div m.pkg) |->
        [id |-> (k - 1) * m.pkg, on |-> CpuFlag(m, (k - 1) * m.pkg), boot |-> k = 1]]
\* Functions with a pin, each pin of a device once.
PciSources(m) ==
    LET seen(k) == \E j \in 1..(k - 1) : m.pci[j].dev = m.pci[k].dev /\ m.pci[j].pin = m.pci[k].pin
        take == {k \in DOMAIN m.pci : m.pci[k].pin # 0 /\ ~seen(k)}
    IN {[bus |-> "PCI", src |-> <<m.pci[k].dev, m.pci[k].pin - 1>>, dst |-> m.pci[k].irq] : k \in take}
\* The others of the sixteen; where irq 0 arrives at 2, irq 2 has no entry.
IsaSources(m) ==
    {[bus |-> "ISA", src |-> <<0, i>>, dst |-> IF m.irq0 /\ i = 0 THEN 2 ELSE i] :
        i \in ((0..15) \ PciIrqs) \ (IF m.irq0 THEN {2} ELSE {})}
\* encodeLen: the first byte holds how many follow and the low bits.
encodeLen(n, bytes) ==
    IF bytes = 1 THEN <<n % 64>>
    ELSE [k \in 1..bytes |->
            IF k = 1 THEN (bytes - 1) * 64 + (n % 16) ELSE (n \div (16 * (256 ^ (k - 2)))) % 256]
Decoded(b) ==
    IF Len(b) = 1 THEN b[1]
    ELSE (b[1] % 16) + Sum([k \in 1..(Len(b) - 1) |-> b[k + 1] * 16 * (256 ^ (k - 1))])
\* build_notify and build_ssdt: the processors that have an object, and the
\* lengths that are encoded, with the bytes they have.
AcpiCpus(m) == IF m.cpus > 255 THEN 255 ELSE m.cpus
build_notify(count) == <<7 + 12 * count, 2>>
SsdtLengths(m) ==
    LET slots == 31
        pci0 == 7 + slots * SlotSize + 8 + 12 * slots
        cpus == AcpiCpus(m) * (ProcSize + 12 + 1) + 17
    IN {build_notify(AcpiCpus(m)), build_notify(slots), <<3 + AcpiCpus(m), 2>>,
        <<pci0, 3>>, <<7 + cpus + 1 + pci0, 3>>}
Cpon(m) == [k \in 1..AcpiCpus(m) |-> CpuFlag(m, k - 1)]

-----------------------------------------------------------------------------
\* The SRAT: node by node from 1 MB on, cut where the RAM below 4 GB ends.

Affinity(base, n, node) == [base |-> base, size |-> n, node |-> node]
Splits(m, base, next) == base <= m.low /\ next > m.low
acpi_build_srat_memory(m, acc, k) ==
    LET len == IF k = 1 THEN m.nodes[1] - Meg1 ELSE m.nodes[k]
        next == acc.next + len
        lower == m.low - acc.next
    IN IF ~Splits(m, acc.next, next)
       THEN [list |-> Append(acc.list, Affinity(acc.next, len, k)), next |-> next]
       ELSE [list |-> acc.list \o (IF lower > 0 THEN <<Affinity(acc.next, lower, k)>> ELSE <<>>)
                      \o <<Affinity(Gig4, next - m.low, k)>>,
             next |-> next + Gig4 - m.low]
build_srat_list(m) ==
    LET f[k \in 0..Len(m.nodes)] ==
          IF k = 0 THEN [list |-> <<Affinity(0, Low640, 1)>>, next |-> Meg1]
          ELSE acpi_build_srat_memory(m, f[k - 1], k)
    IN f[Len(m.nodes)].list

-----------------------------------------------------------------------------
\* Whether the SMBIOS structures that the BIOS makes add up to the memory there is.
SmbiosAddsUp(m) ==
    LET s == Structs(m)
        all(t) == {k \in DOMAIN s : s[k].type = t}
        cells(k) == Span(s[k].base, s[k].size)
        plain == m.ext \intersect {16, 17, 19, 20} = {}
        total(K) == MapThenSumSet(LAMBDA k : s[k].size, K)
        r == RomfileStructs(m)
    IN /\ \A j, k \in DOMAIN s : s[j].handle = s[k].handle => j = k
       /\ all(127) = {Len(s)}
       /\ \A t \in m.ext : Cardinality(all(t)) = 1
       /\ plain =>
            /\ total(all(17)) = Ram(m) /\ \A a \in all(16) : s[a].size = Cardinality(all(17))
            /\ UNION {cells(k) : k \in all(20)} = Span(0, m.low) \union Span(Gig4, m.over)
            /\ total(all(20)) = Ram(m)
            /\ \A k \in all(20) :
                  /\ \E a \in all(19) : s[a].handle = s[k].in /\ cells(k) \subseteq cells(a)
                  /\ \E d \in all(17) : s[d].handle = s[k].of
            /\ \A d \in all(17) : total({k \in all(20) : s[k].of = s[d].handle}) = s[d].size
       /\ r.count = Len(r.structs) /\ \E k \in DOMAIN r.structs : r.structs[k].type = 0

\* Whether the MP table and the MADT tell the same of processors and interrupts.
InterruptsAgree(m) ==
    LET mp == MptCpus(m)
        md == MadtCpus(m)
        isa == IsaSources(m)
        gsi(i) == {o.gsi : o \in {o \in MadtOverrides(m) : o.src = i}}
    IN /\ m.cpus <= 255 => \A k \in DOMAIN mp : \E j \in DOMAIN md : md[j].id = mp[k].id /\ md[j].on = mp[k].on
       /\ Cardinality({k \in DOMAIN mp : mp[k].boot}) = 1
       /\ \A s \in isa : (IF gsi(s.src[2]) = {} THEN {s.src[2]} ELSE gsi(s.src[2])) = {s.dst}
       /\ \A s, t \in isa : s.dst = t.dst => s = t
       /\ \A i \in 0..15 : i \in PciIrqs => ~\E s \in isa : s.src[2] = i
       /\ \A k \in DOMAIN m.pci : m.pci[k].pin # 0 =>
             \E s \in PciSources(m) : s.src = <<m.pci[k].dev, m.pci[k].pin - 1>>
       /\ \A i \in DOMAIN Cpon(m) : Cpon(m)[i] = md[i].on
       /\ \A l \in SsdtLengths(m) : Decoded(encodeLen(l[1], l[2])) = l[1]

\* Whether the nodes of the SRAT are the RAM outside of the holes, once each.
NodesCover(m) ==
    LET l == build_srat_list(m) IN
    m.nodes # <<>> =>
        /\ UNION {Span(l[k].base, l[k].size) : k \in DOMAIN l}
             = Span(0, Low640) \union Span(Meg1, m.low - Meg1) \union Span(Gig4, m.over)
        /\ \A j, k \in DOMAIN l : j # k =>
             Span(l[j].base, l[j].size) \intersect Span(l[k].base, l[k].size) = {}
        /\ \A k \in DOMAIN l : l[k].size > 0
        /\ Len(l) <= Len(m.nodes) + 2

\* The tables of one machine tell one story: SMBIOS memory devices, arrays and
\* mapped ranges add up to the RAM, the MP table, the MADT and the SSDT agree on
\* processors and interrupts, and the SRAT has every part of the RAM once.
TablesAgree == SmbiosAddsUp(machine) /\ InterruptsAgree(machine) /\ NodesCover(machine)
=============================================================================
