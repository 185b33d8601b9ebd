------------------------------ MODULE FwMemory ------------------------------
(***************************************************************************)
(* malloc.c, e820map.c, pmm.c and the loading of option roms: the zones    *)
(* that memory is taken from while the machine starts, the memory map the  *)
(* operating system will be told, and the area below the BIOS that roms    *)
(* and low memory share. An address is a number of units of               *)
(* MALLOC_MIN_ALIGN bytes. Built with CONFIG_MALLOC_UPPERMEMORY, as by     *)
(* default.                                                                *)
(***************************************************************************)
EXTENDS Integers, Sequences, SequencesExt, FiniteSets, FiniteSetsExt

CONSTANTS
    StackAddr, EbdaMinimum, EbdaStart, LowRamEnd, RomStart, ZoneLowBase, BiosAddr,
    FSegStart, FSegEnd, OneMeg, Flash, FourGig, TopEnd,    \* addresses, in this order
    DummyRam,       \* what there is without a table of coreboot
    InitSize,       \* size of the code that moves before the start goes on
    HighTable,      \* BUILD_MAX_HIGHTABLE
    MaxE820,        \* BUILD_MAX_E820
    DetailSize, HeaderReserve, RomAlign, PageSize,
    Platforms,      \* who tells of the memory, and what
    Sizes,          \* the sizes that are asked for
    Handles,        \* the handles of PMM calls
    MaxOps          \* bound of the model on the calls between the start and the boot

VARIABLES
    zones,          \* the list of struct allocinfo_s of each zone, highest first
    e820,           \* e820_list: start, end and type of each entry
    want,           \* what the last e820_add said of each address
    full,           \* whether insert_e820 has met a full list
    romEnd,         \* RomEnd
    rom,            \* size of the option rom that runs, 0 for none
    kept,           \* blocks of ZoneTmpHigh that PMM gave out as permanent
    phase,          \* "feed", "preinit", "reloc", "init", "config", "bda", "post", "boot", "panic"
    platform,       \* one of Platforms
    feed,           \* what the platform has not yet said
    ram,            \* RamSize and RamSizeOver4G
    ops

memVars == <<zones, e820, want, full, romEnd, rom, kept, phase, platform, feed, ram, ops>>

Default == "default"
ZoneNames == <<"TmpLow", "Low", "FSeg", "TmpHigh", "High">>
AlignDown(a, n) == a - (a % n)
AlignUp(a, n) == AlignDown(a + n - 1, n)
At(zs, z, i) == zs[z][i]
Spots(zs) == {<<z, i>> \in UNION {{z} \X DOMAIN zs[z] : z \in DOMAIN zs} : TRUE}

\* struct allocinfo_s: a range, how much of its start is taken, and the
\* allocdetail_s (named by its address) it belongs to; top is where the range
\* ended when it was made.
Info(s, e, n, kind) ==
    [s |-> s, e |-> e, n |-> n, kind |-> kind, d |-> IF kind = "detail" THEN s ELSE 0, h |-> Default, top |-> e]

-----------------------------------------------------------------------------
\* Memory reservations. Each result is the zones and the address, 0 for none.

\* The first range with room at its end.
Fits(r, size, align) == AlignDown(r.e - size, align) >= r.s + r.n
alloc_new(zs, z, size, align, kind) ==
    LET rooms == {i \in DOMAIN zs[z] : Fits(zs[z][i], size, align)} IN
    IF rooms = {} THEN [zs |-> zs, at |-> 0]
    ELSE LET i == Min(rooms)
             r == zs[z][i]
             at == AlignDown(r.e - size, align)
         IN [zs |-> [zs EXCEPT ![z] = SubSeq(@, 1, i - 1)
                                      \o <<Info(at, r.e, size, kind), [r EXCEPT !.e = at]>>
                                      \o SubSeq(@, i + 1, Len(@))],
             at |-> at]

\* Broken variant: the lower neighbour does not get the space back.
alloc_freeLost(zs, z, i) == [zs EXCEPT ![z] = RemoveAt(@, i)]
\* The space goes to the next range, which is the one below.
alloc_free(zs, z, i) ==
    LET l == zs[z]
        joins == i < Len(l) /\ l[i + 1].e = l[i].s
    IN [zs EXCEPT ![z] = RemoveAt(IF joins THEN [l EXCEPT ![i + 1].e = l[i].e] ELSE l, i)]

OrElse(got, other) == IF got.at # 0 THEN got ELSE other
\* The block at an address has the detail that was got.
Attached(got, zs, z, at, kind) ==
    LET i == CHOOSE j \in DOMAIN got.zs[z] : got.zs[z][j].s = at /\ got.zs[z][j].kind = kind
    IN IF got.at = 0 THEN [zs |-> zs, at |-> 0] ELSE [zs |-> [got.zs EXCEPT ![z][i].d = got.at], at |-> got.at]
\* The detail of a block comes from ZoneTmpHigh, or else ZoneTmpLow.
alloc_new_detail(zs, z, at, kind) ==
    Attached(OrElse(alloc_new(zs, "TmpHigh", DetailSize, 1, "detail"),
                    alloc_new(zs, "TmpLow", DetailSize, 1, "detail")), zs, z, at, kind)

\* New memory enters before the first range that starts below it, and leaves
\* again when its detail finds no room.
alloc_add(zs, z, s, e) ==
    LET below == {i \in DOMAIN zs[z] : zs[z][i].s < s}
        i == IF below = {} THEN Len(zs[z]) + 1 ELSE Min(below)
        with == [zs EXCEPT ![z] = InsertAt(@, i, Info(s, e, 0, "base"))]
    IN OrElse(alloc_new_detail(with, z, s, "base"), [zs |-> zs, at |-> 0]).zs

\* The block that starts at an address, searched zone by zone.
alloc_find(zs, at) ==
    LET hits(z) == {i \in DOMAIN zs[z] : zs[z][i].s = at}
        with == {k \in 1..5 : hits(ZoneNames[k]) # {}}
    IN IF with = {} THEN <<>> ELSE LET z == ZoneNames[Min(with)] IN <<z, Min(hits(z))>>
alloc_find_lowest(zs, z) == zs[z][Len(zs[z])]

\* malloc_palloc: the block, then its detail; without a detail there is no block.
Detailed(got, z, det) ==
    LET i == CHOOSE j \in DOMAIN got.zs[z] : got.zs[z][j].s = got.at /\ got.zs[z][j].kind = "data"
    IN IF det.at # 0 THEN [zs |-> det.zs, at |-> got.at] ELSE [zs |-> alloc_free(got.zs, z, i), at |-> 0]
WithDetail(got, z) ==
    IF got.at = 0 THEN got ELSE Detailed(got, z, alloc_new_detail(got.zs, z, got.at, "data"))
malloc_palloc(zs, z, size, align) ==
    IF size = 0 THEN [zs |-> zs, at |-> 0] ELSE WithDetail(alloc_new(zs, z, size, align, "data"), z)

\* malloc_tmp and memalign_tmp
malloc_tmp(zs, size, align) ==
    OrElse(malloc_palloc(zs, "TmpHigh", size, align), malloc_palloc(zs, "TmpLow", size, align))

\* Only a block that a call has taken can be freed, sought or given a handle.
Taken(zs, at) ==
    LET f == alloc_find(zs, at) IN f # <<>> /\ At(zs, f[1], f[2]).kind = "data"
malloc_pfree(zs, at) ==
    LET f == alloc_find(zs, at)
        gone == alloc_free(zs, f[1], f[2])
        d == alloc_find(gone, At(zs, f[1], f[2]).d)
    IN IF ~Taken(zs, at) THEN zs ELSE alloc_free(gone, d[1], d[2])
malloc_sethandle(zs, at, h) ==
    LET f == alloc_find(zs, at)
        d == alloc_find(zs, At(zs, f[1], f[2]).d)
    IN IF h = Default \/ ~Taken(zs, at) THEN zs ELSE [zs EXCEPT ![d[1]][d[2]].h = h]
malloc_findhandle(zs, h) ==
    LET hits(z) == {i \in DOMAIN zs[z] : zs[z][i].kind = "detail" /\ zs[z][i].h = h}
        with == {k \in 1..5 : hits(ZoneNames[k]) # {}}
        z == ZoneNames[Min(with)]
        d == zs[z][Min(hits(z))].d
        x == CHOOSE p \in Spots(zs) : At(zs, p[1], p[2]).d = d /\ At(zs, p[1], p[2]).kind # "detail"
    IN IF h = Default \/ with = {} THEN 0 ELSE At(zs, x[1], x[2]).s
\* malloc_getspace: the largest hole, less what a detail takes from the same zone.
malloc_getspace(zs, z) ==
    LET m == Max({0} \union {zs[z][i].e - zs[z][i].s - zs[z][i].n : i \in DOMAIN zs[z]})
    IN IF z \in {"TmpHigh", "TmpLow"} THEN Max({0, m - DetailSize}) ELSE m

-----------------------------------------------------------------------------
\* The memory map.

Range3(s, e, t) == [s |-> s, e |-> e, t |-> t]
insert_e820(l, i, x) == IF Len(l) >= MaxE820 THEN l ELSE InsertAt(l, i, x)

\* An entry of another type that starts below the new one is cut, and goes on
\* behind it where it reaches further.
Split(l, i, s, e) ==
    LET cut == [l EXCEPT ![i].e = s]
    IN IF l[i].e > e THEN insert_e820(cut, i + 1, [s |-> e, e |-> l[i].e, t |-> l[i].t]) ELSE cut

\* The entries from a place on that end within the new one go.
Swallow(l, i, e) ==
    LET beyond == {j \in i..Len(l) : l[j].e > e}
    IN SubSeq(l, 1, i - 1) \o (IF beyond = {} THEN <<>> ELSE SubSeq(l, Min(beyond), Len(l)))
\* The next entry is joined or cut, and the new one enters unless it is a hole.
Enter(l, i, s, e, t) ==
    LET touches == i <= Len(l) /\ l[i].s <= e
        joins == touches /\ l[i].t = t
        rest == IF joins THEN RemoveAt(l, i) ELSE IF touches THEN [l EXCEPT ![i].s = e] ELSE l
    IN IF t = "hole" THEN rest ELSE insert_e820(rest, i, Range3(s, IF joins THEN l[i].e ELSE e, t))

\* e820_add keeps the list sorted and free of overlaps, and joins neighbours of
\* one type. A hole only removes.
e820_add(l, s, e, t) ==
    LET meets == {i \in DOMAIN l : s <= l[i].e}
        i0 == IF meets = {} THEN Len(l) + 1 ELSE Min(meets)
        starts == i0 <= Len(l) /\ s > l[i0].s
        same == starts /\ l[i0].t = t
        i1 == IF starts /\ ~same THEN i0 + 1 ELSE i0
    IN IF s = e THEN l
       ELSE Enter(Swallow(IF i1 = i0 THEN l ELSE Split(l, i0, s, e), i1, e), i1,
                  IF same THEN l[i0].s ELSE s, e, t)

\* The list with all of a sequence of ranges added.
AddAll(l, rs) ==
    LET step(k, acc) == e820_add(acc, rs[k].s, rs[k].e, rs[k].t)
        f[k \in 0..Len(rs)] == IF k = 0 THEN l ELSE step(k, f[k - 1])
    IN f[Len(rs)]
\* Whether one of them may have met a full list.
Fills(l, rs) == Len(l) + 2 * Len(rs) > MaxE820
Paint(w, rs) ==
    [a \in 0..(TopEnd - 1) |->
        LET on == {k \in DOMAIN rs : rs[k].s <= a /\ a < rs[k].e}
        IN IF on = {} THEN w[a] ELSE rs[Max(on)].t]
TypeAt(l, a) ==
    LET on == {i \in DOMAIN l : l[i].s <= a /\ a < l[i].e}
    IN IF on = {} THEN "hole" ELSE l[Min(on)].t

Map(rs) ==
    /\ e820' = AddAll(e820, rs)
    /\ want' = Paint(want, rs)
    /\ full' = (full \/ Fills(e820, rs))

-----------------------------------------------------------------------------
\* From the start to the boot.

\* The memory of the nvram, and the BIOS below 4 GB.
qemu_preinit(p) == <<Range3(0, p.ram, "RAM"), Range3(Flash, FourGig, "RESERVED")>>
\* The map that Xen made.
xen_ramsize_preinit(p) == p.table
\* The map of coreboot, whose own tables are reserved; the first pages are RAM
\* whatever it says of them.
coreboot_preinit(p) ==
    IF p.table = <<>> THEN <<Range3(0, DummyRam, "RAM")>>
    ELSE [k \in DOMAIN p.table |->
             IF p.table[k].t = "TABLE" THEN [p.table[k] EXCEPT !.t = "RESERVED"] ELSE p.table[k]]
         \o <<Range3(0, 1, "RAM")>>
Said(p) == CASE p.from = "qemu" -> qemu_preinit(p) [] p.from = "xen" -> xen_ramsize_preinit(p)
             [] p.from = "coreboot" -> coreboot_preinit(p)

MemInit ==
    /\ zones = [z \in Range(ZoneNames) |-> <<>>]
    /\ e820 = <<>> /\ want = [a \in 0..(TopEnd - 1) |-> "hole"] /\ full = FALSE
    /\ romEnd = RomStart /\ rom = 0 /\ kept = {}
    /\ phase = "feed" /\ platform \in Platforms /\ feed = Said(platform) /\ ops = 0
    /\ ram = [low |-> IF platform.from = "qemu" THEN platform.ram ELSE 0, over |-> 0]

\* What is said of the memory at the start, a range at a time.
Feed ==
    /\ phase = "feed"
    /\ IF feed = <<>> THEN phase' = "preinit" /\ UNCHANGED <<e820, want, full, feed>>
       ELSE Map(<<Head(feed)>>) /\ feed' = Tail(feed) /\ UNCHANGED phase
    /\ UNCHANGED <<zones, romEnd, rom, kept, platform, ram, ops>>

\* RAM that the nvram has told of.
Ignored(r, x) == x.t = "RAM" /\ x.s < r.low
\* qemu_cfg_e820: the rest of the RAM and QEMU's own reservations come when
\* malloc_init has run; without the file, reservations and the size above 4 GB.
qemu_cfg_e820 ==
    LET x == Head(feed)
        skip == (platform.file /\ Ignored(ram, x)) \/ x.t \notin {"RAM", "RESERVED"}
    IN /\ phase = "config"
       /\ IF feed = <<>> THEN phase' = "bda" /\ UNCHANGED <<e820, want, full, feed, ram>>
          ELSE /\ feed' = Tail(feed) /\ UNCHANGED phase
               /\ IF skip THEN UNCHANGED <<e820, want, full, ram>>
                  ELSE /\ Map(<<x>>)
                       /\ ram' = IF x.t # "RAM" THEN ram
                                 ELSE IF x.s < FourGig THEN [ram EXCEPT !.low = Max({@, x.e})]
                                 ELSE [ram EXCEPT !.over = Max({@, x.e - FourGig})]
       /\ UNCHANGED <<zones, romEnd, rom, kept, platform, ops>>

\* The ranges of RAM that temporary memory comes from, and the start of the
\* permanent tables at the end of the highest range that has room for them.
HighRam(l) ==
    LET rams == {i \in DOMAIN l : l[i].t = "RAM" /\ l[i].e > OneMeg /\ l[i].e < FourGig}
        big == {i \in rams : l[i].e - HighTable >= l[i].s}
    IN [rams |-> rams, high |-> IF big = {} THEN 0 ELSE l[Max(big)].e - HighTable, kept |-> TRUE]

malloc_preinit ==
    LET holes == <<Range3(LowRamEnd, BiosAddr, "hole"), Range3(BiosAddr, OneMeg, "RESERVED")>>
        l == AddAll(e820, holes)
        hi == HighRam(l)
        step(i, zs) == IF i \notin hi.rams THEN zs
                       ELSE alloc_add(zs, "TmpHigh", l[i].s,
                                      IF hi.high # 0 /\ l[i].e = hi.high + HighTable
                                      THEN hi.high ELSE l[i].e)
        f[k \in 0..Len(l)] == IF k = 0 THEN zones ELSE step(Len(l) + 1 - k, f[k - 1])
        low == alloc_add(f[Len(l)], "TmpLow", StackAddr, EbdaMinimum)
    IN /\ phase = "preinit" /\ phase' = "reloc"
       /\ zones' = IF hi.high = 0 THEN low
                   ELSE alloc_add(low, "High", hi.high, hi.high + HighTable)
       /\ Map(holes \o (IF hi.high = 0 \/ ~hi.kept THEN <<>>
                        ELSE <<Range3(hi.high, hi.high + HighTable, "RESERVED")>>))
       /\ UNCHANGED <<romEnd, rom, kept, platform, feed, ram, ops>>

\* reloc_preinit: the code of the start moves to temporary memory for good.
reloc_preinit ==
    LET a == malloc_tmp(zones, InitSize, 1)
    IN /\ phase = "reloc" /\ phase' = IF a.at = 0 THEN "panic" ELSE "init"
       /\ zones' = a.zs
       /\ UNCHANGED <<e820, want, full, romEnd, rom, kept, platform, feed, ram, ops>>

\* The low zone and the free part of the f-segment.
malloc_init ==
    /\ phase = "init" /\ phase' = IF platform.from = "qemu" THEN "config" ELSE "bda"
    /\ zones' = alloc_add(alloc_add(zones, "Low", ZoneLowBase + HeaderReserve, BiosAddr),
                          "FSeg", FSegStart, FSegEnd)
    /\ feed' = IF platform.from = "qemu" THEN platform.more ELSE <<>>
    /\ UNCHANGED <<e820, want, full, romEnd, rom, kept, platform, ram, ops>>

\* The extended BIOS data area.
bda_init ==
    /\ phase = "bda" /\ phase' = "post"
    /\ Map(<<Range3(EbdaStart, LowRamEnd, "RESERVED")>>)
    /\ UNCHANGED <<zones, romEnd, rom, kept, platform, feed, ram, ops>>

Call == phase = "post" /\ zones["Low"] # <<>> /\ ops < MaxOps /\ ops' = ops + 1
SameMap == UNCHANGED <<e820, want, full>>

\* The BIOS takes and frees memory of its own, from any thread.
Malloc(z, size, align) ==
    /\ Call
    /\ zones' = malloc_palloc(zones, z, size, align).zs
    /\ SameMap /\ UNCHANGED <<romEnd, rom, kept, phase, platform, feed, ram>>
Free(at) ==
    /\ Call
    /\ Taken(zones, at)
    /\ zones' = malloc_pfree(zones, at)
    /\ kept' = kept \ {at}
    /\ SameMap /\ UNCHANGED <<romEnd, rom, phase, platform, feed, ram>>

\* Devices of the chipset reserve their addresses.
Reserve(s, e) ==
    /\ Call
    /\ Map(<<Range3(s, e, "RESERVED")>>)
    /\ UNCHANGED <<zones, romEnd, rom, kept, phase, platform, feed, ram>>

\* A permanent block that only ZoneTmpHigh had room for is reserved in the map.
Reserved(at, size) == <<Range3(at, at + size, "RESERVED")>>

\* handle_pmm00: where tells which zones may serve, perm whether for ever; the
\* alignment is the lowest bit of the size where the caller wants one.
LowBit(n) == IF n % 2 = 1 THEN 1 ELSE IF n % 4 = 2 THEN 2 ELSE 4
handle_pmm00(size, where, perm, aligned, h) ==
    LET align == IF aligned THEN LowBit(size) ELSE 1
        low == IF perm THEN "Low" ELSE "TmpLow"
        high == IF perm THEN "High" ELSE "TmpHigh"
        other == IF where = 3 THEN high ELSE "TmpHigh"
    IN /\ Call
       /\ rom # 0
       /\ \E a \in {malloc_palloc(zones, IF where = 2 THEN high ELSE low, size, align)} :
          \E second \in {a.at = 0 /\ (where = 3 \/ (where = 2 /\ perm))} :
          \E got \in {IF second THEN malloc_palloc(zones, other, size, align) ELSE a} :
          \E spilled \in {second /\ where = 2 /\ got.at # 0} :
             /\ zones' = IF got.at = 0 THEN got.zs ELSE malloc_sethandle(got.zs, got.at, h)
             /\ kept' = IF spilled THEN kept \union {got.at} ELSE kept
             /\ IF spilled THEN Map(Reserved(got.at, size)) ELSE SameMap
       /\ UNCHANGED <<romEnd, rom, phase, platform, feed, ram>>
\* handle_pmm02 frees any block, the caller's or not.
handle_pmm02(at) == rom # 0 /\ Free(at)

\* The area of the option roms ends where the lowest block of ZoneLow begins.
rom_get_max == AlignDown(alloc_find_lowest(zones, "Low").e - HeaderReserve, RomAlign)
NewEnd(size) == AlignUp(romEnd + size, RomAlign)
\* ZoneLow starts behind the rom.
rom_reserve(zs, size) ==
    [zs EXCEPT !["Low"][Len(zs["Low"])].s = Max({NewEnd(size), ZoneLowBase}) + HeaderReserve]

\* init_optionrom: a rom that finds room is copied below the BIOS and runs.
InitRom(size) ==
    /\ phase = "post" /\ zones["Low"] # <<>> /\ ops < MaxOps
    /\ rom = 0 /\ size # 0
    /\ IF NewEnd(size) > rom_get_max THEN UNCHANGED <<zones, rom>>
       ELSE zones' = rom_reserve(zones, size) /\ rom' = size
    /\ SameMap /\ UNCHANGED <<romEnd, kept, phase, platform, feed, ram, ops>>
\* The rom returns with the size it will keep, smaller or larger; what does not
\* fit any more is given up and the next rom takes its place.
rom_confirm(size) ==
    /\ rom # 0 /\ rom' = 0
    /\ IF NewEnd(size) > rom_get_max THEN UNCHANGED <<zones, romEnd>>
       ELSE zones' = rom_reserve(zones, size) /\ romEnd' = NewEnd(size)
    /\ SameMap /\ UNCHANGED <<kept, phase, platform, feed, ram, ops>>

\* Whole pages of what is free at the bottom of ZoneHigh.
GiveBack(r) == Range3(r.s, r.s + AlignDown(r.e - r.s, PageSize), "RAM")

\* malloc_prepboot: low memory is reserved, unused high tables become RAM.
malloc_prepboot ==
    /\ phase = "post" /\ rom = 0 /\ phase' = "boot"
    /\ Map(<<Range3(EbdaStart, LowRamEnd, "RESERVED")>>
           \o (IF zones["High"] = <<>> THEN <<>> ELSE <<GiveBack(alloc_find_lowest(zones, "High"))>>))
    /\ UNCHANGED <<zones, romEnd, rom, kept, platform, feed, ram, ops>>

BootSteps == Feed \/ malloc_preinit \/ reloc_preinit \/ malloc_init \/ qemu_cfg_e820 \/ bda_init
OwnCalls ==
    \/ \E z \in Range(ZoneNames), size \in Sizes, align \in {1, 4} : Malloc(z, size, align)
    \/ \E at \in 1..TopEnd : Free(at)
RomCalls ==
    \/ \E at \in 1..TopEnd : handle_pmm02(at)
    \/ \E size \in Sizes, where \in {1, 2, 3}, perm, aligned \in BOOLEAN, h \in Handles \union {Default} :
          handle_pmm00(size, where, perm, aligned, h)
    \/ \E size \in Sizes : InitRom(size)
    \/ \E size \in Sizes \union {0} : rom_confirm(size)
MemNext ==
    \/ BootSteps \/ OwnCalls \/ RomCalls \/ malloc_prepboot
    \/ \E s \in {Flash - 4, Flash - 3} : Reserve(s, Flash)

-----------------------------------------------------------------------------
\* The blocks that are taken, and their addresses.
Blocks == {At(zones, p[1], p[2]) : p \in {q \in Spots(zones) : At(zones, q[1], q[2]).kind # "base"}}
Cells(r) == r.s..(r.s + r.n - 1)
Permanent(b) == b.kind = "data" /\ (b.s \in kept \/ \E z \in {"Low", "FSeg", "High"} :
                    \E i \in DOMAIN zones[z] : zones[z][i] = b)

\* Memory is neither given out twice nor lost: the ranges of a zone lie one
\* below the other without a gap inside what alloc_add gave it, no two blocks
\* overlap, every block has the detail that free will look for, a handle leads to
\* a block that has it, and a block as large as malloc_getspace says can be had.
\* Low memory and the option roms below it do not meet, whatever a rom allocates
\* while it runs and however large it says it is afterwards.
MemoryKept ==
    /\ \A z \in Range(ZoneNames) : \A i \in DOMAIN zones[z] :
          /\ zones[z][i].s + zones[z][i].n <= zones[z][i].e
          /\ i > 1 => zones[z][i].e <= zones[z][i - 1].s
          /\ zones[z][i].kind # "base" =>
                i < Len(zones[z]) /\ zones[z][i + 1].e = zones[z][i].s
          /\ zones[z][i].kind = "base" =>
                \E j \in 1..i : zones[z][j].e = zones[z][i].top
    /\ \A b, c \in Blocks : b # c => Cells(b) \intersect Cells(c) = {}
    /\ \A b \in Blocks : b.kind = "data" =>
          \E c \in Blocks : c.kind = "detail" /\ c.s = b.d /\ c.d = b.d
    /\ \A c \in Blocks : c.kind = "detail" /\ c.h # Default =>
          LET at == malloc_findhandle(zones, c.h)
          IN \E b, d \in Blocks : b.kind = "data" /\ b.s = at /\ d.s = b.d /\ d.h = c.h
    /\ \A z \in {"TmpHigh", "TmpLow"} :
          LET n == malloc_getspace(zones, z) IN n > 0 => malloc_palloc(zones, z, n, 1).at # 0
    /\ phase = "post" => \A i \in DOMAIN zones["Low"] :
          zones["Low"][i].kind = "data" => zones["Low"][i].s >= romEnd + HeaderReserve

\* The map says of every address what was said last of it, in order and without
\* overlaps, and once the system boots no permanent block, and nothing above a
\* rom, counts as RAM that the operating system may use. Unless the list was full once
\* (full): insert_e820 then leaves out the rest of what it is told.
MapTold ==
    /\ \A i \in DOMAIN e820 : e820[i].s < e820[i].e
          /\ (i > 1 => e820[i - 1].e <= e820[i].s
                       /\ ~(e820[i - 1].e = e820[i].s /\ e820[i - 1].t = e820[i].t))
    /\ ~full => \A a \in DOMAIN want : TypeAt(e820, a) = want[a]
    /\ phase = "boot" /\ ~full =>
          \A b \in Blocks : Permanent(b) => \A a \in Cells(b) : TypeAt(e820, a) # "RAM"

\* The memory of the machine has one owner at every address, inside the firmware
\* (MemoryKept) and in what the operating system is told (MapTold).
MemoryOwned == MemoryKept /\ MapTold
=============================================================================
