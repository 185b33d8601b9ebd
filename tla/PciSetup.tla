------------------------------ MODULE PciSetup ------------------------------
(***************************************************************************)
(* fw/pciinit.c, hw/pcidevice.c and hw/pci.c: the numbers of the buses,    *)
(* the list of devices, and the addresses of their regions behind bridges. *)
(* The unit of memory is PCI_DEVICE_MEM_MIN, that of I/O a quarter of      *)
(* PCI_BRIDGE_IO_MIN.                                                      *)
(***************************************************************************)
EXTENDS Integers, Sequences, SequencesExt, FiniteSets, FiniteSetsExt

CONSTANTS
    Topologies,     \* the devices and how they are connected
    MaxBus,         \* the highest number of a bus, 255
    BridgeMem, BridgeIo,                \* PCI_BRIDGE_MEM_MIN, PCI_BRIDGE_IO_MIN
    IoLow, IoLowEnd, IoHigh, IoEnd,     \* 1000, a000, c000 and the end of the I/O ports
    MemEnd,         \* pcimem_end
    MemHalf, Mem3,  \* 2 GB and 3 GB
    Mmconfig,       \* end of the configuration space of a Q35
    Mem4,           \* 4 GB
    HugePage        \* alignment of what lies above

VARIABLES
    top,            \* one of Topologies
    pciPhase,       \* "number", "probe", "check", "map", "init", "done", "panic"
    stack,          \* calls of pci_bios_init_bus_rec: bus, device reached, bridge entered
    pci_bus,        \* the last number given
    sec, sub,       \* PCI_SECONDARY_BUS and PCI_SUBORDINATE_BUS of each device
    found,          \* PCIDevices, and MaxPCIBus
    MaxPCIBus,
    lists,          \* struct pci_bus: the sorted entries of each bus and type
    placed,         \* the regions that have an address
    started,        \* devices that have been set up
    vga             \* the display that is used, and the bridges opened for it

pciVars == <<top, pciPhase, stack, pci_bus, sec, sub, found, MaxPCIBus, lists, placed, started, vga>>

Types == {"io", "mem", "pref"}
Buses == 0..MaxBus
Devs == DOMAIN top.devs
Dev(k) == top.devs[k]
NoReserve == [bus |-> -1, io |-> -1, mem |-> -1, pref |-> -1]
\* The bridges that lead to a device.
Above == LET f[k \in Devs] == IF Dev(k).parent = 0 THEN {} ELSE {Dev(k).parent} \union f[Dev(k).parent]
         IN f
\* Where a device answers: on a root bus, or on the bus of its bridge, if all bridges
\* on the way forward that number. Of two bridges with one number both answer.
OnBus(k, b) ==
    /\ IF Dev(k).parent = 0 THEN Dev(k).root = b ELSE sec[Dev(k).parent] = b
    /\ \A a \in Above[k] : b \in sec[a]..sub[a]
BusOf(k) == IF Dev(k).parent = 0 THEN Dev(k).root ELSE sec[Dev(k).parent]
Up(a, n) == ((a + n - 1) \div n) * n
Down(a, n) == (a \div n) * n

PciInit ==
    /\ top \in Topologies
    /\ pciPhase = "number" /\ stack = <<[bus |-> 0, at |-> 0, of |-> 0]>> /\ pci_bus = 0
    /\ sec = [k \in Devs |-> IF Dev(k).bridge /\ Dev(k).parent = 0 /\ Dev(k).root = 0 THEN MaxBus ELSE 0]
    /\ sub = [k \in Devs |-> 0]
    /\ found = <<>> /\ MaxPCIBus = 0
    /\ lists = [b \in Buses |-> [t \in Types |-> <<>>]]
    /\ placed = {} /\ started = {} /\ vga = [dev |-> 0, bridges |-> {}]

-----------------------------------------------------------------------------
\* pci_bios_init_bus_rec and pci_bios_init_bus. A bus that is entered loses the
\* numbers of its bridges first.

Cleared(s, b) == [k \in Devs |-> IF Dev(k).bridge /\ OnBus(k, b) THEN MaxBus ELSE s[k]]
Push(b, k) == <<[bus |-> b, at |-> 0, of |-> k]>> \o stack
Bridges(f) == {k \in Devs : k > f.at /\ Dev(k).bridge /\ OnBus(k, f.bus)}
InitBusRest == UNCHANGED <<top, found, MaxPCIBus, lists, placed, started, vga>>

\* The next bridge gets the next number, and forwards everything above until
\* what is behind it has its numbers.
EnterBridge ==
    LET f == Head(stack)
        k == Min(Bridges(f))
        n == (pci_bus + 1) % (MaxBus + 1)
    IN /\ pciPhase = "number" /\ stack # <<>> /\ Bridges(f) # {}
       /\ pci_bus' = n
       /\ sec' = [j \in Devs |-> IF j = k THEN n
                                 ELSE IF Dev(j).parent = k /\ Dev(j).bridge THEN MaxBus ELSE sec[j]]
       /\ sub' = [j \in Devs |-> IF j = k THEN MaxBus
                                 ELSE IF Dev(j).parent = k /\ Dev(j).bridge THEN 0 ELSE sub[j]]
       /\ stack' = <<[bus |-> n, at |-> 0, of |-> k], [f EXCEPT !.at = k]>> \o Tail(stack)
       /\ UNCHANGED pciPhase /\ InitBusRest

\* The last number behind a bridge, or the number it wants reserved; a reservation
\* that is not larger than what is used is taken as a bus number.
Subordinate(k, last) ==
    LET want == Dev(k).reserve.bus % (MaxBus + 1)
        res == IF want + sec[k] > MaxBus THEN 0 ELSE want
    IN IF Dev(k).reserve.bus = -1 THEN last
       ELSE IF sec[k] + res > last THEN sec[k] + res ELSE res
LeaveBridge ==
    LET f == Head(stack)
        s == Subordinate(f.of, pci_bus)
    IN /\ pciPhase = "number" /\ stack # <<>> /\ Bridges(f) = {} /\ f.of # 0
       /\ sub' = [sub EXCEPT ![f.of] = s] /\ pci_bus' = s
       /\ stack' = Tail(stack)
       /\ UNCHANGED <<pciPhase, sec>> /\ InitBusRest
\* The other roots are looked for under every number above.
NextRoot ==
    /\ pciPhase = "number" /\ stack # <<>> /\ Bridges(Head(stack)) = {} /\ Head(stack).of = 0
    /\ IF top.roots > 0 /\ pci_bus < MaxBus
       THEN /\ pci_bus' = pci_bus + 1
            /\ stack' = <<[bus |-> pci_bus + 1, at |-> 0, of |-> 0]>>
            /\ sec' = Cleared(sec, pci_bus + 1)
            /\ UNCHANGED pciPhase
       ELSE stack' = <<>> /\ pciPhase' = "probe" /\ UNCHANGED <<pci_bus, sec>>
    /\ UNCHANGED sub /\ InitBusRest

-----------------------------------------------------------------------------
\* pci_probe_devices: bus after bus as long as a bridge leads further or a root
\* is missing.

\* foreachbdf and pci_next: the devices of a bus in their order.
OnBusSeq(b) == SetToSortSeq({k \in Devs : OnBus(k, b)}, <)
ProbeBus(b, acc) ==
    LET here == OnBusSeq(b)
        parents == {k \in Range(acc.list) : Dev(k).bridge /\ sec[k] = b}
        isroot == here # <<>> /\ parents = {}
        maxsec == Max({0} \union {sec[k] : k \in {k \in Range(here) : Dev(k).bridge}})
        go == b = 0 \/ b - 1 < acc.max \/ acc.roots < top.roots
    IN IF ~go \/ acc.stop THEN [acc EXCEPT !.stop = TRUE]
       ELSE [list |-> acc.list \o here, stop |-> FALSE,
             roots |-> acc.roots + (IF isroot /\ b # 0 THEN 1 ELSE 0),
             max |-> Max({acc.max, maxsec} \union (IF isroot THEN {b} ELSE {}))]
pci_probe_devices ==
    LET f[b \in -1..MaxBus] == IF b = -1 THEN [list |-> <<>>, max |-> 0, roots |-> 0, stop |-> FALSE]
                               ELSE ProbeBus(b, f[b - 1])
    IN /\ pciPhase = "probe" /\ pciPhase' = "check"
       /\ found' = f[MaxBus].list /\ MaxPCIBus' = f[MaxBus].max
       /\ UNCHANGED <<top, stack, pci_bus, sec, sub, lists, placed, started, vga>>

-----------------------------------------------------------------------------
\* pci_bios_check_devices.

Entry(k, bar, t, size, align, is64) ==
    [dev |-> k, bar |-> bar, type |-> t, size |-> size, align |-> align, is64 |-> is64]
\* Broken variant: in the order in which the devices are found.
pci_region_create_entryLast(ls, b, e) == [ls EXCEPT ![b][e.type] = Append(@, e)]
\* The largest alignment first, and of one alignment the largest size.
pci_region_create_entry(ls, b, e) ==
    LET l == ls[b][e.type]
        after == {i \in DOMAIN l : l[i].align < e.align \/ (l[i].align = e.align /\ l[i].size < e.size)}
        i == IF after = {} THEN Len(l) + 1 ELSE Min(after)
    IN [ls EXCEPT ![b][e.type] = InsertAt(l, i, e)]
pci_region_align(l) == IF l = <<>> THEN 1 ELSE l[1].align
pci_region_sum(l) == FoldLeft(LAMBDA n, e : n + e.size, 0, l)
\* The bus whose bridge is known, or else the first root.
Home(b) == IF \E k \in Range(found) : Dev(k).bridge /\ sec[k] = b THEN b ELSE 0

\* pci_bios_get_bar: type, size and width of each region; memory takes a page at
\* least.
Bars ==
    FlattenSeq([i \in DOMAIN found |->
        [j \in DOMAIN Dev(found[i]).bars |->
            LET r == Dev(found[i]).bars[j]
                n == IF r.type = "io" THEN r.size ELSE Max({1, r.size})
            IN Entry(found[i], j, r.type, n, n, r.is64)]])
DeviceEntries ==
    LET add(i, ls) == pci_region_create_entry(ls, Home(BusOf(Bars[i].dev)), Bars[i])
        f[i \in 0..Len(Bars)] == IF i = 0 THEN lists ELSE add(i, f[i - 1])
    IN f[Len(Bars)]

\* pci_bridge_has_region: not every bridge forwards I/O or prefetchable memory.
pci_bridge_has_region(k, t) == t = "mem" \/ t \in Dev(k).forwards
\* pci_bios_bridge_region_is64: only prefetchable memory, and only if all of it is.
pci_bios_bridge_region_is64(k, t, l) ==
    t = "pref" /\ Dev(k).wide /\ \A i \in DOMAIN l : l[i].is64
\* Room for what is plugged in later, unless it is I/O of a PCIe port.
HotplugMin(k, t, sum, align) ==
    IF sum = 0 /\ Dev(k).hotplug /\ ~(Dev(k).pcie /\ t = "io") THEN align ELSE sum
ReserveOf(k, t) == Max({0, Dev(k).reserve[t]})
WindowSize(k, t, sum, align) ==
    LET n == HotplugMin(k, t, sum, align)
    IN IF ReserveOf(k, t) > n THEN (IF t = "io" THEN ReserveOf(k, t) ELSE Up(ReserveOf(k, t), align))
       ELSE Up(n, align)
\* What a bridge needs of one type becomes an entry of the bus above.
Propagate(ls, k, t) ==
    LET l == ls[sec[k]][t]
        align == Max({pci_region_align(l), IF t = "io" THEN BridgeIo ELSE BridgeMem})
    IN IF ~pci_bridge_has_region(k, t) THEN ls
       ELSE pci_region_create_entry(ls, Home(BusOf(k)),
                Entry(k, 0, t, WindowSize(k, t, pci_region_sum(l), align), align,
                      pci_bios_bridge_region_is64(k, t, l)))
PropagateBus(ls, b) ==
    LET ks == {k \in Range(found) : Dev(k).bridge /\ sec[k] = b}
        order == <<"io", "mem", "pref">>
        one(i, x) == Propagate(x, Max(ks), order[i])
        f[i \in 0..3] == IF i = 0 THEN ls ELSE one(i, f[i - 1])
    IN IF ks = {} THEN ls ELSE f[3]
pci_bios_check_devices ==
    LET f[i \in 0..MaxPCIBus] ==
          IF i = 0 THEN DeviceEntries ELSE PropagateBus(f[i - 1], MaxPCIBus + 1 - i)
    IN /\ pciPhase = "check" /\ pciPhase' = "map"
       /\ lists' = f[MaxPCIBus]
       /\ UNCHANGED <<top, stack, pci_bus, sec, sub, found, MaxPCIBus, placed, started, vga>>

-----------------------------------------------------------------------------
\* pci_bios_map_devices.

\* pci_bios_init_platform: where the memory of devices may begin, and how far the
\* lower I/O ports reach.
i440fx_mem_addr_setup == IF top.ram <= MemHalf THEN MemHalf ELSE IF top.ram <= Mem3 THEN Mem3 ELSE top.ram
mch_mem_addr_setup == Mmconfig
MemStart == CASE top.host = "i440fx" -> i440fx_mem_addr_setup [] top.host = "q35" -> mch_mem_addr_setup
              [] OTHER -> top.ram
LowEnd == IF top.host = "q35" THEN IoEnd ELSE IoLowEnd

\* pci_bios_init_root_regions_io: the usual ports, the lower ones, or -1.
pci_bios_init_root_regions_io(l) ==
    LET n == pci_region_sum(l)
    IN IF n < IoEnd - IoHigh THEN IoHigh ELSE IF n < LowEnd - IoLow THEN IoLow ELSE -1
\* pci_bios_init_root_regions_mem: the type with the larger alignment lies below.
pci_bios_init_root_regions_mem(mem, pref) ==
    LET swap == pci_region_align(mem) < pci_region_align(pref)
        end == IF swap THEN mem ELSE pref
        start == IF swap THEN pref ELSE mem
        high == Down(MemEnd - pci_region_sum(end), pci_region_align(end))
        low == Down(high - pci_region_sum(start), pci_region_align(start))
    IN [ok |-> low >= MemStart /\ low <= MemEnd,
        mem |-> IF swap THEN high ELSE low, pref |-> IF swap THEN low ELSE high]
\* pci_region_migrate_64bit_entries: what may go above 4 GB; USB controllers stay.
Moves(e) == e.is64 /\ ~Dev(e.dev).usb
\* The two areas above 4 GB, behind the memory there and what the file
\* etc/reserved-memory-end keeps for more of it.
HighStart == Max({top.resend, Mem4 + top.over})
High64(mem, pref) ==
    LET a == Up(Up(HighStart, pci_region_align(mem)), HugePage)
        b == Up(Up(a + pci_region_sum(mem), pci_region_align(pref)), HugePage)
    IN [mem |-> a, pref |-> b]

\* pci_region_map_entries: one entry behind the other.
Placed(l, base) ==
    {[dev |-> l[i].dev, bar |-> l[i].bar, type |-> l[i].type, size |-> l[i].size, is64 |-> l[i].is64,
      align |-> l[i].align, at |-> base + pci_region_sum(SubSeq(l, 1, i - 1))] : i \in DOMAIN l}
BaseOf(done, b, t) ==
    LET w == {x \in done : x.bar = 0 /\ x.type = t /\ sec[x.dev] = b}
    IN IF w = {} THEN 0 ELSE (CHOOSE x \in w : TRUE).at
MapBus(done, b) == done \union UNION {Placed(lists[b][t], BaseOf(done, b, t)) : t \in Types}

pci_bios_map_devices ==
    LET root == lists[0]
        io == pci_bios_init_root_regions_io(root["io"])
        all == pci_bios_init_root_regions_mem(root["mem"], root["pref"])
        keep(t) == IF all.ok THEN root[t] ELSE SelectSeq(root[t], LAMBDA e : ~Moves(e))
        high(t) == IF all.ok THEN <<>> ELSE SelectSeq(root[t], Moves)
        low == pci_bios_init_root_regions_mem(keep("mem"), keep("pref"))
        up == High64(high("mem"), high("pref"))
        first == Placed(high("mem"), up.mem) \union Placed(high("pref"), up.pref)
                 \union Placed(root["io"], io) \union Placed(keep("mem"), low.mem)
                 \union Placed(keep("pref"), low.pref)
        f[b \in 0..MaxPCIBus] == IF b = 0 THEN first ELSE MapBus(f[b - 1], b)
    IN /\ pciPhase = "map"
       /\ IF io = -1 \/ ~low.ok THEN pciPhase' = "panic" /\ UNCHANGED placed
          ELSE pciPhase' = "init" /\ placed' = f[MaxPCIBus]
       /\ UNCHANGED <<top, stack, pci_bus, sec, sub, found, MaxPCIBus, lists, started, vga>>

-----------------------------------------------------------------------------
\* pci_bios_init_devices and pci_enable_default_vga.

Slots(K) == MapThenSumSet(LAMBDA k : Dev(k).slot, K)
RootOf(k) == CHOOSE j \in {k} \union Above[k] : Dev(j).parent = 0
\* The input A to D of the interrupt router for a pin: a device behind bridges
\* counts the slots on its way.
piix_pci_slot_get_irq(k, pin) == (pin - 1 + Slots({k} \union Above[k]) - 1) % 4
mch_pci_slot_get_irq(k, pin) ==
    LET way == ({k} \union Above[k]) \ {RootOf(k)}
    IN IF Dev(RootOf(k)).slot <= 24 THEN (pin - 1 + Slots(way) + Dev(RootOf(k)).slot) % 4
       ELSE (pin - 1 + Slots(way)) % 4
Line(k, pin) == CASE top.host = "i440fx" -> piix_pci_slot_get_irq(k, pin)
                  [] top.host = "q35" -> mch_pci_slot_get_irq(k, pin) [] OTHER -> 255

pci_bios_init_devices ==
    /\ pciPhase = "init" /\ pciPhase' = "vga"
    /\ started' = Range(found)
    /\ UNCHANGED <<top, stack, pci_bus, sec, sub, found, MaxPCIBus, lists, placed, vga>>

\* is_pci_vga: a display whose accesses reach it; no bridge is open at first.
is_pci_vga(k) == Dev(k).vga /\ k \in started /\ Above[k] \subseteq vga.bridges
pci_enable_default_vga ==
    LET found1(P(_)) == {i \in DOMAIN found : P(found[i])}
        ready == found1(is_pci_vga)
        shows == found1(LAMBDA k : Dev(k).vga)
    IN /\ pciPhase = "vga" /\ pciPhase' = "done"
       /\ vga' = IF ready # {} THEN [vga EXCEPT !.dev = found[Min(ready)]]
                 ELSE IF shows = {} THEN vga
                 ELSE [dev |-> found[Min(shows)], bridges |-> Above[found[Min(shows)]]]
       /\ UNCHANGED <<top, stack, pci_bus, sec, sub, found, MaxPCIBus, lists, placed, started>>

PciNext ==
    \/ EnterBridge \/ LeaveBridge \/ NextRoot \/ pci_probe_devices
    \/ pci_bios_check_devices \/ pci_bios_map_devices
    \/ pci_bios_init_devices \/ pci_enable_default_vga

-----------------------------------------------------------------------------
\* The buses behind a bridge, and how many numbers are used there.
Reach(k) == sec[k]..sub[k]
BridgeSet == {k \in Devs : Dev(k).bridge}
Behind ==
    LET f[k \in Devs] == MapThenSumSet(LAMBDA j : 1 + Max({f[j], Dev(j).reserve.bus}),
                                       {j \in BridgeSet : Dev(j).parent = k})
    IN f
\* The reservations that are taken for what they are not: as many buses as are used, or
\* fewer, become the number of the last bus; ports that are not a multiple of what a
\* bridge decodes move the windows behind them.
BusesTooFew(k) == Dev(k).reserve.bus # -1 /\ Dev(k).reserve.bus <= Behind[k]
PortsOdd(k) == ReserveOf(k, "io") % BridgeIo # 0
\* Every bridge has the numbers of what is behind it and no other, and the search
\* that follows finds every device.
BusesNested ==
    /\ \A k \in BridgeSet : sec[k] \in Reach(k)
    /\ \A j, k \in BridgeSet : j # k =>
          /\ sec[j] # sec[k]
          /\ IF j \in Above[k] THEN Reach(k) \subseteq Reach(j)
             ELSE k \in Above[j] \/ Reach(j) \intersect Reach(k) = {}
    /\ \A k \in Devs : Dev(k).parent = 0 => \A j \in BridgeSet : Dev(k).root \notin Reach(j)
    /\ pciPhase # "probe" => ToSet(found) = Devs /\ Len(found) = Cardinality(Devs)

Space(t) == IF t = "io" THEN "io" ELSE "mem"
Cover(x) == x.at..(x.at + x.size - 1)
\* A region that all bridges on the way forward.
Forwarded(x) == \A a \in Above[x.dev] : pci_bridge_has_region(a, x.type)
Window(a, t) == CHOOSE w \in placed : w.dev = a /\ w.bar = 0 /\ w.type = t
Inside(x) ==
    IF x.type = "io" THEN Cover(x) \subseteq IoLow..(IoEnd - 1)
    ELSE \/ Cover(x) \subseteq MemStart..(MemEnd - 1)
         \/ x.at >= HighStart /\ x.is64
\* The PCI-to-PCI rule, pin by pin on the way up, gives the same line.
Swizzled ==
    LET f[k \in Devs] == [p \in 1..4 |->
              IF Dev(k).parent = 0 THEN p
              ELSE f[Dev(k).parent][((p - 1 + Dev(k).slot) % 4) + 1]]
    IN f
AtRoot(k, p) == LET r == Dev(RootOf(k)).slot
                    q == Swizzled[k][p] - 1
                IN CASE top.host = "i440fx" -> (q + r - 1) % 4
                     [] top.host = "q35" -> IF r <= 24 THEN (q + r) % 4 ELSE q [] OTHER -> 255

\* A guest that takes the addresses as they are reaches every device and no two at
\* once: buses are numbered without overlaps, regions are aligned, lie in the
\* windows of all bridges on the way and in the memory or the ports that are left
\* for them (above 4 GB only what has 64 bits, and above what is reserved there), do
\* not overlap, interrupts arrive where the wires lead, and a display is found. Nothing
\* is said where a bridge wants no more buses reserved than are used behind it
\* (BusesTooFew): pci_bios_init_bus_rec then gives numbers twice, or none. Where one
\* wants an odd number of ports reserved (PortsOdd), ports may lie unaligned.
DevicesReachable ==
    (\E k \in BridgeSet : BusesTooFew(k)) \/
    /\ pciPhase \notin {"number", "panic"} => BusesNested
    /\ pciPhase = "init" =>
        LET ok == {x \in placed : Forwarded(x) /\ x.size > 0}
            odd == \E k \in BridgeSet : PortsOdd(k)
        IN
        /\ \A x \in ok :
              /\ x.at % x.align = 0 \/ (x.type = "io" /\ odd)
              /\ Inside(x)
              /\ \A a \in Above[x.dev] : Cover(x) \subseteq Cover(Window(a, x.type))
        /\ \A x, y \in ok : x # y /\ Space(x.type) = Space(y.type) /\ Dev(x.dev).parent = Dev(y.dev).parent
              => Cover(x) \intersect Cover(y) = {}
        /\ \A k \in Devs, p \in 1..4 : Line(k, p) = AtRoot(k, p)
    /\ pciPhase = "done" =>
          (vga.dev # 0) = (\E k \in Devs : Dev(k).vga) /\ (vga.dev # 0 => vga.bridges \subseteq Above[vga.dev])
=============================================================================
