----------------------------- MODULE MCMachine -----------------------------
EXTENDS FwTables, PciSetup, OptionRoms

R(s, e, t) == [s |-> s, e |-> e, t |-> t]
\* QEMU with the file of its memory map, with a hole below 4 GB or more above it,
\* and without the file; Xen, coreboot with and without a table.
Qemu(n, file, more) == [from |-> "qemu", ram |-> n, file |-> file, more |-> more]
MCPlatforms ==
    {Qemu(52, TRUE, <<R(0, 52, "RAM"), R(60, 64, "RAM"), R(54, 56, "RESERVED")>>),
     Qemu(44, TRUE, <<R(0, 44, "RAM"), R(48, 52, "RAM"), R(46, 48, "NVS")>>),
     Qemu(52, FALSE, <<R(54, 56, "RESERVED"), R(60, 62, "RAM")>>),
     [from |-> "xen", table |-> <<R(0, 9, "RAM"), R(27, 50, "RAM"), R(50, 60, "RESERVED")>>],
     [from |-> "coreboot", table |-> <<R(0, 1, "TABLE"), R(1, 9, "RAM"), R(27, 30, "RAM"), R(30, 34, "ACPI"),
                                       R(34, 52, "RAM"), R(52, 54, "TABLE")>>],
     [from |-> "coreboot", table |-> <<>>]}
Alloc(f, z, n) == [cmd |-> "allocate", file |-> f, zone |-> z, size |-> n, align |-> 1]
Point(d, s) == [cmd |-> "pointer", dest |-> d, src |-> s]
MCKinds == {[from |-> "qemu", cpus |-> 1, anchor |-> TRUE, acpi |-> {"script"}, files |-> <<>>,
             script |-> <<Alloc("rsdp", "FSeg", 1), Alloc("tables", "High", 3), Point("rsdp", "tables"),
                          Alloc("vmgenid", "High", 2), [cmd |-> "write", dest |-> "addr", src |-> "vmgenid"]>>],
            [from |-> "qemu", cpus |-> 1, anchor |-> FALSE, acpi |-> {"hpet", "numa"},
             files |-> <<"x", "dsdt", "dsdt">>, script |-> <<>>],
            [from |-> "qemu", cpus |-> 2, anchor |-> TRUE, acpi |-> {"q35"}, files |-> <<"x", "x", "x">>, script |-> <<>>],
            [from |-> "tables", cpus |-> 1, anchor |-> FALSE, acpi |-> {}, files |-> <<>>, script |-> <<>>]}
\* Every memory of 3 or 4 units below and up to 11 above 4 GB with its nodes, and
\* a few sets of processors, functions and given structures.
Splits3(n) == {<<>>, <<n>>} \union {<<a, n - a>> : a \in 3..(n - 1)}
               \union {<<3, a, n - 3 - a>> : a \in 1..(n - 4)}
MCMachines ==
    {[low |-> low, over |-> over, nodes |-> nodes, cpus |-> c[1], present |-> c[2], pkg |-> c[3],
      irq0 |-> c[4], own0 |-> c[4], ext |-> c[5], pci |-> c[6]] :
        low \in 3..4, over \in 0..11, nodes \in UNION {Splits3(n) : n \in 3..15},
        c \in {<<1, {0}, 1, FALSE, {}, <<>>>>,
               <<4, {0, 2, 3}, 2, TRUE, {0, 4, 11}, <<[dev |-> 1, pin |-> 0, irq |-> 0],
                  [dev |-> 2, pin |-> 1, irq |-> 11], [dev |-> 2, pin |-> 1, irq |-> 11],
                  [dev |-> 2, pin |-> 2, irq |-> 10], [dev |-> 3, pin |-> 1, irq |-> 10]>>>>,
               <<300, {0}, 1, TRUE, {17}, <<>>>>}}
MCSound == {m \in MCMachines : /\ (m.nodes = <<>> \/ Sum(m.nodes) = Ram(m))
                               /\ (m.cpus = 300 => m.nodes = <<>>)}

\* A display, a bridge with a device and a second bridge behind it or beside it
\* that has another; or a second root.
Bar(t, n, w) == [type |-> t, size |-> n, is64 |-> w]
MCBars == {<<>>, <<Bar("mem", 0, FALSE), Bar("io", 1, FALSE)>>, <<Bar("pref", 8, TRUE), Bar("mem", 2, FALSE)>>,
           <<Bar("mem", 4, TRUE), Bar("io", 4, FALSE)>>, <<Bar("pref", 16, TRUE), Bar("pref", 1, FALSE)>>}
Plain(parent, rb, slot, bars, v, u) ==
    [parent |-> parent, root |-> rb, slot |-> slot, bars |-> bars, vga |-> v, usb |-> u, bridge |-> FALSE,
     reserve |-> NoReserve, hotplug |-> FALSE, pcie |-> FALSE, wide |-> FALSE, forwards |-> {}]
Bridge(parent, rb, slot, res, hot, fw) ==
    [parent |-> parent, root |-> rb, slot |-> slot, bars |-> <<>>, vga |-> FALSE, usb |-> FALSE, bridge |-> TRUE,
     reserve |-> res, hotplug |-> hot, pcie |-> hot, wide |-> "pref" \in fw, forwards |-> fw]
\* Reservations that fit; fewer buses than are used, or ports that are no multiple.
MCReserves == {NoReserve, [bus |-> 3, io |-> 8, mem |-> 9, pref |-> -1], [NoReserve EXCEPT !.bus = 0],
               [NoReserve EXCEPT !.bus = 1], [NoReserve EXCEPT !.io = 9, !.pref = 17]}
\* Memory below 2 GB and over 3 GB, and a file that reserves more above 4 GB.
MCHosts == {[host |-> "i440fx", ram |-> 30, over |-> 3, resend |-> 0], [host |-> "q35", ram |-> 30, over |-> 3, resend |-> 0],
            [host |-> "i440fx", ram |-> 70, over |-> 9, resend |-> 0], [host |-> "q35", ram |-> 70, over |-> 9, resend |-> 130]}
Topology(h, b, c, res, fw, far) ==
    [host |-> h.host, ram |-> h.ram, over |-> h.over, resend |-> h.resend, roots |-> IF far = 3 THEN 1 ELSE 0,
     devs |-> <<Plain(0, 0, 1, b, far = 1, FALSE), Bridge(0, 0, 2, res, TRUE, fw), Plain(2, 0, 3, c, TRUE, TRUE),
                Bridge(IF far = 1 THEN 2 ELSE 0, IF far = 3 THEN 8 ELSE 0, 27, NoReserve, far = 2, {"io", "pref"}),
                Plain(4, 0, 0, b, FALSE, FALSE), Plain(0, IF far = 3 THEN 8 ELSE 0, 28, c, FALSE, FALSE)>>]
MCTopologies ==
    {Topology(h, b, c, res, fw, far) : h \in MCHosts, b, c \in MCBars, res \in MCReserves,
        fw \in {{"pref"}, {"io", "pref"}}, far \in {1, 2, 3}}

\* A network card whose rom has an image for another processor first, a second
\* card that may be the display, a card whose rom is a file, and more files, one
\* of them not valid with a second image behind it.
Image(id, size, sum, pnp) == [id |-> id, sig |-> TRUE, match |-> TRUE, size |-> size, sum |-> sum, pnp |-> pnp]
Card(id, class, bar, images, file) == [id |-> id, class |-> class, bar |-> bar, images |-> images, file |-> file]
RomFile(id, read, images) == [id |-> id, read |-> read, images |-> images]
NetRom(id) == Image(id, 2, TRUE, <<"bev", "bcv">>)
MCRomSets ==
    {[devs |-> <<Card("nic", "plain", "rom", <<[NetRom("nic") EXCEPT !.match = FALSE], NetRom("nic")>>, <<>>),
                 Card("card", class, "rom", <<Image("card", 1, TRUE, <<>>)>>, <<>>),
                 Card("raid", "plain", "preset", <<>>, <<Image("raid", 1, TRUE, <<"none">>)>>)>>,
      vgafiles |-> <<RomFile("vgabios", class # "other", <<Image("vgabios", 1, TRUE, <<>>)>>)>>,
      files |-> <<RomFile("ipxe", TRUE, <<Image("ipxe", 1, FALSE, <<"bcv">>), NetRom("ipxe")>>),
                  RomFile("linuxboot", TRUE, <<Image("linuxboot", 1, TRUE, <<"bev", "none", "bcv">>)>>)>>,
      exec |-> exec, checksum |-> exec = 2] : class \in {"vga", "other", "plain"}, exec \in {1, 2}}

\* One part of the machine is looked at in a behaviour; the others rest.
VARIABLE part
vars == <<part, memVars, tabVars, machine, pciVars, romVars>>
AnyMachine == CHOOSE m \in Machines : TRUE
MemRests == platform = CHOOSE p \in Platforms : p.from = "qemu"
TabRests == kind = CHOOSE k \in Kinds : k.from = "qemu"
ConRests == machine = AnyMachine
PciRests == top = CHOOSE t \in Topologies : TRUE
RomRests == romset = CHOOSE s \in RomSets : TRUE
Start == MemInit /\ TabInit /\ ConInit /\ PciInit /\ RomInit
Init ==
    \/ part = "memory" /\ TabRests /\ ConRests /\ PciRests /\ RomRests /\ Start
    \/ part = "tables" /\ ConRests /\ PciRests /\ RomRests /\ Start
                       /\ ((kind.from = "tables") = (platform.from # "qemu"))
    \/ part = "contents" /\ MemRests /\ TabRests /\ PciRests /\ RomRests /\ Start
    \/ part = "pci" /\ MemRests /\ TabRests /\ ConRests /\ RomRests /\ Start
    \/ part = "roms" /\ MemRests /\ TabRests /\ ConRests /\ PciRests /\ Start
Next ==
    \/ part = "memory" /\ MemNext /\ UNCHANGED <<machine, part, tabVars, pciVars, romVars>>
    \/ part = "tables" /\ TabNext /\ UNCHANGED <<machine, part, pciVars, romVars>>
    \/ part = "pci" /\ PciNext /\ UNCHANGED <<machine, part, memVars, tabVars, romVars>>
    \/ part = "roms" /\ RomNext /\ UNCHANGED <<machine, part, memVars, tabVars, pciVars>>
Spec == Init /\ [][Next]_vars

\* The tables the operating system finds are in their place (TablesLinked) and say the
\* same of the machine (TablesAgree), and option roms are where the list of roms and the
\* boot entries say (RomsListed).
TablesRight == TablesLinked /\ TablesAgree /\ RomsListed
=============================================================================
