----------------------------- MODULE MCServices -----------------------------
EXTENDS Threads, Clock, Vga, Vbe, SerialConsole, FwFiles, Reset

\* Two ports that scan a bus and find a hub, and a disk that waits with
\* interrupts open and calls the PCI BIOS.
MCPrograms ==
    [port |-> <<Step("lock", "reset"), Step("yield", ""), Step("unlock", "reset"), Step("spawn", "hub"), Step("yield", "")>>,
     hub |-> <<Step("lock", "reset"), Step("yield", ""), Step("unlock", "reset"), Step("lock", "hub"), Step("yield", ""),
               Step("unlock", "hub")>>,
     ata |-> <<Step("yield", ""), Step("preempt", ""), Step("pci", ""), Step("yield", "")>>]
MCDevices == <<"port", "port", "ata">>

\* Text, planar, CGA and packed modes of a standard card;
\* a frame buffer with and without an emulated text mode; text without a cursor.
VideoMode(card, model, depth, stride, legacy, emul) ==
    [card |-> card, model |-> model, cols |-> 2, rows |-> IF model = "text" THEN 3 ELSE 2,
     lines |-> IF model = "text" THEN 12 ELSE 4, cheight |-> IF model = "text" THEN 4 ELSE 2,
     depth |-> depth, stride |-> stride, legacy |-> legacy, emul |-> emul]
MCModes == {VideoMode("std", "text", 4, 2, TRUE, FALSE), VideoMode("std", "planar", 4, 2, TRUE, FALSE),
            VideoMode("std", "cga", 2, 2, TRUE, FALSE), VideoMode("std", "packed", 8, 3, FALSE, FALSE),
            VideoMode("cb", "direct", 16, 3, FALSE, FALSE), VideoMode("cb", "direct", 16, 3, TRUE, TRUE),
            VideoMode("ega", "text", 4, 2, TRUE, TRUE)}
MCFonts ==
    [f8 |-> (0 :> <<{}, {}>>) @@ (32 :> <<{}, {}>>) @@ (65 :> <<{1}, {1, 2}>>) @@ (200 :> <<{1, 2}, {1, 2}>>),
     f16 |-> (0 :> <<{}, {}, {}, {}>>) @@ (32 :> <<{}, {}, {}, {}>>) @@ (65 :> <<{1}, {2}, {1}, {}>>)
              @@ (200 :> <<{2}, {2}, {1}, {}>>),
     up8 |-> (72 :> <<{2}, {}>>),
     user |-> (72 :> <<{1}, {}>>) @@ (65 :> <<{2}, {1}>>)]
MCStrings == {<<65, 8>>, <<10, 13>>}
MCShapes == {<<1, 1>>, <<32, 0>>}
MCWindows == {<<0, 0, 79, 24>>, <<1, 1, 1, 2>>}
MCSeqs == {<<"[", "A">>, <<"[", "2", "~">>}

\* QEMU with and without DMA for its fw_cfg; coreboot on QEMU, whose flash, links and boot
\* modules replace files of fw_cfg; coreboot on a board without fw_cfg.
Cbfs(name, body, lzma, bad) == [name |-> name, body |-> body, lzma |-> lzma, bad |-> bad]
Segment(type, comp, addr, size, body) == [type |-> type, comp |-> comp, addr |-> addr, size |-> size, body |-> body, bad |-> FALSE]
Bad(seg) == [seg EXCEPT !.bad = TRUE]
Etc(file) == <<"etc", file>>
MCQemu(dma) ==
    [build |-> "qemu", sig |-> TRUE, dma |-> dma, nogfx |-> dma, misc |-> 90, nodes |-> <<11, 12>>, cpumap |-> <<13>>,
     acpi |-> <<<<21, 22>>, <<23>>>>,
     smbios |-> <<[type |-> "field", kind |-> 4, at |-> 7, body |-> <<31, 32>>], [type |-> "table", kind |-> 0, at |-> 0, body |-> <<9, 33, 34>>]>>,
     dir |-> <<[name |-> Etc("a"), key |-> "0x20", body |-> <<41, 42>>], [name |-> Etc("b"), key |-> "0x21", body |-> <<43, 44, 45>>]>>,
     flash |-> <<>>, mods |-> <<>>]
MCCoreboot(sig) ==
    [MCQemu(TRUE) EXCEPT !.build = "coreboot", !.sig = sig,
     !.flash = <<Cbfs(Etc("b"), <<51, 52>>, TRUE, FALSE), Cbfs(Etc("a"), <<53>>, FALSE, FALSE),
                 Cbfs(<<"img", "p">>, <<Segment("code", "none", 1, 3, <<61, 62>>), Segment("code", "lzma", 3, 2, <<63>>),
                     Segment("bss", "none", 6, 1, <<>>), Segment("entry", "none", 1, 0, <<>>)>>, FALSE, FALSE),
                 Cbfs(<<"img", "q">>, <<Bad(Segment("code", "lzma", 1, 2, <<64>>)), Segment("entry", "none", 1, 0, <<>>)>>, FALSE, FALSE),
                 Cbfs(Etc("d"), <<54, 55>>, TRUE, TRUE),
                 Cbfs(<<"links", "">>, <<[link |-> <<"acpi", 2>>, dest |-> Etc("b")], [link |-> Etc("e"), dest |-> Etc("no")]>>, FALSE, FALSE)>>,
     !.mods = <<[cmdline |-> <<[key |-> "x", val |-> Etc("a")], [key |-> "name", val |-> Etc("a")]>>, body |-> <<71, 72, 73, 74>>],
                [cmdline |-> <<>>, body |-> <<75>>]>>]
MCFileMachines == {MCQemu(TRUE), MCQemu(FALSE), MCCoreboot(TRUE), MCCoreboot(FALSE)}
MCFileNames == {Etc("a"), Etc("b"), Etc("d"), Etc("numa-nodes"), Etc("sercon-port"), <<"acpi", 2>>, <<"smbios", 4, 7>>}
MCUnlucky == {Etc("a"), Etc("max-cpus"), <<"acpi", 2>>, Etc("sercon-port")}

\* Every chip; Cirrus, Bochs cards with and without room for every mode, one
\* without the interface; screens of coreboot of no standard size, of a standard one, none.
MCCard(chip, mem) == [NoCard EXCEPT !.chip = chip, !.mem = mem]
MCScreen(w, h, line, masks, bpp) == [w |-> w, h |-> h, line |-> line, masks |-> masks, bpp |-> bpp]
MCCards ==
    {NoCard, [MCCard("cirrus", 0) EXCEPT !.strap = \h98],
     [MCCard("bochs", 2^24) EXCEPT !.maxw = 2560, !.maxbpp = 32], [MCCard("bochs", 2^20) EXCEPT !.maxw = 1280, !.maxbpp = 24],
     [MCCard("bochs", 2^20) EXCEPT !.ok = FALSE], MCCard("ati", 2^23), MCCard("coreboot", 0), [MCCard("coreboot", 0) EXCEPT !.ok = FALSE],
     [MCCard("coreboot", 0) EXCEPT !.screen = MCScreen(1366, 768, 5504, 32, 32)],
     [MCCard("coreboot", 0) EXCEPT !.screen = MCScreen(800, 600, 2400, 0, 24)],
     [MCCard("bochs-display", 0) EXCEPT !.screen = MCScreen(800, 600, 0, 0, 0)], MCCard("ramfb", 0)}

\* One service is looked at in a behaviour; the others rest.
VARIABLE part
vars == <<part, thrVars, clkVars, vgaVars, vbeVars, serVars, fileVars, resetVars>>
ThrRests == control = CHOOSE c \in Controls : TRUE
ThrOne == smm = CHOOSE b \in {m = "SMM" : m \in Methods} : TRUE
ClkRests == start = CHOOSE t \in Times : TRUE
VgaRests == disp = Powered(CHOOSE m \in Modes : m.legacy)
VbeRests == vb = Plugged(NoCard)
SerRests == con = Console0(FALSE)
FileRests == fm = CHOOSE m \in {f @@ [lost |-> <<>>] : f \in FileMachines} : TRUE
ResetRests == kind = "flash" /\ status = "none"
Start == ThrInit /\ ClkInit /\ VgaInit /\ VbeInit /\ SerInit /\ FileInit /\ ResetInit
Init ==
    \/ part = "threads" /\ ClkRests /\ VgaRests /\ VbeRests /\ SerRests /\ FileRests /\ ResetRests /\ Start
    \/ part \in {"ticks", "alarm", "fine"} /\ ThrRests /\ ThrOne /\ VgaRests /\ VbeRests /\ SerRests /\ FileRests /\ ResetRests /\ Start
    \/ part = "screen" /\ ThrRests /\ ThrOne /\ ClkRests /\ VbeRests /\ SerRests /\ FileRests /\ ResetRests /\ Start
    \/ part = "modes" /\ ThrRests /\ ThrOne /\ ClkRests /\ VgaRests /\ SerRests /\ FileRests /\ ResetRests /\ Start
    \/ part \in {"printing", "typing"} /\ ThrRests /\ ThrOne /\ ClkRests /\ VgaRests /\ VbeRests /\ FileRests /\ ResetRests /\ Start
    \/ part = "files" /\ ThrRests /\ ThrOne /\ ClkRests /\ VgaRests /\ VbeRests /\ SerRests /\ ResetRests /\ Start
    \/ part = "reset" /\ ThrRests /\ ThrOne /\ ClkRests /\ VgaRests /\ VbeRests /\ SerRests /\ FileRests /\ Start
OnlyThreads == UNCHANGED <<part, clkVars, vgaVars, vbeVars, serVars, fileVars, resetVars>>
ThreadTurn == part = "threads" /\ ThrNext /\ OnlyThreads
Next ==
    \/ ThreadTurn
    \/ part = "ticks" /\ TickNext /\ UNCHANGED <<part, thrVars, vgaVars, vbeVars, serVars, fileVars, resetVars>>
    \/ part = "alarm" /\ RtcNext /\ UNCHANGED <<part, thrVars, vgaVars, vbeVars, serVars, fileVars, resetVars>>
    \/ part = "fine" /\ FineNext /\ UNCHANGED <<part, thrVars, vgaVars, vbeVars, serVars, fileVars, resetVars>>
    \/ part = "screen" /\ VgaNext /\ UNCHANGED <<part, thrVars, clkVars, vbeVars, serVars, fileVars, resetVars>>
    \/ part = "modes" /\ VbeNext /\ UNCHANGED <<part, thrVars, clkVars, vgaVars, serVars, fileVars, resetVars>>
    \/ part = "printing" /\ SerOutNext /\ UNCHANGED <<part, thrVars, clkVars, vgaVars, vbeVars, inVars, fileVars, resetVars>>
    \/ part = "typing" /\ SerInNext /\ UNCHANGED <<part, thrVars, clkVars, vgaVars, vbeVars, fileVars, resetVars>>
    \/ part = "files" /\ FileNext /\ UNCHANGED <<part, thrVars, clkVars, vgaVars, vbeVars, serVars, resetVars>>
    \/ part = "reset" /\ ResetNext /\ UNCHANGED <<part, thrVars, clkVars, vgaVars, vbeVars, serVars, fileVars>>
\* The processors run, external code returns (its calls are bounded), and the
\* lock of the shared stack, a bus lock taken between pauses, starves nobody.
Spec == /\ Init /\ [][Next]_vars
        /\ WF_vars(ThreadTurn)
        /\ \A c \in Cpus : SF_vars(part = "threads" /\ Cpu(c) /\ OnlyThreads)

\* What the VGA BIOS draws and what the serial console sends is what was printed;
\* the modes of a display card are those it says, and the card is in the one set.
ScreensRight == ScreenRight /\ ConsoleRight /\ VbeRight

\* POST gets to the boot sector: no job waits for ever on a lock, on an option
\* rom or on a processor, and every thread wait_threads waits for ends.
BootReached == (part = "threads") ~> Booted
=============================================================================
