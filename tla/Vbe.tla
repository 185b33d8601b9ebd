-------------------------------- MODULE Vbe --------------------------------
(* The VBE calls of the display BIOS (int 10h, AH = 4Fh) and the chips below  *)
(* them: which modes are offered, what is said of them, and the window, line   *)
(* length, display start and DAC width of the mode that is set, on the Bochs   *)
(* interface, Cirrus, ATI, a plain VGA and frame buffers that cannot change.   *)
(* A mode is a row of a table; a palette and the memory itself are left out.   *)
EXTENDS Integers, Sequences, FiniteSets

CONSTANTS Cards,      \* the cards of the instance: chip, memory, what it reports
          AskedModes, \* mode numbers callers ask for
          MaxVbe      \* calls of a behaviour

VARIABLES vb,     \* the variables of the option rom, the registers of the card, the BIOS data area
          told,   \* what the last call returned
          want,   \* what the caller has set since the mode: line, start, window, dac
          kept,   \* a state a caller saved
          mixed,  \* only part of a state has been restored since the mode was set
          vcalls

vbeVars == <<vb, told, want, kept, mixed, vcalls>>

Up(a, b) == (a + b - 1) \div b
Block == 65536
-----------------------------------------------------------------------------
(* The tables of modes, with rows for every memory model and depth, and what   *)
(* follows from a row.  pitch is register 13h of the mode, of Cirrus with bit  *)
(* 4 of 1Bh as its ninth bit.                                                  *)
Row(table, mode, vesa, model, w, h, depth, pitch) ==
    [table |-> table, mode |-> mode, vesa |-> vesa, model |-> model, w |-> w, h |-> h, depth |-> depth, pitch |-> pitch]
NoVesa == \hffff
NoMode == Row("none", -1, -1, "text", 0, 0, 4, 0)
svga_modes ==
    LET row(mode, model, w, h, depth) == Row("svga", mode, mode, model, w, h, depth, 0)
    IN  <<row(\h101, "packed", 640, 480, 8), row(\h102, "planar", 800, 600, 4), row(\h10D, "direct", 320, 200, 15),
          row(\h10E, "direct", 320, 200, 16), row(\h10F, "direct", 320, 200, 24), row(\h140, "direct", 320, 200, 32),
          row(\h115, "direct", 800, 600, 24), row(\h143, "direct", 800, 600, 32), row(\h144, "direct", 1024, 768, 32),
          row(\h181, "direct", 1400, 1050, 16), row(\h18c, "direct", 2560, 1600, 32)>>
vga_modes ==
    LET row(mode, model, w, h, depth, pitch) == Row("std", mode, mode, model, w, h, depth, pitch)
    IN  <<row(\h03, "text", 80, 25, 4, \h28), row(\h04, "cga", 320, 200, 2, \h14), row(\h06, "cga", 640, 200, 1, \h28),
          row(\h0D, "planar", 320, 200, 4, \h14), row(\h12, "planar", 640, 480, 4, \h28),
          row(\h13, "packed", 320, 200, 8, \h28), row(\h6A, "planar", 800, 600, 4, \h32)>>
cirrus_modes ==
    LET row(mode, vesa, model, w, h, depth, pitch) == Row("cirrus", mode, vesa, model, w, h, depth, pitch)
    IN  <<row(\h5f, \h101, "packed", 640, 480, 8, \h50), row(\h64, \h111, "direct", 640, 480, 16, \ha0),
          row(\h71, \h112, "direct", 640, 480, 24, \hf0), row(\h78, \h115, "direct", 800, 600, 24, \h12c),
          row(\h68, \h116, "direct", 1024, 768, 15, \h100), row(\h79, \h118, "direct", 1024, 768, 24, \h180),
          row(\h75, \h11a, "direct", 1280, 1024, 16, \h140), row(\h7b, NoVesa, "packed", 1600, 1200, 8, \hc8)>>
RowsOf(table) == {table[i] : i \in DOMAIN table}

\* Bits of a pixel in the memory the system sees, and the memory behind it.
vga_bpp(m) == CASE m.model = "text" -> 16 [] m.model = "planar" -> 1
                [] m.depth > 8 -> 8 * Up(m.depth, 8) [] OTHER -> m.depth
stdvga_vram_ratio(m) ==
    CASE m.model = "text" -> 2 [] m.model = "cga" -> 4 \div m.depth [] m.model = "planar" -> 4 [] OTHER -> 1
stdvga_get_linesize(m) == Up(m.w * vga_bpp(m), 8)
Memory(m) == m.h * stdvga_get_linesize(m) * stdvga_vram_ratio(m)
-----------------------------------------------------------------------------
(* Which modes there are.                                                      *)
Chip(v) == v.card.chip
Emulates(v) == Chip(v) \in {"coreboot", "bochs-display", "ramfb"}
Left(v) == {m \in RowsOf(svga_modes) : m.mode \in v.left}
bochsvga_find_mode(v, n) == {m \in Left(v) : v.found /\ m.mode = n}
ati_find_mode(v, n) == {m \in Left(v) : v.found /\ m.mode = n}
clext_find_mode(n) == {m \in RowsOf(cirrus_modes) : n \in {m.mode, m.vesa}}
\* The mode the frame buffer is in hides one of the same number; mode 3 is drawn in it.
cbvga_find_mode(v, n) ==
    IF n = v.cb.mode THEN {v.cb.info} ELSE IF n = 3 THEN {[v.cb.emul EXCEPT !.mode = 3]} ELSE {m \in Left(v) : m.mode = n}
stdvga_find_mode(n) == {m \in RowsOf(vga_modes) : m.mode = n}
vgahw_find_mode(v, n) ==
    LET own == CASE Chip(v) = "cirrus" -> clext_find_mode(n) [] Chip(v) = "ati" -> ati_find_mode(v, n)
                 [] Chip(v) = "bochs" -> bochsvga_find_mode(v, n) [] OTHER -> {}
        all == IF Emulates(v) THEN cbvga_find_mode(v, n) ELSE IF own # {} THEN own ELSE stdvga_find_mode(n)
    IN  IF all = {} THEN NoMode ELSE CHOOSE m \in all : TRUE

\* A list is written from its start on and ends with FFFF; the room is never short.
EndMark == \hffff
WriteModes(list, modes) ==
    LET new == Append(modes, EndMark)
    IN  new \o SubSeq(list, Len(new) + 1, Len(list))
Offered(list) == LET end == CHOOSE i \in DOMAIN list : list[i] = EndMark /\ \A j \in 1..(i - 1) : list[j] # EndMark
                 IN  SubSeq(list, 1, end - 1)
Vesa(table, Has(_)) ==
    LET rows == SelectSeq(table, Has) IN [i \in DOMAIN rows |-> rows[i].vesa]
SvgaVesa(v) == Vesa(svga_modes, LAMBDA m : m.mode \in v.left)
StdVesa == Vesa(vga_modes, LAMBDA m : TRUE)
clext_list_modes == WriteModes(<<>>, Vesa(cirrus_modes, LAMBDA m : m.vesa # NoVesa) \o StdVesa)
bochsvga_list_modes(v) == WriteModes(<<>>, (IF v.found THEN SvgaVesa(v) ELSE <<>>) \o StdVesa)
cbvga_list_modes(v) ==
    LET modes == IF v.cb.mode = 3 THEN <<>> ELSE SvgaVesa(v)
        seen == v.cb.mode \in {modes[i] : i \in DOMAIN modes}
    IN  WriteModes(<<>>, modes \o (IF seen THEN <<>> ELSE <<v.cb.mode>>))
\* The test for ATI after that for Cirrus has no "else": the standard modes are
\* written over the list of Cirrus.
vgahw_list_modes(v) ==
    CASE Chip(v) = "cirrus" -> WriteModes(clext_list_modes, StdVesa)
      [] Chip(v) \in {"ati", "bochs"} -> bochsvga_list_modes(v)
      [] Emulates(v) -> cbvga_list_modes(v)
      [] OTHER -> WriteModes(<<>>, StdVesa)
-----------------------------------------------------------------------------
(* The registers.  Of a standard card: line length and start; of Cirrus the     *)
(* parts of 1Bh and 1Dh too, its windows and its extended mode; the Bochs       *)
(* interface; the CRT controller of ATI.                                        *)
NoDispi == [on |-> FALSE, lfb |-> FALSE, dac8 |-> FALSE, x |-> 0, y |-> 0, bpp |-> 8, bank |-> 0, vw |-> 0, xo |-> 0, yo |-> 0]
PowerOn == [line |-> 0, start |-> 0, line8 |-> 0, start16 |-> 0, start17 |-> 0, start19 |-> 0, ext |-> FALSE,
            win |-> <<0, 0>>, fine |-> FALSE, dispi |-> NoDispi, ati |-> [on |-> FALSE, pitch |-> 0, depth |-> 0]]
DispiBpp(d) == IF d.bpp = 4 THEN 1 ELSE 8 * Up(d.bpp, 8)
DispiLine(d) == (d.vw * DispiBpp(d)) \div 8
\* The device: lines are as long as the screen at least, of pixels by eights, and a
\* start whose screen does not lie in its memory is forgotten.
DispiKeeps(d, total) ==
    LET e == IF d.vw < d.x THEN [d EXCEPT !.vw = d.x] ELSE [d EXCEPT !.vw = 8 * (@ \div 8)]
        end(xo, yo) == ((xo * DispiBpp(e)) \div 8) + ((yo + e.y) * DispiLine(e))
        planes == IF e.bpp = 4 THEN 4 ELSE 1
    IN  IF end(e.xo, e.yo) * planes <= total THEN e
        ELSE IF end(e.xo, 0) * planes <= total THEN [e EXCEPT !.yo = 0] ELSE [e EXCEPT !.xo = 0, !.yo = 0]
DispiBanks(v) == v.total \div Block
dispi_enabled(v) == v.found /\ v.hw.dispi.on
BochsOn(v) == Chip(v) = "bochs" /\ dispi_enabled(v)

stdvga_get_linelength(v, m) == (v.hw.line * 8) \div stdvga_vram_ratio(m)
stdvga_set_linelength(v, m, val) == [v EXCEPT !.hw.line = Up(val * stdvga_vram_ratio(m), 8) % 256]
stdvga_get_displaystart(v, m) == (v.hw.start * 4) \div stdvga_vram_ratio(m)
stdvga_set_displaystart(v, m, val) == [v EXCEPT !.hw.start = ((val * stdvga_vram_ratio(m)) \div 4) % 65536]
clext_get_linelength(v, m) == ((256 * v.hw.line8 + v.hw.line) * 8) \div stdvga_vram_ratio(m)
clext_set_linelength(v, m, val) ==
    LET n == Up(val * stdvga_vram_ratio(m), 8)
    IN  [v EXCEPT !.hw.line = n % 256, !.hw.line8 = (n \div 256) % 2]
clext_get_displaystart(v, m) ==
    ((v.hw.start + 65536 * v.hw.start16 + 131072 * v.hw.start17 + 524288 * v.hw.start19) * 4) \div stdvga_vram_ratio(m)
\* Bits 8 to 11 of the address are put where bits 16 to 19 belong.
clext_set_displaystart(v, m, val) ==
    LET n == (val * stdvga_vram_ratio(m)) \div 4
    IN  [v EXCEPT !.hw.start = n % 65536, !.hw.start16 = (n \div 256) % 2, !.hw.start17 = (n \div 512) % 4,
                  !.hw.start19 = (n \div 2048) % 2]
bochsvga_set_linelength(v, m, val) ==
    LET w == stdvga_set_linelength(v, m, val)
    IN  IF ~dispi_enabled(v) THEN w
        ELSE [w EXCEPT !.hw.dispi = DispiKeeps([@ EXCEPT !.vw = (val * 8) \div vga_bpp(m)], v.total)]
bochsvga_get_displaystart(v, m) ==
    LET d == v.hw.dispi  bpp == vga_bpp(m)
    IN  (d.xo * bpp) \div 8 + ((d.vw * bpp) \div 8) * d.yo
bochsvga_set_displaystart(v, m, val) ==
    LET w == stdvga_set_displaystart(v, m, val)
        line == (v.hw.dispi.vw * vga_bpp(m)) \div 8
        x == [w EXCEPT !.hw.dispi = DispiKeeps([@ EXCEPT !.xo = ((val % line) * 8) \div vga_bpp(m)], v.total)]
    IN  IF ~dispi_enabled(v) \/ line = 0 THEN w
        ELSE [x EXCEPT !.hw.dispi = DispiKeeps([@ EXCEPT !.yo = val \div line], v.total)]

\* vgahw_...: the one of the chip; -1 is a failure.
get_linelength(v, m) ==
    CASE Chip(v) = "cirrus" -> clext_get_linelength(v, m) [] Emulates(v) -> v.cb.line
      [] BochsOn(v) -> (v.hw.dispi.vw * vga_bpp(m)) \div 8 [] OTHER -> stdvga_get_linelength(v, m)
set_linelength(v, m, val) ==
    CASE Chip(v) = "cirrus" -> clext_set_linelength(v, m, val)
      [] Chip(v) = "bochs" -> bochsvga_set_linelength(v, m, val) [] OTHER -> stdvga_set_linelength(v, m, val)
get_displaystart(v, m) ==
    CASE Chip(v) = "cirrus" -> clext_get_displaystart(v, m) [] Emulates(v) -> 0
      [] BochsOn(v) -> bochsvga_get_displaystart(v, m) [] OTHER -> stdvga_get_displaystart(v, m)
set_displaystart(v, m, val) ==
    CASE Chip(v) = "cirrus" -> clext_set_displaystart(v, m, val)
      [] Chip(v) = "bochs" -> bochsvga_set_displaystart(v, m, val) [] OTHER -> stdvga_set_displaystart(v, m, val)
get_window(v, window) ==
    CASE Chip(v) = "cirrus" -> v.hw.win[window + 1] [] BochsOn(v) /\ window = 0 -> v.hw.dispi.bank [] OTHER -> -1
get_dacformat(v) == IF ~BochsOn(v) THEN -1 ELSE IF v.hw.dispi.dac8 THEN 8 ELSE 6
get_linesize(v, m) == IF Emulates(v) THEN v.cb.line ELSE stdvga_get_linesize(m)
-----------------------------------------------------------------------------
(* Setting a mode.                                                             *)
StdMode(v, m) == [v EXCEPT !.hw.line = m.pitch % 256, !.hw.start = 0]
bochsvga_set_mode(v, m, linear) ==
    LET off == IF v.found THEN [v EXCEPT !.hw.dispi.on = FALSE, !.hw.dispi.lfb = FALSE, !.hw.dispi.dac8 = FALSE, !.hw.dispi.bank = 0]
               ELSE v
        svga == CHOOSE r \in RowsOf(vga_modes) : r.mode = \h6A
        base == IF m.model = "planar" THEN StdMode(off, svga) ELSE off
        set == [base EXCEPT !.hw.dispi = [on |-> TRUE, lfb |-> linear, dac8 |-> FALSE, x |-> m.w, y |-> m.h, bpp |-> m.depth,
                                          bank |-> 0, vw |-> m.w, xo |-> 0, yo |-> 0]]
    IN  IF m.table = "svga" THEN stdvga_set_linelength(set, m, m.w) ELSE StdMode(off, m)
\* A table writes the registers of a mode of Cirrus, and of the switch back.
cirrus_switch_mode(v, m) ==
    LET own == m.table = "cirrus"
    IN  [v EXCEPT !.hw.ext = own, !.hw.line = IF own THEN m.pitch % 256 ELSE @, !.hw.line8 = m.pitch \div 256,
                  !.hw.start = IF own THEN 0 ELSE @, !.hw.start16 = 0, !.hw.start17 = 0, !.hw.start19 = 0,
                  !.hw.win = <<0, 0>>, !.hw.fine = FALSE]
clext_set_mode(v, m, linear, clear) ==
    LET w == cirrus_switch_mode(v, m)
    IN  IF m.table # "cirrus" THEN StdMode(w, m) ELSE [w EXCEPT !.hw.fine = ~linear \/ clear]
ati_ext_mode(v, m) == [v EXCEPT !.hw.ati = [on |-> TRUE, pitch |-> m.w \div 8, depth |-> m.depth]]
ati_set_mode(v, m) == IF m.table = "svga" THEN ati_ext_mode(v, m) ELSE StdMode([v EXCEPT !.hw.ati.on = FALSE], m)
vgahw_set_mode(v, m, linear, clear) ==
    CASE Chip(v) = "cirrus" -> clext_set_mode(v, m, linear, clear)
      [] Chip(v) = "ati" -> ati_set_mode(v, m)
      [] Chip(v) = "bochs" -> bochsvga_set_mode(v, m, linear)
      [] Emulates(v) -> v
      [] OTHER -> StdMode(v, m)
-----------------------------------------------------------------------------
(* Finding the card.  A failure leaves int 10h to whoever had it.               *)
Screen(v, w, h, line, depth) ==
    LET info == Row("screen", \h140, \h140, "direct", w, h, depth, 0)
        left == {m \in RowsOf(svga_modes) : m.model = "direct" /\ m.h <= h /\ m.w <= w /\ m.depth = depth}
        same == {m \in RowsOf(svga_modes) : m.h = h /\ m.w = w /\ m.depth = depth}
        mode == IF same = {} THEN \h140 ELSE (CHOOSE m \in same : TRUE).mode
    IN  [v EXCEPT !.left = {m.mode : m \in left}, !.total = line * h, !.lfb = TRUE,
                  !.cb = [mode |-> mode, line |-> line, info |-> [info EXCEPT !.mode = mode], emul |-> info]]
stdvga_setup(v) == {v}
clext_setup(v) ==
    LET x == (v.card.strap \div 8) % 4
        memsize == IF x = 3 /\ v.card.strap >= 128 THEN \h40 ELSE 4 * 2^x
    IN  IF ~v.card.ok THEN {} ELSE {IF v.ready THEN v ELSE [v EXCEPT !.total = memsize * Block, !.gran = 16, !.lfb = TRUE]}
bochsvga_setup(v) ==
    LET fits == {m \in RowsOf(svga_modes) : m.w <= v.card.maxw /\ m.depth <= v.card.maxbpp /\ Memory(m) <= v.card.mem}
        w == [v EXCEPT !.found = TRUE]
    IN  {IF ~v.card.ok THEN v
         ELSE IF v.ready THEN w
         ELSE [w EXCEPT !.total = v.card.mem, !.gran = 64, !.lfb = TRUE, !.left = {m.mode : m \in fits}]}
ati_setup(v) ==
    LET fits == {m \in RowsOf(svga_modes) : /\ m.w % 8 = 0 /\ m.w <= \h7ff * 8 /\ m.h <= \hfff
                                             /\ Memory(m) <= v.card.mem /\ m.model = "direct"}
    IN  {IF v.ready THEN v ELSE [v EXCEPT !.found = TRUE, !.total = v.card.mem, !.lfb = TRUE, !.left = {m.mode : m \in fits}]}
Depths == {15, 16, 24, 32}
cbvga_setup(v) ==
    LET s == v.card.screen
        bpp == IF s.masks \in Depths THEN s.masks ELSE s.bpp
        text == Row("screen", 3, 3, "text", 80, 25, 4, 0)
    IN  CASE v.ready -> {v}
          [] ~v.ready /\ ~v.card.ok -> {}
          [] ~v.ready /\ v.card.ok /\ s.w = 0 -> {[v EXCEPT !.cb = [mode |-> 3, line |-> 160, info |-> text, emul |-> NoMode]]}
          [] OTHER -> IF bpp \in Depths THEN {Screen(v, s.w, s.h, s.line, bpp)} ELSE {}
\* Only the first run of the rom turns these two on.
bochs_display_setup(v) ==
    LET s == IF v.card.screen.w = 0 THEN [w |-> 1024, h |-> 768] ELSE v.card.screen
    IN  CASE v.ready -> {v}
          [] ~v.ready /\ ~v.card.ok -> {}
          [] OTHER -> {[Screen(v, s.w, s.h, 4 * s.w, 32) EXCEPT !.shown = TRUE]}
\* The memory may be refused.
ramfb_setup(v) ==
    IF v.ready THEN {v} ELSE IF ~v.card.ok THEN {} ELSE {[Screen(v, 1024, 768, 4096, 32) EXCEPT !.shown = TRUE]}
vgahw_setup(v) ==
    CASE Chip(v) = "cirrus" -> clext_setup(v) [] Chip(v) = "ati" -> ati_setup(v) [] Chip(v) = "bochs" -> bochsvga_setup(v)
      [] Chip(v) = "coreboot" -> cbvga_setup(v) [] Chip(v) = "bochs-display" -> bochs_display_setup(v)
      [] Chip(v) = "ramfb" -> ramfb_setup(v) [] OTHER -> stdvga_setup(v)
\* The timer's vector is the rom's entry, and the rom's entry goes on to the old one.
hook_timer_irq(v) == IF Emulates(v) THEN [v EXCEPT !.resume = v.timer, !.timer = "rom"] ELSE v
\* What runs the rom: POST, and a resume from S3, which powered the card on again.
vga_post(v, failed) ==
    IF failed \/ vgahw_setup(v) = {} THEN v
    ELSE LET w == CHOOSE s \in vgahw_setup(v) : TRUE
         IN  IF w.ready THEN w ELSE [hook_timer_irq(w) EXCEPT !.ready = TRUE]
-----------------------------------------------------------------------------
(* Calls.  NoWant: the caller has set nothing of the mode.                      *)
NoWant == [line |-> -1, start |-> -1, window |-> -1, dac |-> -1]
NoneKept == [states |-> {}, hw |-> PowerOn, bda |-> <<>>, want |-> NoWant, mixed |-> FALSE, emul |-> FALSE]
Told(what) == [what |-> what]
Failed == Told("failed")
Cur == vb.cur
Ready == vb.ready /\ ~vb.dead /\ vcalls < MaxVbe /\ vcalls' = vcalls + 1
\* A call that changes nothing is the last that is looked at.
Divides(dead, answer) ==
    /\ vb.ready /\ ~vb.dead /\ vcalls < MaxVbe /\ vcalls' = MaxVbe
    /\ vb' = [vb EXCEPT !.dead = dead] /\ told' = answer /\ UNCHANGED <<want, kept, mixed>>
Tells(answer) == Divides(FALSE, answer)
\* A call that changes registers: what it leaves, and what the caller now wants.
Sets(v, wanted) == vb' = v /\ want' = wanted /\ UNCHANGED <<kept, mixed>>
Fails == Tells(Failed)

Found(n) == vgahw_find_mode(vb, n)
vbe_set_mode ==
    \E n \in AskedModes, linear, clear \in BOOLEAN :
        LET m == Found(n)
            v == vgahw_set_mode(vb, m, linear, clear)
        IN  IF m = NoMode THEN Fails
            ELSE /\ Ready
                 /\ vb' = [v EXCEPT !.cur = m, !.linear = linear, !.emul = Emulates(v) /\ (m = [v.cb.emul EXCEPT !.mode = 3] \/ v.cb.mode = 3)]
                 /\ told' = Told("set") /\ want' = NoWant /\ mixed' = FALSE /\ UNCHANGED kept
vbe_104f00 == Tells([what |-> "list", modes |-> Offered(vgahw_list_modes(vb)), total |-> vb.total \div Block])
\* The bits of a pixel: <<size, position>> of red, green, blue and the rest.
Colours(depth) ==
    CASE depth = 15 -> <<<<5, 10>>, <<5, 5>>, <<5, 0>>, <<1, 15>>>>
      [] depth = 16 -> <<<<5, 11>>, <<6, 5>>, <<5, 0>>, <<0, 0>>>>
      [] depth = 24 -> <<<<8, 16>>, <<8, 8>>, <<8, 0>>, <<0, 0>>>>
      [] depth = 32 -> <<<<8, 16>>, <<8, 8>>, <<8, 0>>, <<8, 24>>>>
      [] OTHER -> <<<<0, 0>>, <<0, 0>>, <<0, 0>>, <<0, 0>>>>
\* The field says one less than the pages there are; of a single one it says one.
vbe_104f01 ==
    \E n \in AskedModes :
        LET m == Found(n)
            line == get_linesize(vb, m)
            fit == vb.total \div (Block * Up(m.h * line, Block))
            pages == CASE m.model \in {"text", "cga"} -> 1 [] m.model = "planar" -> fit \div 4 [] OTHER -> fit
            capped == IF pages > 128 THEN 128 ELSE pages
        IN  IF m = NoMode THEN Tells(Failed)
            ELSE Tells([what |-> "info", mode |-> m, line |-> line, banks |-> IF m.model = "cga" THEN 2 ELSE 1,
                        planes |-> IF m.model = "planar" THEN 4 ELSE 1, pages |-> IF capped < 2 THEN capped ELSE capped - 1,
                        linear |-> m.model \in {"packed", "direct"} /\ vb.lfb, movable |-> vb.gran # 0, colours |-> Colours(m.depth)])
vbe_104f03 == Tells([what |-> "mode", mode |-> Cur.mode, linear |-> vb.linear])

\* Parts of a state: the registers of a VGA, the BIOS data area, the palette and
\* the registers of the chip; each takes its bytes of the caller's buffer.
States == {{"hw", "bda", "dac", "regs"}, {"hw", "bda", "dac"}, {"hw"}, {"bda"}}
HasDispi(v, states) == Chip(v) = "bochs" /\ v.found /\ "regs" \in states
Saves(v, states) ==
    IF Emulates(v) THEN states \subseteq {"bda"} ELSE Chip(v) = "cirrus" => "regs" \notin states
Size(v, states) ==
    LET part(name, n) == IF name \in states THEN n ELSE 0
    IN  part("hw", 70) + part("bda", 44) + part("dac", 772) + (IF HasDispi(v, states) THEN 18 ELSE 0)
Restored(v, k) ==
    LET hw == IF "hw" \in k.states THEN [v EXCEPT !.hw.line = k.hw.line, !.hw.start = k.hw.start] ELSE v
        regs == IF ~HasDispi(v, k.states) THEN hw
                ELSE IF k.hw.dispi.on THEN [hw EXCEPT !.hw.dispi = k.hw.dispi]
                ELSE [hw EXCEPT !.hw.dispi.on = FALSE, !.hw.dispi.lfb = FALSE, !.hw.dispi.dac8 = FALSE]
    IN  IF "bda" \in k.states THEN [regs EXCEPT !.cur = vgahw_find_mode(v, k.bda.mode), !.linear = k.bda.linear] ELSE regs
\* Nothing of the mode stays behind: the chip has no registers but those restored,
\* or has in them what it had when the state was saved.
WholeState(v, k) ==
    CASE Emulates(v) -> k.states = {"bda"} /\ k.emul = v.emul
      [] Chip(v) = "bochs" -> {"hw", "bda"} \subseteq k.states /\ (v.found => "regs" \in k.states)
      [] OTHER -> /\ {"hw", "bda"} \subseteq k.states
                  /\ [v.hw EXCEPT !.line = 0, !.start = 0] = [k.hw EXCEPT !.line = 0, !.start = 0]
vbe_104f04 ==
    \/ \E states \in States :
          Tells(IF Saves(vb, states) THEN [what |-> "size", blocks |-> Size(vb, states) \div 64] ELSE Failed)
    \/ \E states \in States :
          /\ Saves(vb, states) /\ Cur # NoMode /\ Ready /\ kept.states = {}
          /\ kept' = [states |-> states, hw |-> vb.hw, bda |-> [mode |-> Cur.mode, linear |-> vb.linear],
                      want |-> want, mixed |-> mixed, emul |-> vb.emul]
          /\ told' = Told("saved") /\ UNCHANGED <<vb, want, mixed>>
    \/ /\ kept.states # {} /\ Ready
       /\ vb' = Restored(vb, kept) /\ told' = Told("restored") /\ UNCHANGED kept
       /\ IF WholeState(vb, kept) THEN want' = kept.want /\ mixed' = kept.mixed ELSE want' = NoWant /\ mixed' = TRUE

\* A bank that is refused because the card has fewer has been written all the same.
vbe_104f05 ==
    \E window \in 0..1 :
        \/ IF vb.linear \/ Cur = NoMode \/ get_window(vb, window) < 0 THEN Tells(Failed)
           ELSE Tells([what |-> "window", val |-> get_window(vb, window)])
        \/ \E val \in {0, 3, 255, 256} :
             LET bank == val % DispiBanks(vb)
                 set == CASE Chip(vb) = "cirrus" /\ val < 256 -> [vb EXCEPT !.hw.win[window + 1] = val]
                          [] BochsOn(vb) /\ window = 0 -> [vb EXCEPT !.hw.dispi.bank = bank]
                          [] OTHER -> vb
                 taken == IF Chip(vb) = "cirrus" THEN val < 256 ELSE BochsOn(vb) /\ window = 0 /\ bank = val
             IN  IF vb.linear \/ Cur = NoMode THEN Fails
                 ELSE /\ Ready /\ told' = IF taken THEN Told("moved") ELSE Failed
                      /\ Sets(set, IF window # 0 THEN want ELSE [want EXCEPT !.window = IF taken THEN val ELSE -1])
\* A length in pixels or in bytes.  The answer divides by the length: of ATI's own
\* modes the VGA register is read, and nothing sees to it that it is not 0.
AskedLines(m) == {<<"pixels", m.w>>, <<"pixels", 2 * m.w>>, <<"bytes", Up(m.w * vga_bpp(m), 8) + 3>>}
LineTold(v) ==
    LET line == get_linelength(v, Cur)
    IN  [what |-> "line", bytes |-> line, pixels |-> (line * 8) \div vga_bpp(Cur), lines |-> v.total \div line]
vbe_104f06 ==
    \/ IF Cur = NoMode THEN Fails
       ELSE LET dead == get_linelength(vb, Cur) = 0 IN Divides(dead, IF dead THEN Failed ELSE LineTold(vb))
    \/ \E ask \in AskedLines(Cur) :
         LET val == IF ask[1] = "pixels" THEN Up(ask[2] * vga_bpp(Cur), 8) ELSE ask[2]
             v == set_linelength(vb, Cur, val)
             dead == get_linelength(v, Cur) = 0
         IN  IF Cur = NoMode \/ Emulates(vb) THEN Fails
             ELSE /\ Ready /\ told' = IF dead THEN Failed ELSE LineTold(v)
                  /\ Sets([v EXCEPT !.dead = dead], [want EXCEPT !.line = val, !.start = -1])
\* Screens that lie in the memory, the last of them at its end.
AskedStarts(m, line) ==
    {<<0, 0>>, <<8, 1>>} \cup (IF line = 0 THEN {} ELSE {<<0, y>> : y \in {(vb.total \div (line * stdvga_vram_ratio(m))) - m.h} \cap Nat})
vbe_104f07 ==
    \/ IF Cur = NoMode THEN Fails
       ELSE LET line == get_linelength(vb, Cur)  start == get_displaystart(vb, Cur)
            IN  Divides(line = 0, IF line = 0 THEN Failed
                                  ELSE [what |-> "start", x |-> ((start % line) * 8) \div vga_bpp(Cur), y |-> start \div line])
    \/ Cur # NoMode /\
       \E at \in AskedStarts(Cur, get_linelength(vb, Cur)) :
          LET val == Up(at[1] * vga_bpp(Cur), 8) + get_linelength(vb, Cur) * at[2]
          IN  IF Emulates(vb) THEN Fails
              ELSE Ready /\ told' = Told("started") /\ Sets(set_displaystart(vb, Cur, val), [want EXCEPT !.start = val])
\* Modes of direct colour have no palette to be wider.
vbe_104f08 ==
    \/ /\ Cur = NoMode \/ Cur.model = "direct" \/ get_dacformat(vb) < 0
       /\ Tells(Failed)
    \/ /\ Cur # NoMode /\ Cur.model # "direct" /\ get_dacformat(vb) >= 0
       /\ \/ Tells([what |-> "dac", bits |-> get_dacformat(vb)])
          \/ \E bits \in {6, 7, 8} :
               IF bits = 7 THEN Fails
               ELSE Ready /\ told' = Told("dac set") /\ Sets([vb EXCEPT !.hw.dispi.dac8 = (bits = 8)], [want EXCEPT !.dac = bits])
vbe_104f15 ==
    \/ Tells(IF vb.card.screen.w # 0 /\ Chip(vb) # "coreboot" THEN Told("edid") ELSE Failed)
    \/ \E block \in 0..2 : Tells(IF block < 2 THEN Told("edid") ELSE Failed)
clext_1012 == Chip(vb) = "cirrus" /\ Tells([what |-> "memory", total |-> (vb.total \div Block) % 256])
-----------------------------------------------------------------------------
NoCard == [chip |-> "std", mem |-> 4 * Block, ok |-> TRUE, strap |-> 0, maxw |-> 0, maxbpp |-> 0,
           screen |-> [w |-> 0, h |-> 0, line |-> 0, masks |-> 0, bpp |-> 0]]
Plugged(card) ==
    [card |-> card, ready |-> FALSE, dead |-> FALSE, found |-> FALSE, left |-> {m.mode : m \in RowsOf(svga_modes)},
     total |-> 4 * Block, gran |-> 0, lfb |-> FALSE, cb |-> [mode |-> 0, line |-> 0, info |-> NoMode, emul |-> NoMode],
     shown |-> FALSE, hw |-> PowerOn, cur |-> NoMode, linear |-> FALSE, emul |-> FALSE, timer |-> "bios", resume |-> "none"]
VbeInit ==
    /\ \E card \in Cards : vb = Plugged(card)
    /\ told = Told("none") /\ want = NoWant /\ kept = NoneKept /\ mixed = FALSE /\ vcalls = 0
vbe_post ==
    /\ ~vb.ready /\ vcalls = 0
    /\ \E failed \in {FALSE} \cup {Chip(vb) = "ramfb"} : vb' = vga_post(vb, failed)
    /\ UNCHANGED <<told, want, kept, mixed, vcalls>>
\* S3: the card has lost its registers, the memory of the system is as it was.
vbe_resume ==
    /\ Ready
    /\ vb' = vga_post([vb EXCEPT !.hw = PowerOn, !.shown = FALSE], FALSE)
    /\ told' = Told("resumed") /\ want' = NoWant /\ mixed' = TRUE /\ UNCHANGED kept
VbeNext ==
    \/ vbe_post \/ vbe_resume \/ vbe_set_mode \/ vbe_104f00 \/ vbe_104f01 \/ vbe_104f03 \/ vbe_104f04 \/ vbe_104f05
    \/ vbe_104f06 \/ vbe_104f07 \/ vbe_104f08 \/ vbe_104f15 \/ clext_1012
-----------------------------------------------------------------------------
(* What should hold.                                                           *)
\* A mode that is offered is found, once, and its screen lies in the memory of
\* the card; what is said of a mode agrees with that memory: rows hold their
\* pixels, and so many pages fit.  (A text console of coreboot finds modes it does not offer.)
TextConsole == vb.cb.mode = 3
OffersTrue ==
    /\ told.what = "list" =>
         \A i \in DOMAIN told.modes :
            LET m == Found(told.modes[i])
            IN  /\ m # NoMode /\ Memory(m) <= vb.total
                /\ \A j \in DOMAIN told.modes : told.modes[i] = told.modes[j] => i = j
    /\ told.what = "info" /\ ~(TextConsole /\ told.mode.mode # 3) =>
         /\ told.line * 8 >= told.mode.w * vga_bpp(told.mode)
         /\ told.pages * told.planes * told.mode.h * told.line <= vb.total
         /\ told.linear => vb.lfb
    /\ told.what = "line" => told.bytes * told.lines <= vb.total
\* The chip is in the mode the BIOS data area names, whichever it was in before,
\* until only part of a state is brought back or the card was without power.
ChipInMode ==
    LET m == Cur  hw == vb.hw
    IN  CASE Chip(vb) = "bochs" -> /\ hw.dispi.on <=> m.table = "svga"
                                   /\ hw.dispi.on => hw.dispi.x = m.w /\ hw.dispi.y = m.h /\ hw.dispi.bpp = m.depth
          [] Chip(vb) = "ati" -> /\ hw.ati.on <=> m.table = "svga"
                                 /\ hw.ati.on => hw.ati.pitch * 8 = m.w /\ hw.ati.depth = m.depth
          [] Chip(vb) = "cirrus" -> (hw.ext <=> m.table = "cirrus") /\ (hw.ext /\ ~vb.linear => hw.fine)
          [] Emulates(vb) -> ~TextConsole => (vb.emul <=> m.mode = 3)
          [] OTHER -> TRUE
\* What the caller set is what the chip does, up to the unit the chip counts in;
\* the numbers its registers hold are named.
OwnMode(m) == Chip(vb) = "ati" /\ m.table = "svga"
WantedDone ==
    LET m == Cur  ratio == stdvga_vram_ratio(m)  bpp == vga_bpp(m)
        line == get_linelength(vb, m)  start == get_displaystart(vb, m)
        units == IF Chip(vb) = "cirrus" THEN 512 ELSE 256
        address == (want.start * ratio) \div 4
    IN  /\ want.line >= 0 /\ ~OwnMode(m) =>
             IF BochsOn(vb) THEN line * 8 >= m.w * bpp /\ want.line - line < bpp
             ELSE Up(want.line * ratio, 8) < units => line - want.line \in 0..((8 \div ratio) - 1)
        /\ want.start >= 0 /\ ~OwnMode(m) =>
             IF BochsOn(vb) THEN want.start - start \in 0..Up(bpp, 8)
             ELSE address < 65536 /\ (Chip(vb) = "cirrus" => (address \div 256) % 16 = 0) => want.start - start \in 0..3
        /\ want.window >= 0 => get_window(vb, 0) = want.window
        /\ want.dac >= 0 => get_dacformat(vb) = want.dac
\* No interrupt of the timer is passed from the rom to itself.
HookSafe == vb.resume # "rom" /\ (vb.timer = "rom" => vb.resume = "bios")
\* All of it; only ATI's own modes are set without the register of the line length.
VbeRight ==
    /\ OffersTrue /\ HookSafe
    /\ ~mixed => ChipInMode /\ WantedDone
    /\ vb.dead => mixed \/ OwnMode(Cur)
=============================================================================
