------------------------------- MODULE Vga -------------------------------
(* The display BIOS: the calls of int 10h that write, scroll, read and move   *)
(* the cursor, the frame buffers of its memory models, the cursor drawn by    *)
(* software on cards without one, the registers of a standard VGA.            *)
(* A cell of text is <<character, attribute>> and a group of eight pixels is  *)
(* a tuple of two colours; Eight stands for the eight lines of a small font.  *)
EXTENDS Integers, Sequences, FiniteSets, TLC, Bitwise

CONSTANTS Modes,       \* the modes of the cards: model, size in characters, font, depth
          Fonts,       \* font -> index -> the lines of the glyph, sets of lit pixels
          Eight,       \* the height of the small font
          MaxHeight,   \* the highest glyph gfx_read_char looks at
          Pages,       \* the pages of a text screen that are used, 0..n
          PageAlign,   \* cells a page of text is aligned to
          Bank,        \* distance of the odd lines from the even ones in CGA modes
          VramSize,    \* cells or groups of the frame buffer
          Lines,       \* lines of pixels that are looked at
          Chars,       \* characters that are printed
          Strings,     \* pairs of characters that are written at once
          Attrs,       \* attributes they are printed with
          Paper,       \* the attribute of a window that is scrolled and of a string
          Shapes,      \* cursor shapes <<start, end>>, one of them hidden
          Windows,     \* windows <<left, top, right, bottom>> that are scrolled
          MaxVideo     \* calls of a behaviour

VARIABLES disp,      \* BIOS data area of the display, the registers of the card
          vram,     \* the frame buffer
          screen,   \* what the calls so far should have left on it
          answer,   \* what the last call that reads returned
          saved,    \* the state a caller saved with 101c
          stained,  \* the cursor was drawn when its place or shape was changed under it
          asked

vgaVars == <<disp, vram, screen, answer, saved, stained, asked>>

IsText(v) == v.mode.model = "text"
Std(v) == v.mode.card = "std"
Group == <<0, 0>>
Blank(v) == IF IsText(v) THEN <<32, 7>> ELSE Group
Nothing == [kind |-> "none"]
-----------------------------------------------------------------------------
(* Sizes, addresses and the cursor's shape.                                   *)
Aligned(n) == ((n + PageAlign - 1) \div PageAlign) * PageAlign
calc_page_size(model, cols, rows) == IF model = "cga" THEN 2 * Bank ELSE Aligned(cols * rows)
text_address(v, page, x, y) == v.pagesize * page + y * v.cols + x
Off == 32
get_cursor_shape(v) ==
    LET start == v.ctype[1]  end == v.ctype[2]  h == v.cheight
        bottom == (((end + 1) * h) \div Eight) - 1
    IN  IF ~v.scale \/ h <= Eight \/ end >= Eight \/ start >= Off THEN v.ctype
        ELSE <<IF end # start + 1 THEN (((start + 1) * h) \div Eight) - 1 ELSE bottom - 1, bottom>>
set_cursor_shape(v, shape) ==
    LET w == [v EXCEPT !.ctype = shape]
    IN  IF Std(v) THEN [w EXCEPT !.hw.shape = get_cursor_shape(w)] ELSE w
set_cursor_pos(v, page, x, y) ==
    LET w == [v EXCEPT !.pos[page] = <<x, y>>]
    IN  IF page = v.page /\ Std(v) THEN [w EXCEPT !.hw.cursor = text_address(v, page, x, y)] ELSE w
set_active_page(v, page) ==
    LET start == text_address(v, page, 0, 0)
        w == [v EXCEPT !.hw.start = IF Std(v) THEN start ELSE @, !.pagestart = start, !.page = page]
    IN  set_cursor_pos(w, page, v.pos[page][1], v.pos[page][2])
\* The rows follow from the lines the mode shows; the pages are laid out anew.
set_scan_lines(v, lines) ==
    LET rows == v.mode.lines \div lines
        w == [v EXCEPT !.hw.scan = lines, !.cheight = lines, !.rows = rows - 1,
                       !.pagesize = calc_page_size("text", v.cols, rows)]
    IN  set_cursor_shape(w, IF lines = Eight THEN <<0, 1>> ELSE <<lines - 3, lines - 2>>)
-----------------------------------------------------------------------------
(* Lines of memory: moved one after the other, from the end when the          *)
(* destination lies behind the source.                                        *)
CopyLine(m, dst, src, len) == [a \in DOMAIN m |-> IF a \in dst..(dst + len - 1) THEN m[a - dst + src] ELSE m[a]]
memmove_stride(m, dst, src, len, stride, lines) ==
    LET line(i) == IF src < dst THEN lines - i ELSE i - 1
        f[i \in 0..lines] ==
            IF i = 0 THEN m
            ELSE LET g == f[i - 1] IN CopyLine(g, dst + line(i) * stride, src + line(i) * stride, len)
    IN  f[lines]
memset_stride(m, dst, cell, len, stride, lines) ==
    [a \in {dst + (i * stride) + j : i \in 0..(lines - 1), j \in 0..(len - 1)} |-> cell] @@ m
-----------------------------------------------------------------------------
(* Colours of a direct mode: the two bits and the intensity of a CGA colour   *)
(* scaled to the bits of the mode, and back to the nearest.                   *)
Closest(n, d) == (n + (d \div 2)) \div d
Bits(depth) == CASE depth = 15 -> <<5, 5, 5>> [] depth = 16 -> <<5, 6, 5>> [] OTHER -> <<8, 8, 8>>
Bit(c, i) == (c \div (2^i)) % 2
get_color(depth, attr) ==
    LET bits == Bits(depth)
        part == <<2 * Bit(attr, 2), IF attr % 16 = 6 THEN 1 ELSE 2 * Bit(attr, 1), 2 * Bit(attr, 0)>>
        scaled(i) == Closest((2^bits[i] - 1) * (part[i] + Bit(attr, 3)), 3)
    IN  <<scaled(1), scaled(2), scaled(3)>>
reverse_color(depth, color) ==
    LET bits == Bits(depth)
        near(i) == Closest(color[i] * 3, 2^bits[i] - 1)
        part == <<near(1), near(2), near(3)>>
        h == IF (\A i \in 1..3 : part[i] # 0) /\ part # <<2, 2, 2>> THEN 1 ELSE 0
        on(i, n) == IF part[i] - h # 0 THEN n ELSE 0
    IN  8 * h + on(1, 4) + on(2, 2) + on(3, 1)
-----------------------------------------------------------------------------
(* The frame buffer operations of each memory model.  An operation has the    *)
(* group x and line y it starts at, the groups and lines of its area, the     *)
(* line srcy it moves from, and pixels.                                       *)
Op(name, x, y) == [op |-> name, x |-> x, y |-> y, xlen |-> 1, ylen |-> 1, srcy |-> 0, pixels |-> Group]
Same(c) == <<c, c>>
Linear(m, op, base, stride, Stored(_)) ==
    LET dest == base + op.y * stride + op.x
    IN  CASE op.op = "write" -> [m EXCEPT ![dest] = <<Stored(op.pixels[1]), Stored(op.pixels[2])>>]
          [] op.op = "set" -> memset_stride(m, dest, Same(Stored(op.pixels[1])), op.xlen, stride, op.ylen)
          [] op.op = "move" -> memmove_stride(m, dest, base + op.srcy * stride + op.x, op.xlen, stride, op.ylen)
gfx_planar(v, m, op) == LET Plane(c) == c % 16 IN Linear(m, op, 0, v.mode.stride, Plane)
gfx_packed(v, m, op) == LET Byte8(c) == c % 256 IN Linear(m, op, 0, v.mode.stride, Byte8)
gfx_direct(v, m, op) == LET Color(c) == get_color(v.mode.depth, c) IN Linear(m, op, v.hw.start, v.mode.stride, Color)
\* Even lines in one bank and odd lines in another, each half as high.
gfx_cga(v, m, op) ==
    LET stride == v.mode.stride
        half == op.ylen \div 2
        dest == (op.y \div 2) * stride + op.x
        src == (op.srcy \div 2) * stride + op.x
        low(c) == c % (2^v.mode.depth)
    IN  CASE op.op = "write" ->
                [m EXCEPT ![dest + (op.y % 2) * Bank] = <<low(op.pixels[1]), low(op.pixels[2])>>]
          [] op.op = "set" ->
                memset_stride(memset_stride(m, dest, Same(low(op.pixels[1])), op.xlen, stride, half),
                              dest + Bank, Same(low(op.pixels[1])), op.xlen, stride, half)
          [] op.op = "move" ->
                memmove_stride(memmove_stride(m, dest, src, op.xlen, stride, half),
                               dest + Bank, src + Bank, op.xlen, stride, half)
handle_gfx_op(v, m, op) ==
    CASE v.mode.model = "planar" -> gfx_planar(v, m, op)
      [] v.mode.model = "cga"    -> gfx_cga(v, m, op)
      [] v.mode.model = "packed" -> gfx_packed(v, m, op)
      [] v.mode.model = "direct" -> gfx_direct(v, m, op)
GroupAt(v, x, y) ==
    CASE v.mode.model = "cga" -> (y \div 2) * v.mode.stride + x + (y % 2) * Bank
      [] v.mode.model = "direct" -> v.hw.start + y * v.mode.stride + x
      [] OTHER -> y * v.mode.stride + x
Pixels(v, cell) ==
    IF v.mode.model = "direct" THEN <<reverse_color(v.mode.depth, cell[1]), reverse_color(v.mode.depth, cell[2])>> ELSE cell
ReadGroup(v, m, x, y) == Pixels(v, m[GroupAt(v, x, y)])
-----------------------------------------------------------------------------
(* Characters in a graphics mode are drawn from the fonts of int 1f and 43.   *)
get_font_data(v, c) ==
    LET small == v.cheight = Eight /\ c >= 128
        font == Fonts[IF small THEN v.f1f ELSE v.f43]
        index == IF small THEN c - 128 ELSE c
    IN  [i \in 0..(v.cheight - 1) |->
            IF index \in DOMAIN font /\ (i + 1) \in DOMAIN font[index] THEN font[index][i + 1] ELSE {}]
Lit(lines, i, fg, bg) == <<IF 1 \in lines[i] THEN fg ELSE bg, IF 2 \in lines[i] THEN fg ELSE bg>>
gfx_move_chars(v, m, x, y, cols, rows, lines) ==
    handle_gfx_op(v, m, [Op("move", x, y * v.cheight) EXCEPT !.xlen = cols, !.ylen = rows * v.cheight,
                                                             !.srcy = (y + lines) * v.cheight])
Clearing(v, attr) == IF v.emul THEN attr \div 16 ELSE attr
gfx_clear_chars(v, m, x, y, cols, rows, ca) ==
    handle_gfx_op(v, m, [Op("set", x, y * v.cheight) EXCEPT !.xlen = cols, !.ylen = rows * v.cheight,
                                                            !.pixels = Same(Clearing(v, ca.attr))])
\* The foreground, the background and whether the glyph is XORed into the cell.
Guess(v, m, x, y) == ReadGroup(v, m, x, (y * v.cheight) + v.cheight - 1)[2]
Inks(v, m, x, y, ca) ==
    CASE v.emul /\ ca.use -> [fg |-> ca.attr % 16, bg |-> ca.attr \div 16, xor |-> FALSE]
      [] v.emul /\ ~ca.use -> [fg |-> Guess(v, m, x, y) ^^ 7, bg |-> Guess(v, m, x, y), xor |-> FALSE]
      [] ~v.emul /\ ca.attr >= 128 /\ v.mode.depth < 8 -> [fg |-> ca.attr % 128, bg |-> 0, xor |-> TRUE]
      [] OTHER -> [fg |-> ca.attr, bg |-> 0, xor |-> FALSE]
DrawGlyph(v, m, x, y, ink, glyph) ==
    LET row(i) == (y * v.cheight) + i
        px(g, i) == IF ink.xor THEN LET old == ReadGroup(v, g, x, row(i))
                                        on == Lit(glyph, i, ink.fg, 0)
                                    IN  <<old[1] ^^ on[1], old[2] ^^ on[2]>>
                    ELSE Lit(glyph, i, ink.fg, ink.bg)
        drawn(g, i) == handle_gfx_op(v, g, [Op("write", x, row(i)) EXCEPT !.pixels = px(g, i)])
        f[n \in 0..v.cheight] == IF n = 0 THEN m ELSE drawn(f[n - 1], n - 1)
    IN  f[v.cheight]
gfx_write_char(v, m, x, y, ca) ==
    IF x >= v.cols THEN m ELSE DrawGlyph(v, m, x, y, Inks(v, m, x, y, ca), get_font_data(v, ca.car))
\* The cell against each glyph in turn, from the blank one at 0, or from 1.
ReadGlyph(v, cell, bg) ==
    LET h == v.cheight
        marks == [i \in 0..(h - 1) |-> {j \in 1..2 : cell[i][j] # bg}]
        lit == {<<i, j>> \in (0..(h - 1)) \X (1..2) : j \in marks[i]}
        last == CHOOSE p \in lit : \A q \in lit : p[1] > q[1] \/ (p[1] = q[1] /\ p[2] >= q[2])
        fg == IF lit # {} THEN cell[last[1]][last[2]] ELSE IF v.emul THEN bg ^^ 7 ELSE 0
        found == {c \in Chars : (c > 0 \/ ~v.emul) /\ get_font_data(v, c) = marks}
    IN  IF found = {} THEN [car |-> 0, attr |-> 0]
        ELSE [car |-> CHOOSE c \in found : \A d \in found : c <= d, attr |-> fg + (bg * 16)]
gfx_read_char(v, m, x, y) ==
    LET h == v.cheight
    IN  IF x >= v.cols \/ h > MaxHeight THEN [car |-> 0, attr |-> 0]
        ELSE ReadGlyph(v, [i \in 0..(h - 1) |-> ReadGroup(v, m, x, (y * h) + i)], IF v.emul THEN Guess(v, m, x, y) ELSE 0)
vgafb_write_pixel(v, m, color, x, half, y) ==
    LET old == ReadGroup(v, m, x, y)
        new == IF color >= 128 /\ v.mode.depth < 8 THEN old[half] ^^ (color % 128) ELSE color
    IN  handle_gfx_op(v, m, [Op("write", x, y) EXCEPT !.pixels = [old EXCEPT ![half] = new]])
vgafb_read_pixel(v, m, x, half, y) == ReadGroup(v, m, x, y)[half]
-----------------------------------------------------------------------------
(* The same for text, and the window that scrolls.                            *)
vgafb_move_chars(v, m, page, x, y, cols, rows, lines) ==
    IF ~IsText(v) THEN gfx_move_chars(v, m, x, y, cols, rows, lines)
    ELSE memmove_stride(m, text_address(v, page, x, y), text_address(v, page, x, y) + (lines * v.cols), cols, v.cols, rows)
vgafb_clear_chars(v, m, page, x, y, cols, rows, ca) ==
    IF ~IsText(v) THEN gfx_clear_chars(v, m, x, y, cols, rows, ca)
    ELSE memset_stride(m, text_address(v, page, x, y), <<ca.car, IF ca.use THEN ca.attr ELSE 7>>, cols, v.cols, rows)
vgafb_scroll(v, m, page, x, y, cols, rows, lines, ca) ==
    CASE lines = 0 -> vgafb_clear_chars(v, m, page, x, y, cols, rows, ca)
      [] lines > 0 -> vgafb_clear_chars(v, vgafb_move_chars(v, m, page, x, y, cols, rows - lines, lines),
                                        page, x, y + rows - lines, cols, lines, ca)
      [] lines < 0 -> vgafb_clear_chars(v, vgafb_move_chars(v, m, page, x, y - lines, cols, rows + lines, lines),
                                        page, x, y, cols, -lines, ca)
vgafb_write_char(v, m, page, x, y, ca) ==
    LET a == text_address(v, page, x, y)
    IN  IF ~IsText(v) THEN gfx_write_char(v, m, x, y, ca)
        ELSE [m EXCEPT ![a] = <<ca.car, IF ca.use THEN ca.attr ELSE m[a][2]>>]
vgafb_read_char(v, m, page, x, y) ==
    IF ~IsText(v) THEN gfx_read_char(v, m, x, y)
    ELSE LET cell == m[text_address(v, page, x, y)] IN [car |-> cell[1], attr |-> cell[2]]
-----------------------------------------------------------------------------
(* Printing: a state of printing is the memory and the cursor.                *)
Ca(car, attr, use) == [car |-> car, attr |-> attr, use |-> use]
At2(m, x, y) == [m |-> m, x |-> x, y |-> y]
write_char(v, page, p, ca) ==
    LET wraps == p.x + 1 = v.cols
    IN  At2(vgafb_write_char(v, p.m, page, p.x, p.y, ca), IF wraps THEN 0 ELSE p.x + 1, IF wraps THEN p.y + 1 ELSE p.y)
\* Below the last row the page scrolls.
OnPage(v, page, q) ==
    IF q.y <= v.rows THEN q
    ELSE At2(vgafb_scroll(v, q.m, page, 0, 0, v.cols, v.rows + 1, 1, Ca(32, 0, FALSE)), q.x, q.y - 1)
write_teletype(v, page, p, ca) ==
    OnPage(v, page, CASE ca.car = 7 -> p
                      [] ca.car = 8 -> [p EXCEPT !.x = IF p.x > 0 THEN p.x - 1 ELSE 0]
                      [] ca.car = 13 -> [p EXCEPT !.x = 0]
                      [] ca.car = 10 -> [p EXCEPT !.y = p.y + 1]
                      [] OTHER -> write_char(v, page, p, ca))
Repeat(Write(_, _), p, cas) ==
    LET f[i \in 0..Len(cas)] == IF i = 0 THEN p ELSE Write(f[i - 1], cas[i]) IN f[Len(cas)]
-----------------------------------------------------------------------------
(* The cursor of a card without one: XORed into the pixels, or the two        *)
(* colours of the character exchanged, by the timer while no call runs.       *)
gfx_set_swcursor(v, m, x, y) ==
    LET shape == get_cursor_shape(v)
        lines == {i \in shape[1]..shape[2] : i < v.cheight}
        at(i) == GroupAt(v, x, (y * v.cheight) + i)
        turned(a) == LET px == Pixels(v, m[a]) IN <<px[1] ^^ 7, px[2] ^^ 7>>
        drawn(a) == LET px == turned(a)
                    IN  IF v.mode.model = "direct" THEN <<get_color(v.mode.depth, px[1]), get_color(v.mode.depth, px[2])>> ELSE px
    IN  [a \in {at(i) : i \in lines} |-> drawn(a)] @@ m
Swap(attr) == (attr \div 16) + ((attr % 16) * 16)
Visible(v) == LET p == v.pos[v.page] IN p[1] < v.cols /\ p[2] <= v.rows /\ v.ctype[1] < Off
set_swcursor(s, on) ==
    LET v == s.v  p == v.pos[v.page]  a == text_address(v, v.page, p[1], p[2])
    IN  IF v.sw = on \/ ~Visible(v) THEN s
        ELSE [v |-> [v EXCEPT !.sw = on],
              m |-> IF IsText(v) THEN [s.m EXCEPT ![a] = <<@[1], Swap(@[2])>>]
                    ELSE gfx_set_swcursor(v, s.m, p[1], p[2])]
\* Before the calls that use the frame buffer or the cursor.
swcursor_pre_handle10(s, ah) ==
    IF s.v.emul /\ ah \in ((0..2) \union (5..14) \union {19, 79}) THEN set_swcursor(s, FALSE) ELSE s
Before10(ah) == swcursor_pre_handle10([v |-> disp, m |-> vram], ah)
-----------------------------------------------------------------------------
(* Modes: what the card does, then the data area.                             *)
ModeFont(h) == IF h = Eight THEN "f8" ELSE "f16"
AllBlank(c) == [a \in 0..(VramSize - 1) |-> c]
ClearedMemory(v, m, mode, legacy, noclear) ==
    CASE noclear -> m
      [] mode.card # "std" /\ mode.model = "text" ->
            [a \in 0..((mode.cols * mode.rows) - 1) |-> <<32, 7>>] @@ m
      [] mode.card # "std" /\ mode.model # "text" /\ ~(legacy \/ v.extra) -> m
      [] mode.card # "std" /\ mode.model # "text" /\ (legacy \/ v.extra) ->
            handle_gfx_op([v EXCEPT !.mode = mode], m, [Op("set", 0, 0) EXCEPT !.xlen = mode.cols, !.ylen = mode.lines])
      [] OTHER -> AllBlank(IF mode.model = "text" THEN <<32, 7>> ELSE Group)
\* The registers of a standard card; the palette unless the caller keeps his.
ModePalette == [pal |-> 0, over |-> 0, blink |-> FALSE, paged |-> FALSE, page |-> 0]
Dac == [i \in 0..1 |-> IF i = 0 THEN <<0, 0, 0>> ELSE <<42, 21, 0>>]
Grey(rgb) == LET i == (((77 * rgb[1]) + (151 * rgb[2]) + (28 * rgb[3])) + 128) \div 256
             IN  LET j == IF i > 63 THEN 63 ELSE i IN <<j, j, j>>
stdvga_perform_gray_scale_summing(dac, first, count) ==
    [i \in DOMAIN dac |-> IF i \in first..(first + count - 1) THEN Grey(dac[i]) ELSE dac[i]]
stdvga_set_mode(v, mode) ==
    [v.hw EXCEPT !.attr = ModePalette, !.start = 0, !.cursor = 0, !.shape = <<0, 1>>, !.scan = mode.cheight,
                 !.block = 0, !.mask = IF v.nopalette THEN @ ELSE 255,
                 !.dac = IF v.nopalette THEN @ ELSE IF v.gray THEN stdvga_perform_gray_scale_summing(Dac, 0, 2) ELSE Dac]
vga_set_mode(v, mode, legacy, noclear) ==
    [v EXCEPT !.mode = mode, !.extra = legacy, !.emul = mode.emul, !.cols = mode.cols, !.rows = mode.rows - 1,
              !.ctype = IF mode.model = "text" \/ mode.emul THEN <<0, 1>> ELSE <<0, 0>>,
              !.pagesize = calc_page_size(mode.model, mode.cols, IF mode.model = "text" THEN mode.rows ELSE mode.lines),
              !.cheight = mode.cheight, !.scale = TRUE, !.kept = noclear, !.pos = [p \in Pages |-> <<0, 0>>],
              !.page = 0, !.pagestart = 0, !.f1f = "up8", !.f43 = ModeFont(mode.cheight),
              !.hw = IF mode.card = "std" THEN stdvga_set_mode(v, mode) ELSE [@ EXCEPT !.start = 0]]
-----------------------------------------------------------------------------
(* What a screen should show, by place: page, line (a row of text, a line of  *)
(* pixels) and column, and where the place lies in the frame buffer.          *)
TextLines(v) == 0..v.rows
Places(v) == IF IsText(v) THEN Pages \X TextLines(v) \X (0..(v.cols - 1))
             ELSE {0} \X (0..(Lines - 1)) \X (0..(v.cols - 1))
Where(v, p) == IF IsText(v) THEN text_address(v, p[1], p[3], p[2]) ELSE GroupAt(v, p[3], p[2])
\* Memory that is no place of the screen has its address for a place.
Beside(v) == {-1} \X ((0..(VramSize - 1)) \ {Where(v, p) : p \in Places(v)})
Look(v, m) == [p \in Places(v) |-> IF IsText(v) THEN m[Where(v, p)] ELSE Pixels(v, m[Where(v, p)])]
              @@ [p \in Beside(v) |-> m[p[2]]]
Height(v) == IF IsText(v) THEN 1 ELSE v.cheight
\* A scrolled window shows each line lines further down, or is blank there.
Scrolled(v, sc, page, x, y, cols, rows, lines, blank) ==
    LET h == Height(v)
        inside(p) == p[1] = (IF IsText(v) THEN page ELSE 0) /\ p \in DOMAIN sc /\ p[3] \in x..(x + cols - 1)
                     /\ p[2] \in (y * h)..((y + rows) * h - 1)
        from(p) == <<p[1], p[2] + (lines * h), p[3]>>
    IN  [p \in DOMAIN sc |-> IF ~inside(p) THEN sc[p] ELSE IF lines # 0 /\ inside(from(p)) THEN sc[from(p)] ELSE blank]
Limit(v) == IF IsText(v) THEN 256 ELSE IF v.mode.model = "cga" THEN 2^v.mode.depth ELSE IF v.mode.model = "packed" THEN 256 ELSE 16
Blanked(v, ca) == IF IsText(v) THEN <<ca.car, IF ca.use THEN ca.attr ELSE 7>> ELSE Same(Clearing(v, ca.attr) % Limit(v))
\* A written cell is the character, or the glyph in two colours over its lines.
Printed(v, sc, page, x, y, ca) ==
    IF IsText(v) THEN [sc EXCEPT ![<<page, y, x>>] = <<ca.car, IF ca.use THEN ca.attr ELSE @[2]>>]
    ELSE LET corner == sc[<<0, (y * v.cheight) + v.cheight - 1, x>>][2]
             glyph == get_font_data(v, ca.car)
             fg == IF ~v.emul THEN ca.attr % 128 ELSE IF ca.use THEN ca.attr % 16 ELSE corner ^^ 7
             bg == IF ~v.emul THEN 0 ELSE IF ca.use THEN ca.attr \div 16 ELSE corner
             over == ~v.emul /\ ca.attr >= 128 /\ v.mode.depth < 8
             full == IF v.emul \/ over THEN fg ELSE ca.attr
             cell(i, old) == [j \in 1..2 |-> IF over THEN (IF j \in glyph[i] THEN (old[j] ^^ fg) % Limit(v) ELSE old[j])
                                             ELSE (IF j \in glyph[i] THEN full ELSE bg) % Limit(v)]
         IN  [p \in DOMAIN sc |-> IF p[1] = 0 /\ p[3] = x /\ p[2] \in (y * v.cheight)..((y + 1) * v.cheight - 1)
                                  THEN cell(p[2] - (y * v.cheight), sc[p]) ELSE sc[p]]
\* A terminal of cols columns and rows rows that wraps and scrolls.
Terminal(v, page, t, ca) ==
    LET step == CASE ca.car = 7 -> t
                  [] ca.car = 8 -> [t EXCEPT !.x = IF t.x = 0 THEN 0 ELSE t.x - 1]
                  [] ca.car = 13 -> [t EXCEPT !.x = 0]
                  [] ca.car = 10 -> [t EXCEPT !.y = t.y + 1]
                  [] OTHER -> [sc |-> Printed(v, t.sc, page, t.x, t.y, ca),
                               x |-> (t.x + 1) % v.cols, y |-> t.y + ((t.x + 1) \div v.cols)]
    IN  IF step.y <= v.rows THEN step
        ELSE [sc |-> Scrolled(v, step.sc, page, 0, 0, v.cols, v.rows + 1, 1, Blanked(v, Ca(32, 0, FALSE))),
              x |-> step.x, y |-> v.rows]
-----------------------------------------------------------------------------
(* The calls.  A caller writes where the cursor is on the screen, keeps a     *)
(* count within the page, and loads a text font of another height on page 0.  *)
Call10 == asked < MaxVideo /\ asked' = asked + 1
OnScreen(v, page) == v.pos[page][1] < v.cols /\ v.pos[page][2] <= v.rows
LeaveAs(v, m) == disp' = v /\ vram' = m
Quiet == answer' = Nothing /\ UNCHANGED <<saved, stained>>
\* The register is replaced before its bit that keeps the contents is tested, so
\* they are always cleared.
handle_1000 ==
    \E mode \in {n \in Modes : n.card = disp.mode.card /\ n.legacy} : \E s \in {Before10(0)} :
        /\ Call10 /\ Quiet
        /\ LeaveAs(vga_set_mode(s.v, mode, TRUE, FALSE), ClearedMemory(s.v, s.m, mode, TRUE, FALSE))
        /\ screen' = Look(disp', vram')
vbe_104f02 ==
    \E mode \in {n \in Modes : n.card = disp.mode.card /\ ~n.legacy}, keep \in BOOLEAN : \E s \in {Before10(79)} :
        /\ Call10 /\ Quiet
        /\ LeaveAs(vga_set_mode(s.v, mode, FALSE, keep), ClearedMemory(s.v, s.m, mode, FALSE, keep))
        /\ screen' = Look(disp', vram')
handle_1001 ==
    \E shape \in Shapes : \E s \in {Before10(1)} :
        Call10 /\ Quiet /\ LeaveAs(set_cursor_shape(s.v, shape), s.m) /\ UNCHANGED screen
handle_1002 ==
    \E page \in Pages, x \in 0..disp.cols, y \in 0..(disp.rows + 1) : \E s \in {Before10(2)} :
        Call10 /\ Quiet /\ LeaveAs(set_cursor_pos(s.v, page, x, y), s.m) /\ UNCHANGED screen
handle_1003 ==
    \E page \in Pages :
        /\ Call10 /\ UNCHANGED <<disp, vram, screen, saved, stained>>
        /\ answer' = [kind |-> "cursor", page |-> page, pos |-> disp.pos[page], shape |-> disp.ctype]
handle_1005 ==
    \E page \in Pages : \E s \in {Before10(5)} :
        Call10 /\ Quiet /\ LeaveAs(set_active_page(s.v, page), s.m) /\ UNCHANGED screen
LinesOf(al, winrows, dir) == IF al >= winrows THEN 0 ELSE al * dir
verify_scroll(v, m, w, al, attr, dir) ==
    LET right == IF w[3] >= v.cols THEN v.cols - 1 ELSE w[3]
        low == IF w[4] > v.rows THEN v.rows ELSE w[4]
        cols == right - w[1] + 1
        rows == low - w[2] + 1
    IN  IF cols <= 0 \/ rows <= 0 THEN m
        ELSE vgafb_scroll(v, m, v.page, w[1], w[2], cols, rows, LinesOf(al, rows, dir), Ca(32, attr, TRUE))
ScrollSeen(v, sc, w, al, attr, dir) ==
    LET cols == (IF w[3] < v.cols THEN w[3] ELSE v.cols - 1) - w[1] + 1
        rows == (IF w[4] <= v.rows THEN w[4] ELSE v.rows) - w[2] + 1
    IN  Scrolled(v, sc, v.page, w[1], w[2], cols, rows, IF al < rows THEN al * dir ELSE 0, Blanked(v, Ca(32, attr, TRUE)))
handle_1006 ==
    \E w \in Windows, al \in 0..2, dir \in {1, -1} : \E s \in {Before10(IF dir = 1 THEN 6 ELSE 7)} :
        /\ Call10 /\ Quiet
        /\ LeaveAs(s.v, verify_scroll(s.v, s.m, w, al, Paper, dir))
        /\ screen' = ScrollSeen(s.v, screen, w, al, Paper, dir)
handle_1008 ==
    \E page \in Pages : \E s \in {Before10(8)} :
        /\ OnScreen(disp, page) /\ Call10 /\ LeaveAs(s.v, s.m) /\ UNCHANGED <<screen, saved, stained>>
        /\ answer' = [kind |-> "char", page |-> page, pos |-> disp.pos[page],
                      ca |-> vgafb_read_char(s.v, s.m, page, disp.pos[page][1], disp.pos[page][2])]
\* 1009 with the attribute, 100a without; two characters, or one in the last place.
handle_1009 ==
    \E page \in Pages, car \in {c \in Chars : c > 31}, attr \in Attrs, use \in BOOLEAN : \E s \in {Before10(9)} :
        LET p == disp.pos[page]
            rest == ((disp.rows + 1) * disp.cols) - ((p[2] * disp.cols) + p[1])
            cas == [i \in 1..(IF rest > 1 THEN 2 ELSE 1) |-> Ca(car, attr, use)]
            W(q, ca) == write_char(s.v, page, q, ca)
            T(t, ca) == [sc |-> Printed(s.v, t.sc, page, t.x, t.y, ca),
                         x |-> (t.x + 1) % s.v.cols, y |-> t.y + ((t.x + 1) \div s.v.cols)]
        IN  /\ OnScreen(disp, page) /\ Call10 /\ Quiet
            /\ LeaveAs(s.v, Repeat(W, At2(s.m, p[1], p[2]), cas).m)
            /\ screen' = Repeat(T, [sc |-> screen, x |-> p[1], y |-> p[2]], cas).sc
handle_100c ==
    \E color \in Attrs, x \in 0..(disp.cols - 1), half \in 1..2, y \in 0..1 : \E s \in {Before10(12)} :
        /\ ~IsText(disp) /\ Call10 /\ Quiet
        /\ LeaveAs(s.v, vgafb_write_pixel(s.v, s.m, color, x, half, y))
        /\ screen' = [screen EXCEPT ![<<0, y, x>>][half] =
                        IF color >= 128 /\ s.v.mode.depth < 8 THEN (@ ^^ (color % 128)) % Limit(s.v) ELSE color % Limit(s.v)]
handle_100d ==
    \E x \in 0..(disp.cols - 1), half \in 1..2, y \in 0..1 : \E s \in {Before10(13)} :
        /\ ~IsText(disp) /\ Call10 /\ LeaveAs(s.v, s.m) /\ UNCHANGED <<screen, saved, stained>>
        /\ answer' = [kind |-> "pixel", at |-> <<0, y, x>>, half |-> half, color |-> vgafb_read_pixel(s.v, s.m, x, half, y)]
\* Teletype, on the page that is shown.
handle_100e ==
    \E car \in Chars, attr \in Attrs : \E s \in {Before10(14)} :
        LET p == s.v.pos[s.v.page]
            ca == Ca(car, attr, FALSE)
        IN  /\ OnScreen(disp, disp.page) /\ Call10 /\ UNCHANGED <<saved, stained>>
            /\ \E q \in {write_teletype(s.v, s.v.page, At2(s.m, p[1], p[2]), ca)} :
                   LeaveAs(set_cursor_pos(s.v, s.v.page, q.x, q.y), q.m)
            /\ \E t \in {Terminal(s.v, s.v.page, [sc |-> screen, x |-> p[1], y |-> p[2]], ca)} :
                   screen' = t.sc /\ answer' = [kind |-> "at", page |-> s.v.page, pos |-> <<t.x, t.y>>]
handle_1013 ==
    \E page \in Pages, str \in Strings, move \in BOOLEAN : \E s \in {Before10(19)} :
        LET p == s.v.pos[page]
            cas == [i \in 1..2 |-> Ca(str[i], Paper, TRUE)]
            W(q, ca) == write_teletype(s.v, page, q, ca)
            T(t, ca) == Terminal(s.v, page, t, ca)
        IN  /\ OnScreen(disp, page) /\ Call10 /\ UNCHANGED <<saved, stained>>
            /\ \E q \in {Repeat(W, At2(s.m, p[1], p[2]), cas)} :
                   LeaveAs(IF move THEN set_cursor_pos(s.v, page, q.x, q.y) ELSE s.v, q.m)
            /\ \E t \in {Repeat(T, [sc |-> screen, x |-> p[1], y |-> p[2]], cas)} :
                   /\ screen' = t.sc
                   /\ answer' = IF move THEN [kind |-> "at", page |-> page, pos |-> <<t.x, t.y>>] ELSE Nothing
-----------------------------------------------------------------------------
(* Palette, fonts, switches, and the state a caller saves.                    *)
Register(hw) == Call10 /\ disp' = [disp EXCEPT !.hw = hw] /\ UNCHANGED <<vram, screen, saved, stained>>
Select(a, data) == [a EXCEPT !.page = (IF a.paged THEN data ELSE 4 * data) % 16]
PageRead(a) == IF a.paged THEN a.page ELSE a.page \div 4
handle_1010 ==
    /\ Std(disp) /\ IsText(disp)
    /\ \/ \E c \in {1, 2} : Register([disp.hw EXCEPT !.attr.pal = c]) /\ answer' = Nothing
       \/ \E c \in {1, 2} : Register([disp.hw EXCEPT !.attr.over = c]) /\ answer' = Nothing
       \/ \E b \in BOOLEAN : Register([disp.hw EXCEPT !.attr.blink = b]) /\ answer' = Nothing
       \/ \E b \in BOOLEAN : Register([disp.hw EXCEPT !.attr.paged = b]) /\ answer' = Nothing
       \/ \E n \in {1, 3} : /\ Register([disp.hw EXCEPT !.attr = Select(@, n)])
                            /\ answer' = [kind |-> "dacpage", page |-> n]
       \/ \E i \in 0..1 : Register([disp.hw EXCEPT !.dac[i] = <<63, 0, 21>>]) /\ answer' = Nothing
       \/ \E i \in 0..1 : /\ Register([disp.hw EXCEPT !.dac = stdvga_perform_gray_scale_summing(@, i, 1)])
                          /\ answer' = Nothing
       \/ \E b \in {0, 255} : Register([disp.hw EXCEPT !.mask = b]) /\ answer' = Nothing
\* Text fonts of the card; 1x also set the lines of a character.
handle_101100 == \E b \in {0, 1} : Std(disp) /\ IsText(disp) /\ Register([disp.hw EXCEPT !.block = b]) /\ answer' = Nothing
handle_101110 ==
    \E lines \in {Eight, 2 * Eight} :
        /\ Std(disp) /\ IsText(disp) /\ disp.page = 0 /\ Call10 /\ Quiet
        /\ LeaveAs(set_scan_lines(disp, lines), vram) /\ screen' = Look(disp', vram')
handle_101120 == \E f \in {"up8", "user"} : Call10 /\ Quiet /\ LeaveAs([disp EXCEPT !.f1f = f], vram) /\ UNCHANGED screen
load_gfx_font(v, font, height, rows) == [v EXCEPT !.f43 = font, !.rows = rows - 1, !.cheight = height]
handle_101121 ==
    \E font \in {"f8", "f16", "user"}, rows \in 1..2 :
        LET h == IF font = "f16" THEN 2 * Eight ELSE Eight
        IN  /\ ~IsText(disp) /\ rows * h <= Lines /\ Call10
            /\ LeaveAs(load_gfx_font(disp, font, h, rows), vram)
            /\ screen' = Look(disp', vram') /\ stained' = (stained \/ disp.sw) /\ answer' = Nothing /\ UNCHANGED saved
handle_1012 ==
    /\ Call10 /\ answer' = Nothing /\ UNCHANGED <<vram, screen, saved>>
    /\ \/ \E b \in BOOLEAN : disp' = [disp EXCEPT !.nopalette = b] /\ UNCHANGED stained
       \/ \E b \in BOOLEAN : disp' = [disp EXCEPT !.gray = ~b] /\ UNCHANGED stained
       \/ \E b \in BOOLEAN : disp' = [disp EXCEPT !.scale = ~b] /\ stained' = (stained \/ disp.sw)
\* BIOS data, and on a standard card the registers with it; the colour page and
\* the flags of the software cursor are not among them.
BdaParts(v) == [mode |-> v.mode, cols |-> v.cols, rows |-> v.rows, pagesize |-> v.pagesize, page |-> v.page,
                pagestart |-> v.pagestart, pos |-> v.pos, ctype |-> v.ctype, cheight |-> v.cheight, scale |-> v.scale,
                f1f |-> v.f1f, f43 |-> v.f43]
bda_save_restore(v, b) ==
    [v EXCEPT !.mode = b.mode, !.cols = b.cols, !.rows = b.rows, !.pagesize = b.pagesize, !.page = b.page,
              !.pagestart = b.pagestart, !.pos = b.pos, !.ctype = b.ctype, !.cheight = b.cheight, !.scale = b.scale,
              !.f1f = b.f1f, !.f43 = b.f43]
HwRestored(hw, old) == [old EXCEPT !.attr.page = hw.attr.page]
handle_101cSave ==
    /\ Call10 /\ saved' = [bda |-> BdaParts(disp), hw |-> disp.hw] /\ answer' = Nothing /\ UNCHANGED <<disp, vram, screen, stained>>
handle_101cRestore ==
    /\ saved # Nothing /\ Call10
    /\ LET v == bda_save_restore(disp, saved.bda)
       IN  LeaveAs(IF Std(disp) THEN [v EXCEPT !.hw = HwRestored(disp.hw, saved.hw)] ELSE v, vram)
    /\ screen' = Look(disp', vram') /\ stained' = (stained \/ disp.sw) /\ answer' = Nothing /\ UNCHANGED saved
-----------------------------------------------------------------------------
\* The timer turns the drawn cursor on and off between calls.
swcursor_check_event ==
    \E on \in BOOLEAN : \E s \in {set_swcursor([v |-> disp, m |-> vram], on)} :
        /\ disp.emul /\ s.v # disp /\ LeaveAs(s.v, s.m) /\ UNCHANGED <<screen, answer, saved, stained, asked>>

\* A card of which int 10h just set the mode and whose screen the guest has filled, every
\* cell with something else.
Filled(v, a) == IF IsText(v) THEN <<a + 40, (a % 3) + 16>>
                ELSE LET px == <<a % Limit(v), (a \div 2) % Limit(v)>>
                     IN  IF v.mode.model = "direct" THEN [i \in 1..2 |-> get_color(v.mode.depth, px[i])] ELSE px
Powered(mode) ==
    vga_set_mode([mode |-> mode, extra |-> TRUE, emul |-> mode.emul, sw |-> FALSE, cols |-> 0, rows |-> 0, ctype |-> <<0, 1>>,
                  pagesize |-> 0, cheight |-> 0, scale |-> TRUE, kept |-> FALSE, pos |-> <<>>, page |-> 0, pagestart |-> 0,
                  f1f |-> "up8", f43 |-> "f8", gray |-> FALSE, nopalette |-> FALSE,
                  hw |-> [attr |-> ModePalette, start |-> 0, cursor |-> 0, shape |-> <<0, 1>>, scan |-> 0, block |-> 0,
                          mask |-> 255, dac |-> Dac]],
                 mode, TRUE, FALSE)
VgaInit ==
    /\ \E mode \in {m \in Modes : m.legacy} : disp = Powered(mode)
    /\ vram = [a \in 0..(VramSize - 1) |-> IF \E p \in Places(disp) : Where(disp, p) = a THEN Filled(disp, a) ELSE Group]
    /\ screen = Look(disp, vram)
    /\ answer = Nothing /\ saved = Nothing /\ stained = FALSE /\ asked = 0
VgaNext ==
    \/ handle_1000 \/ vbe_104f02 \/ handle_1001 \/ handle_1002 \/ handle_1003 \/ handle_1005 \/ handle_1006
    \/ handle_1008 \/ handle_1009 \/ handle_100c \/ handle_100d \/ handle_100e \/ handle_1013
    \/ handle_1010 \/ handle_101100 \/ handle_101110 \/ handle_101120 \/ handle_101121 \/ handle_1012
    \/ handle_101cSave \/ handle_101cRestore \/ swcursor_check_event
-----------------------------------------------------------------------------
(* What should hold.                                                          *)
\* Every place of the screen shows what the calls left there, but for the
\* cursor while it is drawn, and no other memory is written.
ScreenShown == LET s == set_swcursor([v |-> disp, m |-> vram], FALSE) IN Look(s.v, s.m) = screen
\* A card with a cursor shows it at the cursor of the page it shows, and starts
\* the screen at that page; a scaled shape lies within the character.
CursorFollows ==
    Std(disp) /\ IsText(disp) =>
        /\ disp.hw.start = disp.pagestart /\ disp.pagestart = text_address(disp, disp.page, 0, 0)
        /\ disp.hw.cursor = text_address(disp, disp.page, disp.pos[disp.page][1], disp.pos[disp.page][2])
        /\ LET shape == get_cursor_shape(disp) IN shape[1] < Off => shape[1] <= shape[2] /\ shape[2] < disp.cheight
\* What is read is what is shown: the character of a cell of two colours, a
\* pixel, the place a string ended at, the colour page.
Colors(sc, x, y, h) == UNION {{sc[<<0, i, x>>][j] : j \in 1..2} : i \in (y * h)..((y + 1) * h - 1)}
CharRead(x, y, ca) ==
    IF IsText(disp) THEN screen[<<answer.page, y, x>>] = <<ca.car, ca.attr>>
    ELSE ca.car # 0 /\ Cardinality(Colors(screen, x, y, disp.cheight)) <= 2 =>
            LET glyph == get_font_data(disp, ca.car)
            IN  \A i \in 0..(disp.cheight - 1) :
                    screen[<<0, (y * disp.cheight) + i, x>>] = Lit(glyph, i, IF disp.emul THEN ca.attr % 16 ELSE ca.attr, IF disp.emul THEN ca.attr \div 16 ELSE 0)
ReadsRight ==
    CASE answer.kind = "char" -> CharRead(answer.pos[1], answer.pos[2], answer.ca)
      [] answer.kind = "pixel" -> screen[answer.at][answer.half] = answer.color
      [] answer.kind = "at" -> disp.pos[answer.page] = answer.pos
      [] answer.kind = "dacpage" -> PageRead(disp.hw.attr) = answer.page
      [] OTHER -> TRUE
\* While no call changed the place of a drawn cursor under it, the screen shows
\* what the calls should have left, the cursor is where it should be, and what
\* is read back is right.
ScreenRight == ~stained => ScreenShown /\ CursorFollows /\ ReadsRight
==========================================================================
