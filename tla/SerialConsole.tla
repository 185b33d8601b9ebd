---------------------------- MODULE SerialConsole ----------------------------
(* The serial console: int 10h calls shown on a terminal by way of a buffer   *)
(* of one character and a cursor that is moved only when it must be, and the  *)
(* bytes of the terminal turned into keys.                                    *)
EXTENDS Integers, Sequences, FiniteSets

CONSTANTS Rows, Cols,   \* the size of the screen
          Glyphs,       \* characters that are printed
          Seqs,         \* the byte sequences that stand for a key, after the escape
          Bytes,        \* bytes the terminal sends
          Buffer,       \* bytes rx_buf holds
          MaxPrints,    \* calls of a behaviour
          MaxBytes      \* bytes of a behaviour

VARIABLES con,     \* variables of the console, the BIOS cursor and the terminal
          ideal,    \* the characters the calls should have left on the screen
          lost,    \* a call was made that the console does not follow
          prints,
          rx,      \* bytes read and not yet turned into keys
          wire,    \* bytes on the line
          keys,    \* the bytes of each key that was made
          heard,   \* all bytes that were put into rx
          pauses   \* places in heard after which a poll found nothing new while bytes waited

outVars == <<con, ideal, lost, prints>>
inVars == <<rx, wire, keys, heard, pauses>>
serVars == <<outVars, inVars>>

Nil == 32
Squares == (0..(Rows - 1)) \X (0..(Cols - 1))
Empty == [p \in Squares |-> Nil]
Least(a, b) == IF a < b THEN a ELSE b
Raised(cells) == [p \in Squares |-> IF p[1] = Rows - 1 THEN Nil ELSE cells[<<p[1] + 1, p[2]>>]]
-----------------------------------------------------------------------------
(* The terminal: it keeps its cursor in the last column, and scrolls when a   *)
(* line feed is sent in the last row.                                         *)
Terminal0 == [row |-> 0, col |-> 0, attr |-> 7, cells |-> Empty]
TermPut(t, ch) == [t EXCEPT !.cells[<<t.row, t.col>>] = ch, !.col = Least(t.col + 1, Cols - 1)]
TermLf(t) == IF t.row = Rows - 1 THEN [t EXCEPT !.cells = Raised(@)] ELSE [t EXCEPT !.row = @ + 1]
TermBack(t) == [t EXCEPT !.col = IF @ > 0 THEN @ - 1 ELSE 0]
-----------------------------------------------------------------------------
(* Output.                                                                    *)
sercon_term_cursor_goto(c, row, col) == [c EXCEPT !.t.row = Least(row, Rows - 1), !.t.col = Least(col, Cols - 1)]
sercon_term_clear_screen(c) == [c EXCEPT !.t.cells = Empty]
sercon_term_reset(c) == [c EXCEPT !.t = Terminal0]
sercon_set_attr(c, attr) == IF attr = c.attr_last THEN c ELSE [c EXCEPT !.attr_last = attr, !.t.attr = attr]
sercon_print_utf8(c, chr, n) ==
    LET f[i \in 0..n] == IF i = 0 THEN c.t ELSE TermPut(f[i - 1], chr) IN [c EXCEPT !.t = f[n]]
\* In split mode the VGA BIOS moves the cursor after the console returns.
sercon_cursor_pos_set(c, row, col) == IF c.split THEN c ELSE [c EXCEPT !.row = row, !.col = col]
Synced(c) == c.row_last = c.row /\ c.col_last = c.col
\* To the start of a line below: a return and line feeds, which scroll; else by
\* its address. A scroll the screen made and the terminal does not is missed.
LineFeeds(c, n) ==
    LET f[i \in 0..n] == IF i = 0 THEN c.t ELSE TermLf(f[i - 1]) IN [c EXCEPT !.t = f[n], !.row_last = @ + n]
sercon_lazy_cursor_sync(c) ==
    LET near == c.col = 0 /\ c.row_last <= c.row
        start == IF c.col_last # 0 THEN [c EXCEPT !.t.col = 0, !.col_last = 0] ELSE c
        d == IF near THEN LineFeeds(start, c.row - c.row_last) ELSE c
        below == c.t.row + (c.row - c.row_last) - (Rows - 1)
        made == IF near /\ below > 0 THEN below ELSE 0
        s == IF Synced(d) THEN d
             ELSE [sercon_term_cursor_goto(d, c.row, c.col) EXCEPT !.row_last = c.row, !.col_last = c.col]
    IN  [s EXCEPT !.owed = 0, !.missed = @ \/ c.owed # made]
\* Broken variant: the character stays in the buffer.
sercon_lazy_flushAgain(c) ==
    LET p == IF c.char = 0 THEN c
             ELSE [sercon_print_utf8(sercon_set_attr(c, c.attr), c.char, 1) EXCEPT !.col_last = @ + 1]
    IN  [sercon_lazy_cursor_sync(p) EXCEPT !.attr = 7]
sercon_lazy_flush(c) ==
    LET p == IF c.char = 0 THEN c
             ELSE [sercon_print_utf8(sercon_set_attr(c, c.attr), c.char, 1) EXCEPT !.col_last = @ + 1]
    IN  [sercon_lazy_cursor_sync(p) EXCEPT !.attr = 7, !.char = 0]
sercon_lazy_backspace(c) ==
    LET f == sercon_lazy_flush(c)
    IN  IF f.col = 0 THEN f
        ELSE [sercon_cursor_pos_set([f EXCEPT !.t = TermBack(@)], f.row, f.col - 1)
                EXCEPT !.row_last = f.row, !.col_last = f.col - 1]
sercon_lazy_cr(c) == sercon_cursor_pos_set(c, c.row, 0)
\* At the bottom the screen will scroll: what was last sent lies a row higher.
sercon_lazy_lf(c) ==
    IF c.row + 1 < Rows THEN sercon_cursor_pos_set(c, c.row + 1, c.col)
    ELSE sercon_cursor_pos_set([c EXCEPT !.row_last = IF @ > 0 THEN @ - 1 ELSE 0, !.owed = @ + 1,
                                         !.missed = @ \/ c.row_last = 0], Rows - 1, c.col)
sercon_lazy_move_cursor(c) ==
    IF c.col + 1 >= Cols THEN sercon_lazy_lf(sercon_lazy_cr(c)) ELSE sercon_cursor_pos_set(c, c.row, c.col + 1)
sercon_lazy_putchar(c, chr, attr, teletype) ==
    LET f == [(IF Synced(c) THEN c ELSE sercon_lazy_flush(c)) EXCEPT !.char = chr]
    IN  IF teletype THEN sercon_lazy_move_cursor(f) ELSE [f EXCEPT !.attr = attr]
-----------------------------------------------------------------------------
(* The calls, and what they should leave on a screen.                         *)
Ask == prints < MaxPrints /\ prints' = prints + 1
\* The VGA BIOS of split mode puts the cursor where a teletype puts it.
Followed(c, row, col) == IF c.split THEN [c EXCEPT !.row = row, !.col = col] ELSE c
\* A character still in the buffer is not dropped and will show on the new screen.
sercon_1000 ==
    /\ Ask /\ ideal' = Empty /\ lost' = (con.char # 0)
    /\ con' = sercon_term_reset([con EXCEPT !.row = 0, !.col = 0, !.col_last = 0, !.row_last = 0, !.attr_last = 0,
                                            !.owed = 0, !.missed = FALSE])
sercon_1002 ==
    \E row \in 0..(Rows - 1), col \in 0..(Cols - 1) :
        Ask /\ con' = [con EXCEPT !.row = row, !.col = col] /\ UNCHANGED <<ideal, lost>>
\* Clearing the whole screen; any other window is not followed, and a scroll
\* sends one line feed from wherever the terminal is.
sercon_1006 ==
    /\ Ask
    /\ \/ /\ con' = sercon_term_clear_screen(sercon_set_attr(sercon_lazy_flush(con), 7))
          /\ ideal' = Empty /\ UNCHANGED lost
       \/ /\ con' = sercon_lazy_flush(con) /\ lost' = TRUE /\ UNCHANGED ideal
       \/ /\ con' = [sercon_lazy_flush(con) EXCEPT !.t = TermLf([@ EXCEPT !.col = 0])]
          /\ lost' = TRUE /\ UNCHANGED ideal
\* A character at the cursor, as often as asked, within its line.
Overwritten(chr, n) == [p \in Squares |-> IF p[1] = con.row /\ p[2] \in con.col..(con.col + n - 1) THEN chr ELSE ideal[p]]
sercon_1009 ==
    \/ \E chr \in Glyphs, attr \in {7, 15} :
          /\ Ask /\ con' = sercon_lazy_putchar(con, chr, attr, FALSE)
          /\ ideal' = Overwritten(chr, 1) /\ UNCHANGED lost
    \/ /\ Ask /\ con.row = 0 /\ con.col = 0 /\ ideal' = Empty /\ UNCHANGED lost
       /\ con' = sercon_term_clear_screen(sercon_set_attr(sercon_lazy_flush(con), 15))
    \/ \E chr \in Glyphs, n \in 2..Cols :
          LET f == sercon_print_utf8(sercon_set_attr(sercon_lazy_flush(con), 15), chr, n)
          IN  /\ Ask /\ con' = sercon_term_cursor_goto(f, con.row, con.col)
              /\ ideal' = Overwritten(chr, n) /\ lost' = (lost \/ con.col + n > Cols)
\* A teletype; the screen scrolls when it goes below the last row.
Scrolls(row) == row > Rows - 1
Teletyped(row, cells) ==
    ideal' = (IF Scrolls(row) THEN Raised(cells) ELSE cells) /\ UNCHANGED lost
ToLine(row) == Least(row, Rows - 1)
sercon_100e ==
    \/ /\ Ask /\ con.col > 0 /\ con' = Followed(sercon_lazy_backspace(con), con.row, con.col - 1) /\ UNCHANGED <<ideal, lost>>
    \/ /\ Ask /\ con.col = 0 /\ con' = sercon_lazy_backspace(con) /\ UNCHANGED <<ideal, lost>>
    \/ /\ Ask /\ con' = Followed(sercon_lazy_cr(con), con.row, 0) /\ UNCHANGED <<ideal, lost>>
    \/ /\ Ask /\ con' = Followed(sercon_lazy_lf(con), ToLine(con.row + 1), con.col)
       /\ Teletyped(con.row + 1, ideal)
    \/ \E chr \in Glyphs :
          LET wraps == con.col = Cols - 1
              row == IF wraps THEN con.row + 1 ELSE con.row
              col == IF wraps THEN 0 ELSE con.col + 1
          IN  /\ Ask /\ con' = Followed(sercon_lazy_putchar(con, chr, 0, TRUE), ToLine(row), col)
              /\ Teletyped(row, [ideal EXCEPT ![<<con.row, con.col>>] = chr])
\* Between calls whoever waits for a key has the buffer sent.
Flushed == con' = sercon_lazy_flush(con) /\ con' # con /\ UNCHANGED <<ideal, lost, prints>>
SerOutNext == sercon_1000 \/ sercon_1002 \/ sercon_1006 \/ sercon_1009 \/ sercon_100e \/ Flushed
-----------------------------------------------------------------------------
(* Input: bytes are read while there is room, known sequences become a key,   *)
(* an escape waits for more unless the line has fallen silent.                *)
Escape == "esc"
Drop(s, n) == SubSeq(s, n + 1, Len(s))
cmpbuf(buf, seq) == Len(buf) >= Len(seq) + 1 /\ SubSeq(buf, 2, Len(seq) + 1) = seq
findseq(buf) == {seq \in Seqs : cmpbuf(buf, seq)}
\* The bytes one turn of the loop takes, 0 when it waits.
Eaten(buf, fresh) ==
    CASE buf = <<>> -> 0
      [] buf # <<>> /\ Len(buf) > 1 /\ buf[1] = Escape /\ findseq(buf) # {} -> 1 + Len(CHOOSE seq \in findseq(buf) : TRUE)
      [] buf # <<>> /\ buf[1] = Escape /\ (Len(buf) = 1 \/ findseq(buf) = {}) /\ fresh -> 0
      [] OTHER -> 1
Loop(buf, fresh) ==
    LET f[i \in 0..Len(buf)] ==
            IF i = 0 THEN [buf |-> buf, keys |-> <<>>]
            ELSE LET g == f[i - 1]  n == Eaten(g.buf, fresh)
                 IN  IF n = 0 THEN g ELSE [buf |-> Drop(g.buf, n), keys |-> Append(g.keys, SubSeq(g.buf, 1, n))]
    IN  f[Len(buf)]
Arrive == \E b \in Bytes : Len(heard) + Len(wire) < MaxBytes /\ wire' = Append(wire, b) /\ UNCHANGED <<rx, keys, heard, pauses>>
sercon_check_event ==
    LET room == Least(Buffer - Len(rx), Len(wire))
        buf == rx \o SubSeq(wire, 1, room)
        done == Loop(buf, room > 0)
    IN  /\ wire' = <<>> /\ rx' = done.buf /\ keys' = keys \o done.keys
        /\ heard' = heard \o SubSeq(wire, 1, room)
        /\ pauses' = IF room = 0 /\ rx # <<>> THEN pauses \union {Len(heard)} ELSE pauses
        /\ con' = sercon_lazy_flush(con) /\ UNCHANGED <<ideal, lost, prints>>
SerInNext == (Arrive /\ UNCHANGED outVars) \/ sercon_check_event

Console0(split) ==
    [split |-> split, row |-> 0, col |-> 0, row_last |-> 0, col_last |-> 0, attr_last |-> 0, char |-> 0, attr |-> 7,
     owed |-> 0, missed |-> FALSE, t |-> Terminal0]
SerInit ==
    /\ \E split \in BOOLEAN : con = Console0(split)
    /\ ideal = Empty /\ lost = FALSE /\ prints = 0
    /\ rx = <<>> /\ wire = <<>> /\ keys = <<>> /\ heard = <<>> /\ pauses = {}
-----------------------------------------------------------------------------
\* Once the buffer is sent the terminal shows every character where a screen
\* would show it, and its cursor where the screen's cursor is; the attribute the
\* console believes it sent is the terminal's.
OutputFollows ==
    LET f == sercon_lazy_flush(con)
    IN  ~lost /\ ~f.missed =>
                               /\ f.t.cells = ideal
                               /\ f.t.row = con.row /\ f.t.col = con.col
                               /\ f.attr_last # 0 => f.t.attr = f.attr_last
\* No byte is lost or moved on its way to a key, and the bytes of a known
\* sequence make one key unless the line fell silent in the middle of it.
Joined(ks) == LET f[i \in 0..Len(ks)] == IF i = 0 THEN <<>> ELSE f[i - 1] \o ks[i] IN f[Len(ks)]
Before(ks, i) == Len(Joined(SubSeq(ks, 1, i - 1)))
InputFollows ==
    /\ Joined(keys) \o rx = heard
    /\ \A i \in 1..Len(keys), seq \in Seqs :
          LET at == Before(keys, i)
          IN  (keys[i] = <<Escape>> /\ Len(heard) > at + Len(seq) /\ SubSeq(heard, at + 2, at + 1 + Len(seq)) = seq)
                 => \E p \in pauses : p > at /\ p <= at + Len(seq)
\* The terminal shows the screen, and its keys are the ones that were pressed.
ConsoleRight == OutputFollows /\ InputFollows
==============================================================================
