------------------------------- MODULE VTerm -------------------------------
(***************************************************************************)
(* The terminal emulator behind the Deck's mirrored console: VTerm, the    *)
(* screen memory and its control functions, and the part of FbShell that   *)
(* paints it.  Rows are never copied when they scroll: linenumbers is      *)
(* permuted, the rows that leave at the top are copied into a ring of      *)
(* history lines, dirty ranges travel with the rows, and update() repaints *)
(* at the end of each read what the functions of that read have touched.   *)
(*                                                                         *)
(* vt holds the members of both objects; every control function is an      *)
(* operator from vt to vt.  A character stands for its glyph and its       *)
(* attributes together, and is one column wide; an escape sequence is the  *)
(* function it selects.  The panel of the Deck is turned by 270 degrees,   *)
(* for which the frame buffer never pans, so a painted row never moves.    *)
(***************************************************************************)
EXTENDS Integers, Sequences, FiniteSetsExt

CONSTANTS
  Width, Height,  \* columns and rows of the screen
  HistoryLines,   \* history_lines, the option history-lines
  Chars,          \* characters a program prints
  Repertoires,    \* bound: the sets of functions one program uses
  MaxRead,        \* bound: functions in one read
  MaxFunctions,   \* bound: functions in a behaviour
  MaxEvents       \* bound: views moved, shells switched and timer signals in a behaviour

ASSUME VTermAssumption ==
  /\ Width \in Nat \ {0} /\ Height \in Nat \ {0}
  /\ HistoryLines \in Nat

\* Columns, rows and history_lines are u16.
U16 == 65536
ASSUME ScreenAssumption == Width < U16 /\ Height < U16 /\ HistoryLines < U16

\* The numbers of the lines of memory are u16 too.  The option may be as large as
\* 65535; from 65536 - Height on, rows of the screen would be numbered like lines
\* of the ring.
Numbered == HistoryLines + Height <= U16

VARIABLES
  vt,       \* the members of VTerm and FbShell
  panel,    \* [shown: the glyphs on the panel, mark: cells underlined as cursor]
  reading,  \* functions of the read in progress, or -1 outside input()
  alarm,    \* a SIGALRM of the cursor timer waits to be read
  stray,    \* history: a SIGALRM was handled after its timer had been stopped
  uses,     \* the functions this behaviour uses
  functions, events  \* counts of what has happened

vars == <<vt, panel, reading, alarm, stray, uses, functions, events>>

Cols == 0 .. Width - 1
Rows == 0 .. Height - 1
Blank == " "
Least(a, b) == IF a < b THEN a ELSE b
Most(a, b) == IF a > b THEN a ELSE b
Clean == [lo |-> Width, hi |-> 0]
Whole == [lo |-> 0, hi |-> Width - 1]
BlankRow == [x \in Cols |-> Blank]
AlignRow == [x \in Cols |-> "E"]

-----------------------------------------------------------------------------
(* Screen memory. *)

TotalHistory(t) == IF t.full THEN HistoryLines ELSE t.save

\* mode(CursorVisible): not while the view is moved back.
CursorVisible(t) == t.visible /\ t.visual = TotalHistory(t)

\* get_line: the line of memory shown in row y of the view.
GetLine(t, y) ==
  LET line == (t.visual + y) % U16 IN
  IF line >= TotalHistory(t) THEN t.lines[line - TotalHistory(t)]
  ELSE ((IF t.full THEN t.save ELSE 0) + line) % HistoryLines

\* MUTANT: no limit.
MoveCursorAnywhere(t, x, y) == [t EXCEPT !.x = x, !.y = y]

MoveCursor(t, x, y) ==
  [t EXCEPT !.x = Least(x, Width - 1), !.y = Least(y, Height - 1)]

Widened(d, lo, hi) ==
  [lo |-> Least(d.lo, Least(lo, Width - 1)), hi |-> Most(d.hi, Least(hi, Width - 1))]

ChangedLine(t, y, lo, hi) ==
  IF y >= Height THEN t ELSE [t EXCEPT !.dirty[y] = Widened(@, lo, hi)]

ClearArea(t, x0, y0, x1, y1) ==
  IF x0 >= Width \/ x0 > x1 THEN t
  ELSE LET area == {y \in Rows : y0 <= y /\ y <= y1} IN
       [t EXCEPT
          !.text = [l \in DOMAIN t.text |->
                      IF \E y \in area : t.lines[y] = l
                      THEN [x \in Cols |-> IF x \in x0 .. x1 THEN Blank ELSE t.text[l][x]]
                      ELSE t.text[l]],
          !.dirty = [y \in Rows |->
                       IF y \in area THEN Widened(t.dirty[y], x0, x1) ELSE t.dirty[y]]]

\* MUTANT: the ring counts as full one line late.
HistoryScrollLate(t, num) ==
  LET new == [t EXCEPT !.text[t.save] = t.text[t.lines[0]],
                       !.save = (t.save + num) % HistoryLines,
                       !.full = t.full \/ t.save + num > HistoryLines]
  IN [new EXCEPT !.visual = TotalHistory(new)]

\* history_scroll: the top num rows are copied into the ring, the last of them
\* last; the view goes to the end.
HistoryScroll(t, num) ==
  IF HistoryLines = 0 THEN t
  ELSE LET Copied(l) == {i \in 0 .. num - 1 : (t.save + i) % HistoryLines = l}
           new == [t EXCEPT
                     !.text = [l \in DOMAIN t.text |->
                                 IF l < HistoryLines /\ Copied(l) # {}
                                 THEN t.text[t.lines[Max(Copied(l))]]
                                 ELSE t.text[l]],
                     !.save = (t.save + num) % HistoryLines,
                     !.full = t.full \/ t.save + num >= HistoryLines]
       IN [new EXCEPT !.visual = TotalHistory(new)]

\* scroll_region.  The line that leaves at one end is cleared and enters at the
\* other; when all of the region would leave, nothing is renumbered or cleared,
\* but the history has received it.
ScrollRegion(t, a, end, n) ==
  LET b == Least(end, Height - 1)
      mx == b - a + 1
      num == Most(Least(n, mx), -mx)
      fast == a = t.top /\ b = t.bot
      Takes(y) == IF y + num < a THEN y + num + mx
                  ELSE IF y + num > b THEN y + num - mx ELSE y + num
      entering == {y \in a .. b : y + num \notin a .. b}
      h == IF a = 0 /\ num > 0 THEN HistoryScroll(t, num) ELSE t
      p == [h EXCEPT !.pending = IF fast THEN @ + num ELSE @]
      m == [p EXCEPT
              !.lines = [y \in Rows |-> IF y \in a .. b THEN t.lines[Takes(y)] ELSE t.lines[y]],
              !.dirty = [y \in Rows |->
                           IF y \notin a .. b THEN t.dirty[y]
                           ELSE IF fast /\ y \notin entering THEN t.dirty[Takes(y)]
                           ELSE Whole]]
  IN IF n = 0 \/ a > b THEN t
     ELSE IF num \in {mx, -mx} THEN p
     ELSE ClearArea(m, 0, Min(entering), Width - 1, Max(entering))

\* shift_text: columns x0..Width-1 of row y move by n, blanks enter.
ShiftText(t, y, x0, n) ==
  LET row == t.text[t.lines[y]] IN
  ChangedLine(
    [t EXCEPT !.text[t.lines[y]] =
       [x \in Cols |-> IF x < x0 THEN row[x]
                       ELSE IF x - n \in x0 .. Width - 1 THEN row[x - n] ELSE Blank]],
    y, x0, Width - 1)

-----------------------------------------------------------------------------
(* Painting.  A screen is a record [t, p] of the terminal and the panel.    *)

\* drawChars on the cells of S, as <<column, row>>: only the shell on the panel
\* paints, and a painted cell has no underline.
Paint(t, p, S) ==
  IF ~t.active THEN p
  ELSE [shown |-> [y \in Rows |-> [x \in Cols |->
                     IF <<x, y>> \in S THEN <<t.text[GetLine(t, y)][x], t.inverse>>
                     ELSE p.shown[y][x]]],
        mark |-> p.mark \ S]

\* FbShell::updateCursor: the underline is inverted at the place last reported.
UpdateCursor(s) ==
  IF ~s.t.active \/ s.t.cx >= Width \/ s.t.cy >= Height THEN s
  ELSE [t |-> [s.t EXCEPT !.showed = ~@],
        p |-> [s.p EXCEPT !.mark = IF s.t.showed THEN @ \ {<<s.t.cx, s.t.cy>>}
                                   ELSE @ \cup {<<s.t.cx, s.t.cy>>}]]

\* draw_cursor and FbShell::drawCursor.
DrawCursor(s) ==
  IF ~CursorVisible(s.t) THEN s
  ELSE UpdateCursor([s EXCEPT !.t = [@ EXCEPT !.cx = s.t.x, !.cy = s.t.y, !.showed = FALSE]])

\* update(): nothing can be moved on this panel, so moveChars refuses and every
\* row of the scrolled region is repainted; for a shell that is not on the panel
\* moveChars has nothing to do.
Update(s) ==
  LET t == s.t
      mx == t.bot - t.top + 1
      scrolls == t.pending # 0 /\ t.pending < mx /\ -t.pending < mx
      first == IF t.pending < 0 THEN t.top - t.pending ELSE t.top
      last == IF t.pending < 0 THEN t.bot ELSE t.bot - t.pending
      Repaint(y) == IF scrolls /\ t.active /\ y \in first .. last THEN Whole ELSE t.dirty[y]
  IN [t |-> [t EXCEPT !.pending = 0, !.dirty = [y \in Rows |-> Clean]],
      p |-> Paint(t, s.p, {c \in Cols \X Rows : c[1] \in Repaint(c[2]).lo .. Repaint(c[2]).hi})]

\* FbShell::modeChanged(CursorVisible) and enableCursor.
ModeChanged(t) == IF t.active THEN [t EXCEPT !.timer = CursorVisible(t)] ELSE t

\* FbShell::expose of the whole screen: the cursor is drawn anew where it was
\* last reported.
Expose(s) ==
  LET painted == [s EXCEPT !.p = Paint(s.t, s.p, Cols \X Rows)] IN
  IF CursorVisible(s.t) /\ s.t.cx < Width /\ s.t.cy < Height
  THEN UpdateCursor([painted EXCEPT !.t.showed = FALSE]) ELSE painted

\* historyDisplay to row v of the history, or to its end.
HistoryDisplay(s, v) ==
  LET to == Most(0, Least(v, TotalHistory(s.t)))
      moved == ModeChanged([s.t EXCEPT !.visual = to])
  IN IF HistoryLines = 0 \/ to = s.t.visual THEN s
     ELSE DrawCursor([t |-> moved, p |-> Paint(moved, s.p, Cols \X Rows)])

-----------------------------------------------------------------------------
(* Control functions. *)

Cr(t) == MoveCursor(t, 0, t.y)

Lf(t) ==
  LET lower == IF t.y < t.bot THEN MoveCursor(t, t.x, t.y + 1)
               ELSE ScrollRegion(t, t.top, t.bot, 1)
  IN IF t.crlf THEN Cr(lower) ELSE lower

Bs(t) == IF t.x > 0 THEN MoveCursor(t, t.x - 1, t.y) ELSE t

\* The next stop, or the next multiple of eight; at the end of the row at most.
Tab(t) ==
  LET stops == {i \in t.stops : i > t.x /\ i < Width}
  IN MoveCursor(t, IF stops # {} THEN Min(stops) ELSE (((t.x + 8) \div 8) * 8) % U16, t.y)

SetTab(t) == [t EXCEPT !.stops = @ \cup {t.x}]
ClearTab(t, all) == [t EXCEPT !.stops = IF all THEN {} ELSE @ \ {t.x}]

SaveCursor(t) == [t EXCEPT !.sx = t.x, !.sy = t.y]
RestoreCursor(t) == MoveCursor(t, t.sx, t.sy)

NextLine(t) == Cr(Lf(t))
IndexUp(t) ==
  IF t.y > t.top THEN MoveCursor(t, t.x, t.y - 1) ELSE ScrollRegion(t, t.top, t.bot, -1)

\* cursor_left, cursor_right, cursor_up, cursor_down, and with a carriage return.
CursorBy(t, dx, dy) == MoveCursor(t, Most(0, t.x + dx), Most(0, t.y + dy))

\* cursor_position, counted from the top margin in relative mode.
CursorPosition(t, x, y) == MoveCursor(t, x, y + (IF t.relative THEN t.top ELSE 0))

InsertChar(t, n) ==
  IF n >= Width - t.x THEN ClearArea(t, t.x, t.y, Width - 1, t.y) ELSE ShiftText(t, t.y, t.x, n)
DeleteChar(t, n) ==
  IF n >= Width - t.x THEN ClearArea(t, t.x, t.y, Width - 1, t.y) ELSE ShiftText(t, t.y, t.x, -n)
EraseChar(t, n) == ClearArea(t, t.x, t.y, t.x + Least(n, Width - t.x) - 1, t.y)

\* The rows from the cursor to the bottom margin, as the unsigned count of the
\* code: below the margin it is huge and scroll_region does nothing.
RowsBelow(t) == (t.bot - t.y + 1) % U16
InsertLine(t, n) ==
  IF n >= RowsBelow(t) THEN ClearArea(t, 0, t.y, Width - 1, t.bot)
  ELSE ScrollRegion(t, t.y, t.bot, -n)
DeleteLine(t, n) ==
  IF n >= RowsBelow(t) THEN ClearArea(t, 0, t.y, Width - 1, t.bot)
  ELSE ScrollRegion(t, t.y, t.bot, n)

EraseLine(t, how) ==
  ClearArea(t, IF how = 0 THEN t.x ELSE 0, t.y, IF how = 1 THEN t.x ELSE Width - 1, t.y)

EraseDisplay(t, how) ==
  CASE how = 0 -> ClearArea(EraseLine(t, 0), 0, t.y + 1, Width - 1, Height - 1)
    [] how = 1 -> ClearArea(EraseLine(t, 1), 0, 0, Width - 1, t.y - 1)
    [] how = 2 -> ClearArea(t, 0, 0, Width - 1, Height - 1)

ScreenAlign(t) ==
  [t EXCEPT !.text = [l \in DOMAIN @ |-> IF \E y \in Rows : t.lines[y] = l THEN AlignRow ELSE @[l]],
            !.dirty = [y \in Rows |-> Whole]]

\* MUTANT: pending scrolling is left to the new margins.
SetMarginsAtOnce(s, top, bot) ==
  LET m == MoveCursor([s.t EXCEPT !.top = top, !.bot = bot], s.t.x, Most(top, s.t.y))
  IN [s EXCEPT !.t = IF m.y > bot THEN MoveCursor(m, m.x, bot) ELSE m]

\* set_margins takes any two rows, in any order, and a top margin below the screen;
\* scrolling that is pending under the old margins is carried out first.
SetMargins(s, top, bot) ==
  LET u == IF s.t.pending # 0 THEN Update(s) ELSE s
      b == IF bot < Height THEN bot ELSE Height - 1
      m == [u.t EXCEPT !.top = top, !.bot = b]
      low == IF m.y < top THEN MoveCursor(m, m.x, top) ELSE m
  IN [u EXCEPT !.t = IF low.y > b THEN MoveCursor(low, low.x, b) ELSE low]

\* enable_mode, for the modes that change what is shown or where.
EnableMode(t, mode, on) ==
  CASE mode = "crlf"     -> [t EXCEPT !.crlf = on]
    [] mode = "inverse"  -> [t EXCEPT !.inverse = on, !.dirty = [y \in Rows |-> Whole]]
    [] mode = "relative" -> [t EXCEPT !.relative = on]
    [] mode = "wrap"     -> [t EXCEPT !.wrap = on]
    [] mode = "visible"  -> ModeChanged([t EXCEPT !.visible = on])

\* The members that r names, and the others of t.
Over(r, t) == [f \in DOMAIN r \cup DOMAIN t |-> IF f \in DOMAIN r THEN r[f] ELSE t[f]]

\* What reset() gives to every member it names.
Defaults == [pending |-> 0, top |-> 0, bot |-> Height - 1, x |-> 0, y |-> 0, sx |-> 0, sy |-> 0,
             wrap |-> TRUE, crlf |-> FALSE, relative |-> FALSE, inverse |-> FALSE,
             visible |-> TRUE, stops |-> {}]

Reset(t) == ModeChanged(ClearArea(Over(Defaults, t), 0, 0, Width - 1, Height - 1))

\* do_normal_char: a full row wraps only when the next character comes.
DoNormalChar(t, c) ==
  LET u == IF t.x < Width THEN t
           ELSE IF t.wrap THEN NextLine(t) ELSE [t EXCEPT !.x = Width - 1]
      m == ChangedLine(u, u.y, u.x, u.x)
  IN [m EXCEPT !.text[m.lines[m.y]][m.x] = c, !.x = @ + 1]

-----------------------------------------------------------------------------

\* Another shell or console has drawn over the panel.
Other == [shown |-> [y \in Rows |-> [x \in Cols |-> <<"other", FALSE>>]], mark |-> {}]

\* The shell comes to the panel: setActive, then a redraw of everything.
Activated(s) == Expose([s EXCEPT !.t = ModeChanged([s.t EXCEPT !.active = TRUE])])

\* resize() from nothing to the size of the panel, the only one there is: each
\* row gets a line of memory behind the history and is cleared, hence dirty.
FirstResize == [text |-> [l \in 0 .. HistoryLines + Height - 1 |-> BlankRow],
                lines |-> [y \in Rows |-> (HistoryLines + y) % U16],
                dirty |-> [y \in Rows |-> Whole]]

\* A new shell.  It comes to the panel at once when the console is in front.
NewShell ==
  LET shell == [save |-> 0, full |-> FALSE, visual |-> 0, active |-> FALSE, timer |-> FALSE,
                cx |-> U16 - 1, cy |-> U16 - 1, showed |-> FALSE]
  IN [t |-> Over(Defaults, Over(FirstResize, shell)), p |-> Other]

Init ==
  /\ \E s \in {NewShell, Activated(NewShell)} : vt = s.t /\ panel = s.p
  /\ reading = -1 /\ alarm = FALSE /\ stray = FALSE
  /\ uses \in Repertoires
  /\ functions = 0 /\ events = 0

Screen == [t |-> vt, p |-> panel]
Becomes(s) == vt' = s.t /\ panel' = s.p

\* input() begins: the view returns to the end and the cursor's cell is marked.
BeginInput ==
  LET s == HistoryDisplay(Screen, TotalHistory(vt)) IN
  /\ reading = -1 /\ functions < MaxFunctions
  /\ Becomes([s EXCEPT !.t = IF CursorVisible(s.t) THEN ChangedLine(s.t, s.t.y, s.t.x, s.t.x)
                             ELSE s.t])
  /\ reading' = 0
  /\ UNCHANGED <<alarm, stray, uses, functions, events>>

\* input() ends: the panel is brought up to date.
EndInput ==
  /\ reading >= 0
  /\ Becomes(DrawCursor(Update(Screen)))
  /\ reading' = -1
  /\ UNCHANGED <<alarm, stray, uses, functions, events>>

\* One function of a read, selected by the tables of escape sequences.
Does(name, s) ==
  /\ name \in uses
  /\ reading \in 0 .. MaxRead - 1 /\ functions < MaxFunctions
  /\ Becomes(s)
  /\ reading' = reading + 1 /\ functions' = functions + 1
  /\ UNCHANGED <<alarm, stray, uses, events>>

To(t) == [Screen EXCEPT !.t = t]

Printing ==
  \/ \E c \in Chars : Does("print", To(DoNormalChar(vt, c)))
  \/ Does("lf", To(Lf(vt)))
  \/ Does("cr", To(Cr(vt)))
  \/ Does("bs", To(Bs(vt)))
  \/ Does("tab", To(Tab(vt)))
  \/ Does("tab", To(SetTab(vt)))
  \/ \E all \in BOOLEAN : Does("tab", To(ClearTab(vt, all)))

Moving ==
  \/ Does("nextline", To(NextLine(vt)))
  \/ Does("indexup", To(IndexUp(vt)))
  \/ Does("save", To(SaveCursor(vt)))
  \/ Does("save", To(RestoreCursor(vt)))
  \/ \E dx, dy \in {-1, 0, 1} : Does("move", To(CursorBy(vt, dx, dy)))
  \/ \E x \in Cols, y \in Rows : Does("position", To(CursorPosition(vt, x, y)))

Editing ==
  \/ \E n \in 1 .. Width : Does("char", To(InsertChar(vt, n)))
  \/ \E n \in 1 .. Width : Does("char", To(DeleteChar(vt, n)))
  \/ \E n \in 1 .. Width : Does("char", To(EraseChar(vt, n)))
  \/ \E n \in 1 .. Height - 1 : Does("line", To(InsertLine(vt, n)))
  \/ \E n \in 1 .. Height - 1 : Does("line", To(DeleteLine(vt, n)))
  \/ \E how \in 0 .. 2 : Does("erase", To(EraseLine(vt, how)))
  \/ \E how \in 0 .. 2 : Does("erase", To(EraseDisplay(vt, how)))
  \/ Does("align", To(ScreenAlign(vt)))

Setting ==
  \/ \E top \in 0 .. Height, bot \in Rows : Does("margins", SetMargins(Screen, top, bot))
  \/ \E mode \in {"crlf", "inverse", "relative", "wrap", "visible"}, on \in BOOLEAN :
        Does(mode, To(EnableMode(vt, mode, on)))
  \/ Does("reset", To(Reset(vt)))

\* Events of the front end come between two reads.
Event(s) ==
  /\ reading = -1 /\ events < MaxEvents
  /\ Becomes(s)
  /\ events' = events + 1
  /\ UNCHANGED <<reading, alarm, stray, uses, functions>>

\* Shift with page up or page down moves the view of the shell on the panel.
HistoryScrolls ==
  /\ vt.active
  /\ \E by \in {Height, -Height} : Event(HistoryDisplay(Screen, vt.visual + by))

Activate == ~vt.active /\ Event(Activated(Screen))

Deactivate ==
  /\ vt.active
  /\ Event([t |-> [vt EXCEPT !.active = FALSE, !.timer = FALSE], p |-> Other])

\* The interval timer expires, at any moment while it runs, for this shell or
\* for the one that has the panel.
Alarm ==
  /\ vt.timer \/ ~vt.active
  /\ ~alarm /\ events < MaxEvents
  /\ alarm' = TRUE /\ events' = events + 1
  /\ UNCHANGED <<vt, panel, reading, stray, uses, functions>>

\* The signal is handled after whatever was being done, perhaps after the timer
\* has been stopped.
TimerSignal ==
  /\ alarm /\ reading = -1
  /\ Becomes(UpdateCursor(Screen))
  /\ alarm' = FALSE
  /\ stray' = (stray \/ (vt.active /\ ~vt.timer))
  /\ UNCHANGED <<reading, uses, functions, events>>

Next ==
  \/ BeginInput \/ EndInput
  \/ Printing \/ Moving \/ Editing \/ Setting
  \/ HistoryScrolls \/ Activate \/ Deactivate
  \/ Alarm \/ TimerSignal

Spec == Init /\ [][Next]_vars

-----------------------------------------------------------------------------
(* Properties. *)

ScreenRows == [y \in Rows |-> vt.text[vt.lines[y]]]
Past == [i \in 1 .. TotalHistory(vt) |->
           vt.text[((IF vt.full THEN vt.save ELSE 0) + i - 1) % HistoryLines]]

Scroll == INSTANCE Scrollback WITH
  Depth <- HistoryLines, Fills <- {BlankRow, AlignRow},
  rows <- ScreenRows, past <- Past, back <- TotalHistory(vt) - vt.visual,
  pinned <- vt.top = 0 /\ vt.bot = 0

\* The permuted line numbers, the ring of history lines and the view over both
\* are a screen with a scrollback: every function scrolls rows as a block, and
\* the history receives the rows that leave at the top, in order, and no others,
\* but for the top row when the margins hold it alone: it is received at each
\* line feed, although it stays.
ImplementsScrollback == Scroll!Spec

\* The screen uses each of its lines of memory once and none of the ring's, the
\* cursor stays on the screen or one column past it, the margins stay where they
\* were set, and between two reads nothing is pending and no row is dirty in part.
TermInv ==
  /\ {vt.lines[y] : y \in Rows} = HistoryLines .. HistoryLines + Height - 1
  /\ vt.save \in 0 .. Most(0, HistoryLines - 1) /\ vt.visual \in 0 .. TotalHistory(vt)
  /\ vt.x \in 0 .. Width /\ vt.y \in Rows /\ vt.top \in 0 .. Height /\ vt.bot \in Rows
  /\ reading >= 0 => vt.visual = TotalHistory(vt)
  /\ reading = -1 => vt.pending = 0 /\ \A y \in Rows : vt.dirty[y] \in {Clean, Whole}

\* Between two reads, the panel shows row by row what a reader of the history
\* and the screen expects in the view, although only dirty ranges are painted.
ShowsTheView ==
  reading = -1 /\ vt.active =>
    \A y \in Rows, x \in Cols : panel.shown[y][x] = <<Scroll!Seen(y)[x], vt.inverse>>

\* Between two reads nothing is underlined but the cell of a visible cursor: the
\* underline is wiped when the cursor moves, is hidden, scrolls or the view is
\* moved back.  A timer signal handled after its timer was stopped is excepted,
\* for it draws a cursor that is hidden.
CursorLeavesNoTrace ==
  reading = -1 /\ vt.active /\ ~stray =>
    panel.mark \subseteq (IF CursorVisible(vt) THEN {<<vt.x, vt.y>>} ELSE {})

\* What is painted by dirty ranges, cursor marks and moved views is the screen.
PanelIsTrue == ShowsTheView /\ CursorLeavesNoTrace
=============================================================================
