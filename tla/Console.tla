------------------------------- MODULE Console ------------------------------
(***************************************************************************)
(* The console of n7OS, kernel/console.c, under the timer interrupt, which *)
(* draws the banner of kernel/banner.c on the first line with the same     *)
(* functions and the same cursor.                                          *)
(*                                                                         *)
(* The write system call runs with interrupts disabled: one step.  Snake   *)
(* calls cursor_move and console_putchar directly, with interrupts         *)
(* enabled: one step for each access to cursor_pos, to the screen or to a  *)
(* port (the kernel is built without optimisation).  One process prints at *)
(* a time: Processus1 ends before the terminal it forks prints, and snake  *)
(* runs inside the terminal.                                               *)
(***************************************************************************)
EXTENDS Screen

CONSTANTS
    Texts,          \* the strings that processes print
    Base,           \* values of a byte of the cursor's port (256)
    LeftZone,       \* columns cleared for the banner's left text (30)
    LeftText,       \* "N7OS [ready] | current"
    RightColumn,    \* where the clock begins (65)
    RightZone,      \* columns cleared for it (15)
    RightText,      \* " hh:mm:ss"
    MaxCalls        \* bound: calls that the process makes

ASSUME ConsoleAssumption ==
    /\ Base \in Nat \ {0}
    /\ Texts \subseteq Seq(Printable \cup Controls)
    /\ {LeftText, RightText} \subseteq Seq(Printable)
    /\ {LeftZone, RightColumn, RightZone} \subseteq Nat
    /\ Len(LeftText) <= LeftZone /\ LeftZone <= Width \div 2
    /\ Len(RightText) <= RightZone /\ RightColumn + RightZone <= Width
    /\ Width \div 2 <= RightColumn

VARIABLES
    scr_tab,    \* the video memory
    cursor_pos,
    crtc,       \* the screen's cursor registers: the selected byte, and both bytes
    pc,         \* next step of the direct call that is executing, or "idle"
    after,      \* where cursor_move returns to
    char,       \* the character that console_putchar is printing
    loaded,     \* cursor_pos as read by the statement that will write it
    calls       \* calls made so far

vars == <<scr_tab, cursor_pos, crtc, pc, after, char, loaded, calls>>

screen == [cells |-> scr_tab, cursor |-> cursor_pos]

HIGH == "high"
LOW  == "low"
Byte(b, pos) == IF b = HIGH THEN pos \div Base ELSE pos % Base

\* The registers after a whole cursor_move to pos.
Programmed(pos) == [index |-> LOW, high |-> Byte(HIGH, pos), low |-> Byte(LOW, pos)]

\* Where kernel_start's first text, which begins with a form feed, leaves the console.
Init ==
    /\ scr_tab = [i \in Cells |-> Blank]
    /\ cursor_pos = 0
    /\ crtc = Programmed(0)
    /\ pc = "idle" /\ after = "idle"
    /\ char = Space
    /\ loaded = 0
    /\ calls = 0

Call == pc = "idle" /\ calls < MaxCalls /\ calls' = calls + 1

-----------------------------------------------------------------------------
(***************************************************************************)
(* cursor_move, called directly or by console_putchar.                     *)
(***************************************************************************)
cursor_move ==
    /\ Call
    /\ \E x \in 0 .. Width - 1, y \in 0 .. Height - 1 : cursor_pos' = Position(x, y)
    /\ pc' = "index_high" /\ after' = "idle"
    /\ UNCHANGED <<scr_tab, crtc, char, loaded>>

\* cursor_move(cursor_pos % VGA_WIDTH, cursor_pos / VGA_WIDTH)
move ==
    /\ pc = "move"
    /\ cursor_pos' = Position(Column(screen), Row(screen))
    /\ pc' = "index_high"
    /\ UNCHANGED <<scr_tab, crtc, after, char, loaded, calls>>

outb_index(b, step, next) ==
    /\ pc = step /\ pc' = next
    /\ crtc' = [crtc EXCEPT !.index = b]
    /\ UNCHANGED <<scr_tab, cursor_pos, after, char, loaded, calls>>

\* Mutant: the low byte is left out, as if columns fitted in the high one.
outb_data_HighOnly(b, step, next) ==
    /\ pc = step /\ pc' = next
    /\ crtc' = IF b = HIGH THEN [crtc EXCEPT ![crtc.index] = Byte(b, cursor_pos)] ELSE crtc
    /\ UNCHANGED <<scr_tab, cursor_pos, after, char, loaded, calls>>

\* The byte goes to the register selected last, whoever selected it.
outb_data(b, step, next) ==
    /\ pc = step /\ pc' = next
    /\ crtc' = [crtc EXCEPT ![crtc.index] = Byte(b, cursor_pos)]
    /\ UNCHANGED <<scr_tab, cursor_pos, after, char, loaded, calls>>

move_ports ==
    \/ outb_index(HIGH, "index_high", "data_high")
    \/ outb_data(HIGH, "data_high", "index_low")
    \/ outb_index(LOW, "index_low", "data_low")
    \/ outb_data(LOW, "data_low", after)

-----------------------------------------------------------------------------
(***************************************************************************)
(* console_putchar of a printable character, called directly.              *)
(***************************************************************************)
putchar ==
    /\ Call
    /\ \E c \in Printable : scr_tab' = [scr_tab EXCEPT ![cursor_pos] = c] /\ char' = c
    /\ pc' = "load" /\ after' = "check"
    /\ UNCHANGED <<cursor_pos, crtc, loaded>>

\* cursor_pos++ and cursor_pos -= VGA_WIDTH: read, then write.
load(step, next) ==
    /\ pc = step /\ pc' = next
    /\ loaded' = cursor_pos
    /\ UNCHANGED <<scr_tab, cursor_pos, crtc, after, char, calls>>

store(step, pos) ==
    /\ pc = step /\ pc' = "move"
    /\ cursor_pos' = pos
    /\ UNCHANGED <<scr_tab, crtc, after, char, loaded, calls>>

increment == load("load", "store") \/ store("store", loaded + 1)

check ==
    /\ pc = "check"
    /\ pc' = IF cursor_pos >= EndOfScreen THEN "shift" ELSE "idle"
    /\ UNCHANGED <<scr_tab, cursor_pos, crtc, after, char, loaded, calls>>

shift ==
    /\ pc = "shift" /\ pc' = "rewind_load" /\ after' = "idle"
    /\ scr_tab' = Shifted(scr_tab)
    /\ UNCHANGED <<cursor_pos, crtc, char, loaded, calls>>

rewind == load("rewind_load", "rewind_store") \/ store("rewind_store", loaded - Width)

-----------------------------------------------------------------------------
\* The write system call: console_putbytes with interrupts disabled.  Every character that
\* moves the cursor programs the registers.
sys_write ==
    /\ Call
    /\ \E t \in Texts :
        LET s == console_putbytes(screen, t)
        IN  /\ scr_tab' = s.cells /\ cursor_pos' = s.cursor
            /\ crtc' = IF s.cursor = cursor_pos THEN crtc ELSE Programmed(s.cursor)
    /\ UNCHANGED <<pc, after, char, loaded>>

-----------------------------------------------------------------------------
(***************************************************************************)
(* The banner.                                                             *)
(***************************************************************************)
PutAt(s, x, c) == console_putchar(MoveTo(s, x, 0), c)
TextAt(s, x, t) == FoldLeft(LAMBDA u, i : PutAt(u, x + i - 1, t[i]), s, [i \in 1 .. Len(t) |-> i])
Spaces(n) == [i \in 1 .. n |-> Space]

BannerLeft(s) == TextAt(TextAt(TextAt(s, 0, Spaces(Width \div 2)), 0, Spaces(LeftZone)), 0, LeftText)

BannerRight(s) ==
    TextAt(TextAt(TextAt(s, Width \div 2, Spaces(Width - Width \div 2)), RightColumn, Spaces(RightZone)),
           RightColumn, RightText)

\* Mutant: the banner leaves the cursor where its text ends.
display_banner_Unsaved(s, update_left, update_right) ==
    LET l == IF update_left THEN BannerLeft(s) ELSE s
    IN  IF update_right THEN BannerRight(l) ELSE l

display_banner(s, update_left, update_right) ==
    LET l == IF update_left THEN BannerLeft(s) ELSE s
        r == IF update_right THEN BannerRight(l) ELSE l
    IN  MoveTo(r, Column(s), Row(s))

\* Every tick; the right part is updated in one of ten ticks that update the left one.
timer_handler ==
    /\ \E update \in {<<FALSE, FALSE>>, <<TRUE, FALSE>>, <<TRUE, TRUE>>} :
        LET s == display_banner(screen, update[1], update[2])
        IN  scr_tab' = s.cells /\ cursor_pos' = s.cursor /\ crtc' = Programmed(s.cursor)
    /\ UNCHANGED <<pc, after, char, loaded, calls>>

-----------------------------------------------------------------------------
Process == cursor_move \/ move \/ move_ports \/ putchar \/ increment \/ check \/ shift \/ rewind \/ sys_write
Next == Process \/ timer_handler

Spec == Init /\ [][Next]_vars

-----------------------------------------------------------------------------
(***************************************************************************)
(* What the process sees: the screen with the call that is executing done. *)
(***************************************************************************)
Done ==
    CASE pc \in {"load", "store"}  -> Put(screen, char)
      [] pc \in {"rewind_load", "rewind_store"} -> [screen EXCEPT !.cursor = @ - Width]
      [] OTHER -> IF after = "check" \/ pc \in {"check", "shift"} THEN Scrolled(screen) ELSE screen

Promised == INSTANCE Display WITH text <- Below(Done.cells), place <- Done.cursor

\* What a process prints below the first line, and where its next character goes, do not depend
\* on when the timer interrupts it: whatever step of cursor_move or console_putchar the banner
\* comes between (banner.c saves the cursor and puts it back), each call has its whole effect.
ImplementsDisplay == Promised!Spec

\* Between two calls the blinking cursor is where the next character goes, although an interrupt
\* may have selected the other register between the two ports of cursor_move.
HardwareCursor == pc = "idle" => crtc = Programmed(cursor_pos)

\* No character goes to the memory behind the screen: the cursor is rewound before the next one.
StaysOnScreen ==
    /\ pc = "idle" => cursor_pos < EndOfScreen
    /\ \A i \in Cells : i >= EndOfScreen => scr_tab[i] = Blank

\* The first line is the banner's: only a tick, or printing at a cursor that stands on that line
\* (after a form feed), changes it; scrolling, clearing and wrapping do not.  Texts are excepted
\* whose backspace comes at the beginning of the second line: it clears the banner's last cell.
SparesBanner == timer_handler \/ cursor_pos < Width \/ Line(scr_tab', 0) = Line(scr_tab, 0)
BannerKept == [][SparesBanner]_vars
=============================================================================
