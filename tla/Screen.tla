------------------------------- MODULE Screen -------------------------------
(***************************************************************************)
(* The text screen of kernel/console.c as operators on a value             *)
(* [cells, cursor]: what one call does when nothing comes between its      *)
(* steps.  Console takes the calls apart; Terminal and Snake draw with     *)
(* them.  A cell holds a character; the colour is always the same.         *)
(***************************************************************************)
EXTENDS Integers, SequencesExt

CONSTANTS
    Width,      \* VGA_WIDTH (80)
    Height,     \* VGA_HEIGHT (25)
    Printable   \* the characters from 32 to 126, the space among them

Space == " "
Blank == "NUL"      \* what cleared cells hold: character 0
NEWLINE   == "LF"
BACKSPACE == "BS"
TAB       == "HT"
RETURN    == "CR"
FORMFEED  == "FF"
Controls  == {NEWLINE, BACKSPACE, TAB, RETURN, FORMFEED}

ASSUME ScreenAssumption ==
    /\ Width \in Nat \ {0} /\ Height \in Nat /\ Height >= 2
    /\ Space \in Printable
    /\ Printable \cap (Controls \cup {Blank}) = {}

TabStop  == 4
EndOfScreen == Width * Height
LastLine == Width * (Height - 1)

\* scr_tab[i] for i >= EndOfScreen is video memory behind the screen: one line of it.
Cells   == 0 .. EndOfScreen + Width - 1
Screens == [cells : [Cells -> Printable \cup {Blank}], cursor : 0 .. EndOfScreen]

Position(x, y) == y * Width + x
Column(s) == s.cursor % Width
Row(s)    == s.cursor \div Width
MoveTo(s, x, y) == [s EXCEPT !.cursor = Position(x, y)]

Cleared(s) ==
    [cells  |-> [i \in Cells |-> IF i \in Width .. EndOfScreen - 1 THEN Blank ELSE s.cells[i]],
     cursor |-> 0]

\* Mutant: every line moves up, the banner's line is overwritten.
Shifted_All(cells) ==
    [i \in Cells |-> CASE i \in 0 .. LastLine - 1            -> cells[i + Width]
                       [] i \in LastLine .. EndOfScreen - 1  -> Blank
                       [] OTHER                              -> cells[i]]

\* Line 0 stays, the lines after it move up by one and the last one is cleared.
Shifted(cells) ==
    [i \in Cells |-> CASE i \in Width .. LastLine - 1        -> cells[i + Width]
                       [] i \in LastLine .. EndOfScreen - 1  -> Blank
                       [] OTHER                              -> cells[i]]

\* Mutant: the screen does not scroll.
Scrolled_Never(s) == s

Scrolled(s) ==
    IF s.cursor >= EndOfScreen
    THEN [cells |-> Shifted(s.cells), cursor |-> s.cursor - Width]
    ELSE s

Put(s, c) == Scrolled([cells |-> [s.cells EXCEPT ![s.cursor] = c], cursor |-> s.cursor + 1])

\* A tab is one to four spaces, each of them put by a call of its own.
Tabbed(s) == FoldLeft(LAMBDA t, i : Put(t, Space), s, [i \in 1 .. TabStop - (s.cursor % TabStop) |-> i])

console_putchar(s, c) ==
    CASE c \in Printable -> Put(s, c)
      [] c = NEWLINE -> Scrolled([s EXCEPT !.cursor = @ + Width - (@ % Width)])
      [] c = BACKSPACE -> IF s.cursor > 0
                     THEN [cells |-> [s.cells EXCEPT ![s.cursor - 1] = Blank], cursor |-> s.cursor - 1]
                     ELSE s
      [] c = TAB -> Tabbed(s)
      [] c = RETURN -> MoveTo(s, 0, Row(s))
      [] c = FORMFEED -> Cleared(s)
      [] OTHER    -> s

console_putbytes(s, text) == FoldLeft(console_putchar, s, text)

\* The part of the screen below the banner's line.
Below(cells) == [i \in Width .. EndOfScreen - 1 |-> cells[i]]
Line(cells, y) == [x \in 1 .. Width |-> cells[Position(x - 1, y)]]
=============================================================================
