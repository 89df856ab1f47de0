----------------------------- MODULE LineEditor -----------------------------
(***************************************************************************)
(* The line editor of the terminal, read_line of bin/terminal.c: the line, *)
(* the place of the cursor in it, the history, the completion, and what    *)
(* redraw_input leaves on the screen.                                      *)
(*                                                                         *)
(* A key is one step: the line is the terminal's own, and the interrupts   *)
(* between the calls of printf change nothing it can see (Console).        *)
(* Strings are sequences of characters; a NUL in an array is the end.      *)
(***************************************************************************)
EXTENDS Screen

CONSTANTS
    INPUT_SIZE,     \* TERMINAL_INPUT_SIZE (256)
    HISTORY_SIZE,   \* TERMINAL_HISTORY_SIZE (32)
    Letters,        \* the printable characters that the user types, the space excepted
    Prompt,         \* what update_prompt prints
    Builtins,       \* builtin_commands
    Names,          \* what fs_complete chooses among: entries of the current directory
    Outputs,        \* what commands print: no command prints a backspace
    MaxKeys         \* bound: keys that the user strikes

ASSUME EditorAssumption ==
    /\ INPUT_SIZE \in Nat /\ INPUT_SIZE >= 2
    /\ HISTORY_SIZE \in Nat \ {0}
    /\ Letters \subseteq Printable
    /\ {Prompt} \cup Builtins \cup Names \subseteq Seq(Printable)
    /\ Outputs \subseteq Seq(Printable \cup (Controls \ {BACKSPACE}))

VARIABLES
    line,           \* the text before its NUL
    cursor,
    history,        \* its first history_count lines
    history_pos,    \* the index of the line of the history that is shown, or -1
    draft,
    draft_saved,
    screen,         \* what the console shows
    wide,           \* this line has not fitted on the row of its prompt
    keys            \* keys struck so far

edited == <<line, cursor>>
browse == <<history_pos, draft, draft_saved>>
vars   == <<line, cursor, history, history_pos, draft, draft_saved, screen, wide, keys>>

Typed == Letters \cup {Space}
history_count == Len(history)
Before(n) == SubSeq(line, 1, n)
From(n)   == SubSeq(line, n + 1, Len(line))

-----------------------------------------------------------------------------
(***************************************************************************)
(* Drawing.                                                                *)
(***************************************************************************)
Blanks(n) == [i \in 1 .. Max({0, n}) |-> Space]

\* Mutant: what was behind the end of a shorter line is not erased.
redraw_input_Left(s, buf, cur, previous_len) ==
    console_putbytes(s, <<RETURN>> \o Prompt \o buf \o <<RETURN>> \o Prompt \o SubSeq(buf, 1, cur))

redraw_input(s, buf, cur, previous_len) ==
    console_putbytes(s, <<RETURN>> \o Prompt \o buf \o Blanks(previous_len - Len(buf))
                        \o <<RETURN>> \o Prompt \o SubSeq(buf, 1, cur))

TooWide(n) == Len(Prompt) + n >= Width

\* The keys that end in redraw_input(line, cursor, old_len).
Redrawn ==
    /\ screen' = redraw_input(screen, line', cursor', Len(line))
    /\ wide' = (wide \/ TooWide(Len(line)) \/ TooWide(Len(line')))

\* Nobody knows what the program does after it has written beyond line.
Overflows == Len(line) >= INPUT_SIZE

Key == ~ Overflows /\ keys < MaxKeys /\ keys' = keys + 1

Init ==
    /\ line = <<>> /\ cursor = 0
    /\ history = <<>> /\ history_pos = -1
    /\ draft = <<>> /\ draft_saved = FALSE
    /\ screen = console_putbytes([cells |-> [i \in Cells |-> Blank], cursor |-> 0],
                                 <<FORMFEED, NEWLINE>> \o Prompt)
    /\ wide = TooWide(0)
    /\ keys = 0

-----------------------------------------------------------------------------
(***************************************************************************)
(* Keys that edit the line.                                                *)
(***************************************************************************)
\* Mutant: the characters after the cursor are moved one place too far.
Erased_TooMuch == Before(cursor - 1) \o From(cursor + 1)

Erased == Before(cursor - 1) \o From(cursor)

key_backspace ==
    /\ Key /\ cursor > 0
    /\ line' = Erased /\ cursor' = cursor - 1
    /\ Redrawn
    /\ UNCHANGED <<history, browse>>

key_left ==
    /\ Key /\ cursor > 0
    /\ cursor' = cursor - 1 /\ line' = line
    /\ Redrawn
    /\ UNCHANGED <<history, browse>>

key_right ==
    /\ Key /\ cursor < Len(line)
    /\ cursor' = cursor + 1 /\ line' = line
    /\ Redrawn
    /\ UNCHANGED <<history, browse>>

\* Mutant: no room is left for the NUL.
HasRoom_Off == Len(line) < INPUT_SIZE

HasRoom == Len(line) + 1 < INPUT_SIZE

key_char ==
    /\ Key /\ HasRoom
    /\ \E c \in Typed : line' = Before(cursor) \o <<c>> \o From(cursor)
    /\ cursor' = cursor + 1
    /\ Redrawn
    /\ UNCHANGED <<history, browse>>

-----------------------------------------------------------------------------
(***************************************************************************)
(* The history.                                                            *)
(***************************************************************************)
key_up ==
    /\ Key /\ history_count > 0
    /\ LET leaving == history_pos = -1
           pos     == IF leaving THEN history_count ELSE history_pos
       IN  /\ IF leaving /\ ~ draft_saved
              THEN draft' = line /\ draft_saved' = TRUE
              ELSE UNCHANGED <<draft, draft_saved>>
           /\ IF pos > 0
              THEN /\ history_pos' = pos - 1
                   /\ line' = history[pos] /\ cursor' = Len(line')
                   /\ Redrawn
              ELSE UNCHANGED <<history_pos, edited, screen, wide>>
    /\ UNCHANGED history

Drafted == IF draft_saved THEN draft ELSE <<>>

key_down ==
    /\ Key /\ history_pos # -1
    /\ IF history_pos < history_count - 1
       THEN history_pos' = history_pos + 1 /\ line' = history[history_pos' + 1]
       ELSE history_pos' = -1 /\ line' = Drafted
    /\ cursor' = Len(line')
    /\ Redrawn
    /\ UNCHANGED <<history, draft, draft_saved>>

push_history(text) ==
    IF text = <<>> THEN history
    ELSE IF history_count < HISTORY_SIZE THEN Append(history, text)
    ELSE Append(Tail(history), text)

-----------------------------------------------------------------------------
(***************************************************************************)
(* Completion of the word before the cursor.                               *)
(***************************************************************************)
WordStart ==
    CHOOSE s \in 0 .. cursor :
        /\ s = 0 \/ line[s] = Space
        /\ \A i \in s + 1 .. cursor : line[i] # Space

prefix == SubSeq(line, WordStart + 1, cursor)

Matching(words) == {w \in words : IsPrefix(prefix, w)}

\* The test leaves out what stands before the word.
CompletionFits(w) == Len(w) + Len(From(cursor)) + 1 < INPUT_SIZE

\* A command that is completed is followed by a space and the end of the line.
complete_builtin(w) == line' = w \o <<Space>> /\ cursor' = Len(line')

complete_argument(w) ==
    line' = Before(WordStart) \o w \o From(cursor) /\ cursor' = WordStart + Len(w)

key_tab ==
    /\ Key
    /\ LET found == Matching(IF WordStart = 0 THEN Builtins ELSE Names)
           only  == CHOOSE w \in found : TRUE
       IN  IF Cardinality(found) = 1 /\ CompletionFits(only)
           THEN IF WordStart = 0 THEN complete_builtin(only) ELSE complete_argument(only)
           ELSE UNCHANGED edited
    /\ Redrawn
    /\ UNCHANGED <<history, browse>>

-----------------------------------------------------------------------------
\* The line is handed to find_cmd, and terminal() begins the next one.
key_return ==
    /\ Key
    /\ history' = push_history(line)
    /\ \E out \in IF line = <<>> THEN {<<>>} ELSE Outputs :
        screen' = console_putbytes(screen, <<NEWLINE>> \o out \o <<NEWLINE>> \o Prompt)
    /\ line' = <<>> /\ cursor' = 0
    /\ history_pos' = -1 /\ draft' = <<>> /\ draft_saved' = FALSE
    /\ wide' = TooWide(0)

\* kgetch has nothing, or a key that the editor ignores.
no_key == UNCHANGED vars

Next ==
    \/ key_backspace \/ key_left \/ key_right \/ key_char
    \/ key_up \/ key_down \/ key_tab \/ key_return \/ no_key

Spec == Init /\ [][Next]_vars

-----------------------------------------------------------------------------
RowShown == Line(screen.cells, Row(screen))

\* What the user sees is what the terminal will execute: as long as the line fits on the row of
\* its prompt, the row shows the prompt and the line and nothing else, and the screen's cursor
\* stands at the place where the next key edits, whatever was typed, erased, completed or called
\* back before.  (A line that wraps is drawn again on the row where the cursor is: no claim.)
DisplayMatches ==
    ~ wide =>
        LET text == Prompt \o line
        IN  /\ SubSeq(RowShown, 1, Len(text)) = text
            /\ \A x \in Len(text) + 1 .. Width : RowShown[x] \in {Space, Blank}
            /\ Column(screen) = Len(Prompt) + cursor

\* The line and its NUL stay within TERMINAL_INPUT_SIZE, whatever is typed or called back; the
\* only key that can write beyond is a tab that completes an argument (its test at line 121
\* forgets what stands before the word).
OverflowsByArgument == ~ Overflows /\ Overflows' => key_tab /\ WordStart > 0 /\ cursor > 0
LineFits == [][OverflowsByArgument]_vars

\* What stands after the cursor is not touched by typing, erasing and completing an argument.
\* (The completion of a command cuts it off: line 111.)
KeepsTail ==
    key_char \/ key_backspace \/ (key_tab /\ WordStart > 0)
        => SubSeq(line', cursor' + 1, Len(line')) = From(cursor)
TailKept == [][KeepsTail]_vars
=============================================================================
