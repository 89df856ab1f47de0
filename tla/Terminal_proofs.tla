--------------------------- MODULE Terminal_proofs --------------------------
(***************************************************************************)
(* The programs that the user sees: the line editor of the terminal, for   *)
(* every size of the screen, of the line and of the history, every set of  *)
(* commands and names, and any keys; and the game of the snake, for every  *)
(* board, speed and length of its array.                                   *)
(***************************************************************************)
EXTENDS LineEditor, Snake, Screen_proofs, FiniteSetTheorems

Texts == Seq(Printable)

\* The texts that fit into an array of TERMINAL_INPUT_SIZE with their NUL.
Fitting == {t \in Texts : Len(t) < INPUT_SIZE}

\* What is called back into the line fits: the history and the draft.  The line does, unless a
\* tab has completed an argument.
EditorInv ==
    /\ line \in Texts /\ cursor \in 0 .. Len(line)
    /\ history \in Seq(Fitting)
    /\ history_pos \in -1 .. history_count - 1
    /\ draft \in Fitting /\ draft_saved \in BOOLEAN

LEMMA Sizes ==
    /\ INPUT_SIZE \in Nat /\ INPUT_SIZE >= 2 /\ HISTORY_SIZE \in Nat \ {0}
    /\ Typed \subseteq Printable /\ Space \in Printable
    /\ Builtins \subseteq Texts /\ Names \subseteq Texts
    /\ <<>> \in Fitting /\ <<>> \in Texts /\ Len(<<>>) = 0
<1>1. /\ INPUT_SIZE \in Nat /\ INPUT_SIZE >= 2 /\ HISTORY_SIZE \in Nat \ {0}
      /\ Letters \subseteq Printable /\ Space \in Printable
      /\ Builtins \subseteq Texts /\ Names \subseteq Texts
  BY EditorAssumption, ScreenAssumption DEF Texts
<1>2. <<>> \in Texts /\ Len(<<>>) = 0
  BY DEF Texts
<1> QED
  BY <1>1, <1>2 DEF Fitting, Typed

-----------------------------------------------------------------------------
(***************************************************************************)
(* Texts and their parts.                                                  *)
(***************************************************************************)
\* What stands before a place, and what stands after it.
LEMMA Parts ==
    ASSUME NEW t \in Texts, NEW n \in 0 .. Len(t)
    PROVE  /\ SubSeq(t, 1, n) \in Texts /\ Len(SubSeq(t, 1, n)) = n
           /\ SubSeq(t, n + 1, Len(t)) \in Texts /\ Len(SubSeq(t, n + 1, Len(t))) = Len(t) - n
<1>1. Len(t) \in Nat /\ \A i \in 1 .. Len(t) : t[i] \in Printable
  BY DEF Texts
<1>2. SubSeq(t, 1, n) \in Texts /\ Len(SubSeq(t, 1, n)) = n
  BY <1>1 DEF Texts
<1>3. SubSeq(t, n + 1, Len(t)) \in Texts /\ Len(SubSeq(t, n + 1, Len(t))) = Len(t) - n
  BY <1>1 DEF Texts
<1> QED
  BY <1>2, <1>3

\* The second of two texts is what stands after the first.
LEMMA TailOf ==
    ASSUME NEW a \in Texts, NEW b \in Texts
    PROVE  /\ a \o b \in Texts /\ Len(a \o b) = Len(a) + Len(b)
           /\ SubSeq(a \o b, Len(a) + 1, Len(a \o b)) = b
<1>1. /\ Len(a) \in Nat /\ Len(b) \in Nat
      /\ a \o b \in Texts /\ Len(a \o b) = Len(a) + Len(b)
  BY DEF Texts
<1> DEFINE s == SubSeq(a \o b, Len(a) + 1, Len(a \o b))
<1>2. s \in Texts /\ Len(s) = Len(b)
  <2> DEFINE c == a \o b
             n == Len(a)
  <2>1. c \in Texts /\ n \in 0 .. Len(c) /\ Len(c) - n = Len(b)
    BY <1>1
  <2>2. s = SubSeq(c, n + 1, Len(c))
    OBVIOUS
  <2> HIDE DEF c, n, s
  <2> QED
    BY <2>1, <2>2, Parts
<1>3. ASSUME NEW i \in 1 .. Len(b) PROVE s[i] = b[i]
  <2> DEFINE c == a \o b
             m == Len(a) + 1
             n == Len(a) + Len(b)
  <2>1. c \in Seq(Printable) /\ Len(c) = n /\ m \in Nat /\ n \in Nat /\ i \in Nat
    BY <1>1 DEF Texts
  <2>2. c[Len(a) + i] = b[i]
    BY <1>1 DEF Texts
  <2>3. i \in 1 .. (n + 1) - m /\ (m + i) - 1 = Len(a) + i /\ m \in 1 .. n
    BY <1>1
  <2>4. s = SubSeq(c, m, n)
    BY <1>1
  <2> HIDE DEF c, m, n, s
  <2>5. SubSeq(c, m, n)[i] = c[(m + i) - 1]
    BY <2>1, <2>3
  <2> QED
    BY <2>2, <2>3, <2>4, <2>5
<1>4. s = b
  BY <1>2, <1>3 DEF Texts
<1> QED
  BY <1>1, <1>4

\* A set that has one element is not empty.
LEMMA EmptyCounts == ASSUME NEW S, Cardinality(S) = 1 PROVE S # {}
  BY FS_EmptySet

\* The word before the cursor begins at a place before the cursor.
LEMMA WordStarts ==
    ASSUME cursor \in Nat
    PROVE  WordStart \in 0 .. cursor
<1> DEFINE S == {s \in 1 .. cursor : line[s] = Space}
           Begins(s) == /\ s = 0 \/ line[s] = Space
                        /\ \A i \in s + 1 .. cursor : line[i] # Space
<1>1. \E s \in 0 .. cursor : Begins(s)
  <2>1. CASE S = {}
    BY <2>1
  <2>2. CASE S # {}
    <3>1. PICK s \in S : \A i \in S : i <= s
      BY <2>2, GreatestExists
    <3>2. ASSUME NEW i \in s + 1 .. cursor PROVE line[i] # Space
      BY <3>1
    <3> QED
      BY <3>1, <3>2
  <2> QED
    BY <2>1, <2>2
<1> QED
  BY <1>1 DEF WordStart
-----------------------------------------------------------------------------
(***************************************************************************)
(* The steps.                                                              *)
(***************************************************************************)
\* The parts of the line before and after a place.
LEMMA LineParts ==
    ASSUME line \in Texts, NEW n \in 0 .. Len(line)
    PROVE  /\ Before(n) \in Texts /\ Len(Before(n)) = n
           /\ From(n) \in Texts /\ Len(From(n)) = Len(line) - n
  BY Parts DEF Before, From

\* A character, or a word, put in at a place of the line leaves what stands after it.
LEMMA Inserted ==
    ASSUME line \in Texts, NEW n \in 0 .. Len(line), NEW m \in 0 .. Len(line), NEW w \in Texts
    PROVE  LET l == Before(n) \o w \o From(m)
           IN  /\ l \in Texts /\ Len(l) = n + Len(w) + (Len(line) - m)
               /\ SubSeq(l, n + Len(w) + 1, Len(l)) = From(m)
<1> DEFINE a == Before(n) \o w
<1>1. Before(n) \in Texts /\ Len(Before(n)) = n /\ From(m) \in Texts /\ Len(From(m)) = Len(line) - m
  BY LineParts
<1>2. a \in Texts /\ Len(a) = n + Len(w)
  <2> DEFINE b == Before(n)
  <2>1. b \in Texts /\ Len(b) = n
    BY <1>1
  <2> HIDE DEF b
  <2>2. b \o w \in Texts /\ Len(b \o w) = n + Len(w)
    BY <2>1, TailOf
  <2> QED
    BY <2>2 DEF b
<1> HIDE DEF a
<1>3. /\ a \o From(m) \in Texts /\ Len(a \o From(m)) = Len(a) + Len(From(m))
      /\ SubSeq(a \o From(m), Len(a) + 1, Len(a \o From(m))) = From(m)
  BY <1>1, <1>2, TailOf
<1> QED
  BY <1>1, <1>2, <1>3 DEF a

\* The backspace joins what stands before the character and what stands after it.
LEMMA ErasedIs ==
    ASSUME line \in Texts, cursor \in 1 .. Len(line)
    PROVE  /\ Erased \in Texts /\ Len(Erased) = Len(line) - 1
           /\ SubSeq(Erased, (cursor - 1) + 1, Len(Erased)) = From(cursor)
<1>1. /\ Len(line) \in Nat /\ cursor \in 0 .. Len(line) /\ cursor - 1 \in 0 .. Len(line)
  BY DEF Texts
<1>2. /\ Before(cursor - 1) \in Texts /\ Len(Before(cursor - 1)) = cursor - 1
      /\ From(cursor) \in Texts /\ Len(From(cursor)) = Len(line) - cursor
  BY <1>1, LineParts
<1> DEFINE a == Before(cursor - 1)
           b == From(cursor)
<1>3. Erased = a \o b
  BY DEF Erased
<1> HIDE DEF a, b
<1>4. a \in Texts /\ b \in Texts /\ Len(a) = cursor - 1 /\ Len(b) = Len(line) - cursor
  BY <1>2 DEF a, b
<1>5. /\ a \o b \in Texts /\ Len(a \o b) = Len(a) + Len(b)
      /\ SubSeq(a \o b, Len(a) + 1, Len(a \o b)) = b
  BY <1>4, TailOf
<1> QED
  BY <1>1, <1>3, <1>4, <1>5 DEF b

\* What is called back from the history fits.
LEMMA CalledBack ==
    ASSUME history \in Seq(Fitting), NEW i \in 1 .. history_count
    PROVE  history[i] \in Texts /\ Len(history[i]) \in Nat /\ Len(history[i]) < INPUT_SIZE
  BY DEF history_count, Fitting, Texts

\* The history keeps its type, and its lines fit.
LEMMA Pushed ==
    ASSUME history \in Seq(Fitting), NEW t \in Fitting
    PROVE  push_history(t) \in Seq(Fitting)
<1>1. CASE t = <<>>
  BY <1>1 DEF push_history
<1>2. CASE t # <<>> /\ history_count < HISTORY_SIZE
  BY <1>2 DEF push_history
<1>3. CASE t # <<>> /\ ~ (history_count < HISTORY_SIZE)
  <2>1. history # <<>>
    <3>1. history_count # 0
      BY <1>3, Sizes DEF history_count
    <3> QED
      BY <3>1 DEF history_count
  <2>2. Tail(history) \in Seq(Fitting)
    BY <2>1
  <2>3. Append(Tail(history), t) \in Seq(Fitting)
    BY <2>2
  <2> QED
    BY <1>3, <2>3 DEF push_history
<1> QED
  BY <1>1, <1>2, <1>3

\* A line that has not overflowed fits.
LEMMA LineFitting ==
    ASSUME line \in Texts, ~ Overflows
    PROVE  line \in Fitting
  BY Sizes DEF Overflows, Fitting, Texts

\* Each key keeps the invariant; those that change the line leave one that fits, but for a tab.
LEMMA EditKeys ==
    ASSUME EditorInv, key_backspace \/ key_left \/ key_right \/ key_char
    PROVE  EditorInv' /\ ~ Overflows'
<1> USE DEF EditorInv
<1>1. Len(line) \in Nat /\ cursor \in Nat /\ cursor <= Len(line) /\ INPUT_SIZE \in Nat
  BY Sizes DEF Texts
<1>2. Len(line) < INPUT_SIZE
  BY <1>1 DEF key_backspace, key_left, key_right, key_char, Key, Overflows
<1>3. UNCHANGED <<history, browse>>
  BY DEF key_backspace, key_left, key_right, key_char
<1>4. history' = history /\ history_pos' = history_pos /\ draft' = draft /\ draft_saved' = draft_saved
  BY <1>3 DEF browse
<1>5. SUFFICES line' \in Texts /\ cursor' \in 0 .. Len(line') /\ Len(line') \in Nat
               /\ Len(line') < INPUT_SIZE
  BY <1>1, <1>4, <1>5 DEF Overflows, history_count
<1>6. CASE key_backspace
  <2>1. cursor \in 1 .. Len(line) /\ line' = Erased /\ cursor' = cursor - 1
    BY <1>1, <1>6 DEF key_backspace
  <2> HIDE DEF Erased
  <2> QED
    BY <1>1, <1>2, <2>1, ErasedIs
<1>7. CASE key_left
  BY <1>1, <1>2, <1>7 DEF key_left
<1>8. CASE key_right
  BY <1>1, <1>2, <1>8 DEF key_right
<1>9. CASE key_char
  <2>1. PICK c \in Typed : line' = Before(cursor) \o <<c>> \o From(cursor)
    BY <1>9 DEF key_char
  <2>2. <<c>> \in Texts /\ Len(<<c>>) = 1
    BY Sizes DEF Texts
  <2>3. line' \in Texts /\ Len(line') = cursor + 1 + (Len(line) - cursor)
    BY <1>1, <2>1, <2>2, Inserted
  <2>4. Len(line) + 1 < INPUT_SIZE /\ cursor' = cursor + 1
    BY <1>9 DEF key_char, HasRoom
  <2> QED
    BY <1>1, <2>3, <2>4
<1> QED
  BY <1>6, <1>7, <1>8, <1>9

LEMMA HistoryKeys ==
    ASSUME EditorInv, key_up \/ key_down \/ key_return
    PROVE  EditorInv' /\ ~ Overflows'
<1> USE DEF EditorInv
<1>1. /\ Len(line) \in Nat /\ INPUT_SIZE \in Nat /\ INPUT_SIZE >= 2
      /\ history_count \in Nat /\ history_count = Len(history) /\ history_pos \in Int
  BY Sizes DEF Texts, history_count
<1>2. line \in Fitting /\ Len(line) < INPUT_SIZE
  <2>1. ~ Overflows
    BY DEF key_up, key_down, key_return, Key
  <2> QED
    BY <2>1, LineFitting DEF Fitting
<1>3. CASE key_up
  <2> DEFINE pos == IF history_pos = -1 THEN history_count ELSE history_pos
  <2>1. history' = history /\ history_count > 0
    BY <1>3 DEF key_up
  <2>2. draft' \in Fitting /\ draft_saved' \in BOOLEAN
    BY <1>2, <1>3 DEF key_up
  <2>3. CASE pos > 0
    <3>1. pos \in 1 .. history_count
      BY <1>1, <2>3
    <3>2. history_pos' = pos - 1 /\ line' = history[pos] /\ cursor' = Len(line')
      BY <1>3, <2>3 DEF key_up
    <3> HIDE DEF pos
    <3>3. line' \in Texts /\ Len(line') \in Nat /\ Len(line') < INPUT_SIZE
      BY <3>1, <3>2, CalledBack
    <3>4. history_pos' \in -1 .. history_count - 1 /\ history_count' = history_count
      BY <1>1, <2>1, <3>1, <3>2 DEF history_count
    <3> QED
      BY <1>1, <2>1, <2>2, <3>2, <3>3, <3>4 DEF Overflows
  <2>4. CASE ~ (pos > 0)
    <3>1. UNCHANGED <<history_pos, edited>>
      BY <1>3, <2>4 DEF key_up
    <3>2. history_pos' = history_pos /\ line' = line /\ cursor' = cursor
      BY <3>1 DEF edited
    <3> QED
      BY <1>1, <1>2, <2>1, <2>2, <3>2 DEF Overflows, history_count
  <2> QED
    BY <2>3, <2>4
<1>4. CASE key_down
  <2>1. /\ history' = history /\ draft' = draft /\ draft_saved' = draft_saved
        /\ history_pos # -1 /\ cursor' = Len(line')
    BY <1>4 DEF key_down
  <2>2. CASE history_pos < history_count - 1
    <3>1. history_pos' = history_pos + 1 /\ line' = history[history_pos' + 1]
      BY <1>4, <2>2 DEF key_down
    <3>2. history_pos' + 1 \in 1 .. history_count
      BY <1>1, <2>1, <2>2, <3>1
    <3>3. line' \in Texts /\ Len(line') \in Nat /\ Len(line') < INPUT_SIZE
      BY <3>1, <3>2, CalledBack
    <3>4. history_pos' \in -1 .. history_count - 1 /\ history_count' = history_count
      BY <1>1, <2>1, <3>1, <3>2 DEF history_count
    <3> QED
      BY <1>1, <2>1, <3>3, <3>4 DEF Overflows
  <2>3. CASE ~ (history_pos < history_count - 1)
    <3>1. history_pos' = -1 /\ line' = Drafted
      BY <1>4, <2>3 DEF key_down
    <3>2. line' \in Fitting
      BY <3>1, Sizes DEF Drafted
    <3>3. line' \in Texts /\ Len(line') \in Nat /\ Len(line') < INPUT_SIZE
      BY <3>2 DEF Fitting, Texts
    <3> QED
      BY <1>1, <2>1, <3>1, <3>3 DEF Overflows, history_count
  <2> QED
    BY <2>2, <2>3
<1>5. CASE key_return
  <2>1. /\ history' = push_history(line) /\ line' = <<>> /\ cursor' = 0
        /\ history_pos' = -1 /\ draft' = <<>> /\ draft_saved' = FALSE
    BY <1>5 DEF key_return
  <2>2. push_history(line) \in Seq(Fitting)
    BY <1>2, Pushed
  <2> HIDE DEF push_history
  <2>3. history' \in Seq(Fitting)
    BY <2>1, <2>2
  <2>4. history_pos' \in -1 .. history_count' - 1
    <3>1. history_count' \in Nat
      BY <2>3 DEF history_count
    <3>2. ASSUME NEW n \in Nat PROVE -1 \in -1 .. n - 1
      OBVIOUS
    <3>3. -1 \in -1 .. history_count' - 1
      BY <3>1, <3>2
    <3> QED
      BY <2>1, <3>3
  <2>5. line' \in Texts /\ Len(line') = 0 /\ cursor' \in 0 .. Len(line')
    BY <2>1, Sizes
  <2>6. draft' \in Fitting /\ draft_saved' \in BOOLEAN
    BY <2>1, Sizes
  <2>7. ~ Overflows'
    BY <1>1, <2>5 DEF Overflows
  <2> QED
    BY <2>3, <2>4, <2>5, <2>6, <2>7
<1> QED
  BY <1>3, <1>4, <1>5

\* What a tab leaves: the line as it was, a command, or an argument in its place.
LEMMA TabLeaves ==
    ASSUME EditorInv, key_tab
    PROVE  /\ WordStart \in 0 .. cursor
           /\ UNCHANGED <<history, browse>>
           /\ \/ line' = line /\ cursor' = cursor
              \/ \E w \in Texts : /\ WordStart = 0 /\ CompletionFits(w)
                                  /\ line' = w \o <<Space>> /\ cursor' = Len(line')
              \/ \E w \in Texts : /\ WordStart > 0 /\ cursor' = WordStart + Len(w)
                                  /\ line' = Before(WordStart) \o w \o From(cursor)
<1> USE DEF EditorInv
<1>1. cursor \in Nat
  BY DEF Texts
<1>2. WordStart \in 0 .. cursor
  BY <1>1, WordStarts
<1> HIDE DEF WordStart
<1> DEFINE found == Matching(IF WordStart = 0 THEN Builtins ELSE Names)
           only  == CHOOSE w \in found : TRUE
<1>3. UNCHANGED <<history, browse>>
  BY DEF key_tab
<1>4. CASE Cardinality(found) = 1 /\ CompletionFits(only)
  <2>1. found \subseteq Texts
    BY Sizes DEF Matching
  <2>2. only \in Texts
    <3>1. found # {}
      BY <1>4, EmptyCounts
    <3> HIDE DEF found
    <3> QED
      BY <2>1, <3>1
  <2>3. IF WordStart = 0 THEN complete_builtin(only) ELSE complete_argument(only)
    BY <1>4 DEF key_tab
  <2> HIDE DEF only
  <2>4. CASE WordStart = 0
    BY <1>2, <1>3, <1>4, <2>2, <2>3, <2>4 DEF complete_builtin
  <2>5. CASE WordStart # 0
    <3>1. WordStart > 0
      BY <1>1, <1>2, <2>5
    <3> QED
      BY <1>2, <1>3, <2>2, <2>3, <2>5, <3>1 DEF complete_argument
  <2> QED
    BY <2>4, <2>5
<1>5. CASE ~ (Cardinality(found) = 1 /\ CompletionFits(only))
  <2>1. UNCHANGED edited
    BY <1>5 DEF key_tab
  <2> QED
    BY <1>2, <1>3, <2>1 DEF edited
<1> QED
  BY <1>4, <1>5

LEMMA TabKey ==
    ASSUME EditorInv, key_tab
    PROVE  /\ EditorInv'
           /\ Overflows' => WordStart > 0 /\ cursor > 0
<1> USE DEF EditorInv
<1>1. Len(line) \in Nat /\ cursor \in Nat /\ cursor <= Len(line) /\ INPUT_SIZE \in Nat
  BY Sizes DEF Texts
<1>2. Len(line) < INPUT_SIZE
  BY <1>1 DEF key_tab, Key, Overflows
<1>3. WordStart \in 0 .. cursor /\ WordStart \in 0 .. Len(line) /\ UNCHANGED <<history, browse>>
  BY <1>1, TabLeaves
<1> HIDE DEF WordStart
<1>4. /\ history' = history /\ history_pos' = history_pos
      /\ draft' = draft /\ draft_saved' = draft_saved /\ history_count' = history_count
  BY <1>3 DEF browse, history_count
<1>5. ASSUME line' \in Texts, cursor' \in 0 .. Len(line') PROVE EditorInv'
  BY <1>4, <1>5
<1>6. CASE line' = line /\ cursor' = cursor
  BY <1>1, <1>2, <1>5, <1>6 DEF Overflows
<1>7. ASSUME NEW w \in Texts, WordStart = 0, CompletionFits(w),
             line' = w \o <<Space>>, cursor' = Len(line')
      PROVE  EditorInv' /\ ~ Overflows'
  <2>1. <<Space>> \in Texts /\ Len(<<Space>>) = 1
    BY Sizes DEF Texts
  <2>2. line' \in Texts /\ Len(line') = Len(w) + 1 /\ Len(w) \in Nat
    BY <1>7, <2>1, TailOf DEF Texts
  <2>3. Len(From(cursor)) = Len(line) - cursor
    BY <1>1, LineParts
  <2>4. Len(line') < INPUT_SIZE /\ Len(line') \in Nat
    BY <1>1, <1>7, <2>2, <2>3 DEF CompletionFits
  <2> QED
    BY <1>1, <1>5, <1>7, <2>2, <2>4 DEF Overflows
<1>8. ASSUME NEW w \in Texts, WordStart > 0, cursor' = WordStart + Len(w),
             line' = Before(WordStart) \o w \o From(cursor)
      PROVE  EditorInv' /\ cursor > 0
  <2>1. line' \in Texts /\ Len(line') = WordStart + Len(w) + (Len(line) - cursor) /\ Len(w) \in Nat
    BY <1>1, <1>3, <1>8, Inserted DEF Texts
  <2>2. cursor' \in 0 .. Len(line') /\ cursor > 0
    BY <1>1, <1>3, <1>8, <2>1
  <2> QED
    BY <1>5, <2>1, <2>2
<1> QED
  BY <1>6, <1>7, <1>8, TabLeaves

\* The keys that leave what stands after the cursor.
LEMMA TailSteps == ASSUME EditorInv PROVE KeepsTail
<1>1. Len(line) \in Nat /\ cursor \in Nat /\ cursor \in 0 .. Len(line) /\ line \in Texts
  BY DEF EditorInv, Texts
<1> DEFINE Kept == SubSeq(line', cursor' + 1, Len(line')) = From(cursor)
<1>2. ASSUME key_char PROVE Kept
  <2>1. PICK c \in Typed : line' = Before(cursor) \o <<c>> \o From(cursor)
    BY <1>2 DEF key_char
  <2>2. <<c>> \in Texts /\ Len(<<c>>) = 1
    BY Sizes DEF Texts
  <2>3. cursor' = cursor + 1
    BY <1>2 DEF key_char
  <2> QED
    BY <1>1, <2>1, <2>2, <2>3, Inserted
<1>3. ASSUME key_backspace PROVE Kept
  <2>1. line' = Erased /\ cursor' = cursor - 1 /\ cursor \in 1 .. Len(line)
    BY <1>1, <1>3 DEF key_backspace
  <2> HIDE DEF Erased
  <2> QED
    BY <1>1, <2>1, ErasedIs
<1>4. ASSUME key_tab, WordStart > 0 PROVE Kept
  <2>1. WordStart \in 0 .. Len(line) /\ WordStart \in Nat
    BY <1>1, <1>4, TabLeaves
  <2> HIDE DEF WordStart
  <2>2. CASE line' = line /\ cursor' = cursor
    BY <2>2 DEF From
  <2>3. ASSUME NEW w \in Texts, cursor' = WordStart + Len(w),
               line' = Before(WordStart) \o w \o From(cursor)
        PROVE  Kept
    BY <1>1, <2>1, <2>3, Inserted
  <2>4. ~ (WordStart = 0)
    BY <1>4, <2>1
  <2> QED
    BY <1>4, <2>2, <2>3, <2>4, TabLeaves
<1> QED
  BY <1>2, <1>3, <1>4 DEF KeepsTail

-----------------------------------------------------------------------------
(***************************************************************************)
(* The editor.                                                             *)
(***************************************************************************)
LEMMA InitEditor == Init => EditorInv
<1> SUFFICES ASSUME Init PROVE EditorInv
  OBVIOUS
<1>1. line = <<>> /\ cursor = 0 /\ history = <<>> /\ history_pos = -1
      /\ draft = <<>> /\ draft_saved = FALSE
  BY DEF Init
<1>2. history \in Seq(Fitting) /\ history_count = 0
  BY <1>1 DEF history_count
<1>3. history_pos \in -1 .. history_count - 1
  BY <1>1, <1>2
<1>4. line \in Texts /\ cursor \in 0 .. Len(line)
  BY <1>1, Sizes
<1>5. draft \in Fitting /\ draft_saved \in BOOLEAN
  BY <1>1, Sizes
<1> QED
  BY <1>2, <1>3, <1>4, <1>5 DEF EditorInv

\* What one step keeps, and what it can write beyond the array.
LEMMA EditorStep ==
    ASSUME EditorInv, [Next]_vars
    PROVE  EditorInv' /\ OverflowsByArgument /\ KeepsTail
<1>1. KeepsTail
  BY TailSteps
<1>2. CASE key_backspace \/ key_left \/ key_right \/ key_char
  BY <1>1, <1>2, EditKeys DEF OverflowsByArgument
<1>3. CASE key_up \/ key_down \/ key_return
  BY <1>1, <1>3, HistoryKeys DEF OverflowsByArgument
<1>4. CASE key_tab
  BY <1>1, <1>4, TabKey DEF OverflowsByArgument
<1>5. CASE UNCHANGED vars
  <2>1. line' = line /\ cursor' = cursor /\ history' = history /\ history_pos' = history_pos
        /\ draft' = draft /\ draft_saved' = draft_saved
    BY <1>5 DEF vars
  <2> QED
    BY <1>1, <2>1 DEF EditorInv, OverflowsByArgument, Overflows, history_count
<1> QED
  BY <1>2, <1>3, <1>4, <1>5 DEF Next, no_key

\* What is called back from the history and from the draft always fits the array of the line,
\* and the cursor never leaves the line.
THEOREM EditorInvariant == Spec => []EditorInv
<1>1. EditorInv /\ [Next]_vars => EditorInv'
  BY EditorStep
<1> QED
  BY <1>1, InitEditor, PTL DEF Spec

\* The line and its NUL stay within TERMINAL_INPUT_SIZE, whatever its value, the history and the
\* commands: no key writes beyond but a tab that completes an argument (read_line, line 121).
THEOREM LineFitsCorrect == Spec => LineFits
<1>1. EditorInv /\ [Next]_vars => OverflowsByArgument
  BY EditorStep
<1> QED
  BY <1>1, EditorInvariant, PTL DEF Spec, LineFits

\* Typing, erasing and completing an argument leave what stands after the cursor as it was,
\* for every line: the three memmoves of read_line move the right characters.
THEOREM TailCorrect == Spec => TailKept
<1>1. EditorInv /\ [Next]_vars => KeepsTail
  BY EditorStep
<1> QED
  BY <1>1, EditorInvariant, PTL DEF Spec, TailKept

-----------------------------------------------------------------------------
(***************************************************************************)
(* What the editor draws.                                                  *)
(***************************************************************************)
\* The cursor's row shows t and nothing else, and the cursor is in column n.
Shows(s, t, n) ==
    /\ s.cursor % Width = n
    /\ \A k \in 1 .. Len(t) : s.cells[RowStart(s.cursor) + k - 1] = t[k]
    /\ \A k \in Len(t) + 1 .. Width : s.cells[RowStart(s.cursor) + k - 1] \in {Space, Blank}

\* The inductive invariant of the display: no row below the cursor's has anything on it, so that
\* the prompt of the next line has a blank row, and the row shows the line until it has once
\* been too long for it.
ScreenInv ==
    /\ screen \in Ready /\ LowerBlank(screen) /\ wide \in BOOLEAN
    /\ ~ wide => /\ ~ TooWide(Len(line))
                 /\ Shows(screen, Prompt \o line, Len(Prompt) + cursor)

LEMMA PromptIs ==
    /\ Prompt \in Texts /\ Len(Prompt) \in Nat
    /\ \A out \in Outputs : out \in Seq(Forward)
    /\ <<>> \in Seq(Forward)
    /\ Texts \subseteq Seq(Forward) /\ Texts \subseteq Strings /\ Seq(Forward) \subseteq Strings
<1>1. Prompt \in Texts /\ Len(Prompt) \in Nat /\ \A out \in Outputs : out \in Seq(Forward)
  BY EditorAssumption DEF Texts, Forward
<1>2. Printable \subseteq Forward /\ Forward \subseteq Printable \cup Controls
  BY DEF Forward
<1>3. Texts \subseteq Seq(Forward) /\ Texts \subseteq Strings /\ Seq(Forward) \subseteq Strings
  BY <1>2 DEF Texts, Strings
<1> QED
  BY <1>1, <1>3

\* The blanks that erase the end of a longer line.
LEMMA BlanksAre ==
    ASSUME NEW d \in Int
    PROVE  /\ Blanks(d) \in Texts /\ Len(Blanks(d)) = IF d > 0 THEN d ELSE 0
           /\ \A k \in 1 .. Len(Blanks(d)) : Blanks(d)[k] = Space
<1> DEFINE m == IF d > 0 THEN d ELSE 0
<1>1. Max({0, d}) = m
  <2>1. m \in {0, d} /\ \A y \in {0, d} : m >= y
    OBVIOUS
  <2>2. ASSUME NEW x \in {0, d}, \A y \in {0, d} : x >= y PROVE x = m
    BY <2>2
  <2> HIDE DEF m
  <2> QED
    BY <2>1, <2>2 DEF Max
<1>2. m \in Nat
  OBVIOUS
<1> HIDE DEF m
<1>3. Blanks(d) = [i \in 1 .. m |-> Space]
  BY <1>1 DEF Blanks
<1>4. Space \in Printable
  BY ScreenAssumption
<1>5. Blanks(d) \in Seq(Printable) /\ Len(Blanks(d)) = m
  BY <1>2, <1>3, <1>4
<1> QED
  BY <1>3, <1>5 DEF Texts, m

\* The row that is printed twice, the second time up to the cursor.
Overdrawn(u, s, t, n) ==
    /\ u \in Ready /\ RowStart(u.cursor) = RowStart(s.cursor) /\ u.cursor % Width = n
    /\ \A k \in 1 .. Len(t) : u.cells[RowStart(s.cursor) + k - 1] = t[k]
    /\ \A k \in Len(t) + 1 .. Width :
          u.cells[RowStart(s.cursor) + k - 1] = s.cells[RowStart(s.cursor) + k - 1]

\* One pass: the cursor goes back to the begin of its row, and a text is printed from there.
LEMMA OnePass ==
    ASSUME NEW s \in Ready, NEW t \in Texts, Len(t) < Width
    PROVE  Overdrawn(console_putbytes(console_putbytes(s, <<RETURN>>), t), s, t, Len(t))
<1> DEFINE p == RowStart(s.cursor)
           v == console_putbytes(s, <<RETURN>>)
           u == console_putbytes(v, t)
           n == Len(t)
<1>1. RETURN \in Printable \cup Controls /\ t \in Strings /\ t \in Seq(Printable) /\ n \in Nat
  BY Apart, PromptIs DEF Texts
<1>2. s.cursor \in Nat /\ s.cells \in [Cells -> Chars] /\ s.cursor < EndOfScreen
  BY PlaceOf
<1>3. /\ p \in Nat /\ p % Width = 0 /\ RowStart(p) = p /\ p + Width <= EndOfScreen
  BY <1>2, Rows
<1>4. v = [cells |-> s.cells, cursor |-> p] /\ v \in Ready
  <2>1. v = console_putchar(s, RETURN)
    BY <1>1, PrintOne
  <2>2. v \in Ready
    BY <1>1, <2>1, PutcharReady
  <2>3. (s.cursor \div Width) * Width = p
    BY <1>2, Rows
  <2>4. console_putchar(s, RETURN) = [cells |-> s.cells, cursor |-> p]
    BY <2>3, ReturnIs
  <2> QED
    BY <2>1, <2>2, <2>4
<1> HIDE DEF v, p, n
<1>5. v.cursor = p /\ v.cells = s.cells
  BY <1>4
<1>6. (v.cursor % Width) + Len(t) < Width
  BY <1>1, <1>3, <1>5 DEF n
<1>7. u \in Ready
  BY <1>1, <1>4, PrintReady
<1>8. /\ u.cursor % Width = (v.cursor % Width) + Len(t)
      /\ RowStart(u.cursor) = RowStart(v.cursor)
      /\ Written(u, v, v.cursor, t)
  BY <1>1, <1>4, <1>6, RowPrinted
<1> HIDE DEF u
<1>9. u.cursor % Width = Len(t) /\ RowStart(u.cursor) = p /\ Written(u, s, p, t)
  <2>1. u.cursor % Width = Len(t)
    BY <1>1, <1>3, <1>5, <1>8 DEF n
  <2>2. Written(u, s, p, t)
    BY <1>5, <1>8 DEF Written
  <2> QED
    BY <1>3, <1>5, <1>8, <2>1, <2>2
<1>10. \A k \in 1 .. Width : p + k - 1 \in Cells
  BY <1>3, Dimensions
<1>11. ASSUME NEW k \in 1 .. Len(t) PROVE u.cells[p + k - 1] = t[k]
  <2>1. p + k - 1 \in p .. p + Len(t) - 1 /\ (p + k - 1) - p + 1 = k /\ k \in 1 .. Width
    BY <1>1, <1>3, Dimensions DEF n
  <2> QED
    BY <1>9, <1>10, <2>1 DEF Written
<1>12. ASSUME NEW k \in Len(t) + 1 .. Width PROVE u.cells[p + k - 1] = s.cells[p + k - 1]
  <2>1. ~ (p + k - 1 \in p .. p + Len(t) - 1) /\ k \in 1 .. Width
    BY <1>1, <1>3, Dimensions DEF n
  <2> QED
    BY <1>9, <1>10, <2>1 DEF Written
<1> QED
  BY <1>7, <1>9, <1>11, <1>12 DEF Overdrawn, u, p, v

LEMMA TwoPasses ==
    ASSUME NEW s \in Ready, NEW t \in Texts, Len(t) < Width, NEW z \in Texts, Len(z) <= Len(t),
           \A k \in 1 .. Len(z) : z[k] = t[k]
    PROVE  Overdrawn(console_putbytes(s, ((<<RETURN>> \o t) \o <<RETURN>>) \o z), s, t, Len(z))
<1> DEFINE a == <<RETURN>> \o t
           v == console_putbytes(s, a)
           u == console_putbytes(console_putbytes(v, <<RETURN>>), z)
<1>1. /\ <<RETURN>> \in Strings /\ t \in Strings /\ z \in Strings /\ Len(t) \in Nat /\ Len(z) \in Nat
      /\ a \in Strings /\ a \o <<RETURN>> \in Strings
  <2>1. <<RETURN>> \in Strings
    BY Apart DEF Strings
  <2>2. t \in Strings /\ z \in Strings /\ Len(t) \in Nat /\ Len(z) \in Nat
    BY PromptIs DEF Texts
  <2> QED
    BY <2>1, <2>2, Joined DEF Strings
<1>2. v \in Ready /\ v = console_putbytes(console_putbytes(s, <<RETURN>>), t)
  BY <1>1, PrintReady, PrintJoined
<1>3. console_putbytes(s, (a \o <<RETURN>>) \o z) = u
  <2>1. console_putbytes(s, a \o <<RETURN>>) = console_putbytes(v, <<RETURN>>)
    BY <1>1, PrintJoined
  <2>2. console_putbytes(s, (a \o <<RETURN>>) \o z) = console_putbytes(console_putbytes(s, a \o <<RETURN>>), z)
    BY <1>1, PrintJoined
  <2> QED
    BY <2>1, <2>2
<1>4. Overdrawn(v, s, t, Len(t))
  BY <1>2, OnePass
<1>5. Len(z) < Width
  BY <1>1, Dimensions
<1> HIDE DEF v
<1>6. Overdrawn(u, v, z, Len(z))
  BY <1>2, <1>5, OnePass
<1> HIDE DEF u
<1> DEFINE p == RowStart(s.cursor)
<1>7. RowStart(v.cursor) = p /\ u \in Ready /\ RowStart(u.cursor) = p /\ u.cursor % Width = Len(z)
  BY <1>4, <1>6 DEF Overdrawn
<1>8. /\ \A k \in 1 .. Len(t) : v.cells[p + k - 1] = t[k]
      /\ \A k \in Len(t) + 1 .. Width : v.cells[p + k - 1] = s.cells[p + k - 1]
      /\ \A k \in 1 .. Len(z) : u.cells[p + k - 1] = z[k]
      /\ \A k \in Len(z) + 1 .. Width : u.cells[p + k - 1] = v.cells[p + k - 1]
  BY <1>4, <1>6, <1>7 DEF Overdrawn
<1> HIDE DEF p
<1>9. ASSUME NEW k \in 1 .. Len(t) PROVE u.cells[p + k - 1] = t[k]
  <2>1. k \in 1 .. Len(z) \/ k \in Len(z) + 1 .. Width
    BY <1>1, Dimensions
  <2> QED
    BY <1>8, <2>1
<1>10. ASSUME NEW k \in Len(t) + 1 .. Width PROVE u.cells[p + k - 1] = s.cells[p + k - 1]
  <2>1. k \in Len(z) + 1 .. Width
    BY <1>1, Dimensions
  <2> QED
    BY <1>8, <2>1
<1>11. Overdrawn(u, s, t, Len(z))
  BY <1>7, <1>9, <1>10 DEF Overdrawn, p
<1> QED
  BY <1>3, <1>11 DEF a

LEMMA JoinedTexts ==
    ASSUME NEW a \in Texts, NEW b \in Texts
    PROVE  /\ a \o b \in Texts /\ Len(a) \in Nat /\ Len(b) \in Nat /\ Len(a \o b) = Len(a) + Len(b)
           /\ \A k \in 1 .. Len(a) : (a \o b)[k] = a[k]
           /\ \A k \in 1 .. Len(b) : (a \o b)[Len(a) + k] = b[k]
  BY Joined DEF Texts

\* What redraw_input prints, in two passes.
LEMMA RedrawText ==
    ASSUME NEW b \in Texts, NEW c \in Texts, NEW z \in Texts
    PROVE  <<RETURN>> \o Prompt \o b \o c \o <<RETURN>> \o Prompt \o z
               = ((<<RETURN>> \o ((Prompt \o b) \o c)) \o <<RETURN>>) \o (Prompt \o z)
<1> DEFINE r == <<RETURN>>
           p == Prompt
           S == Printable \cup Controls
<1>1. r \in Seq(S) /\ b \in Seq(S) /\ c \in Seq(S) /\ z \in Seq(S) /\ p \in Seq(S)
  <2>1. RETURN \in S
    BY Apart
  <2> QED
    BY <2>1, PromptIs DEF Strings
<1> DEFINE q == p \o b
           e == r \o (q \o c)
           f == e \o r
<1> HIDE DEF r, p, S
<1>2. (r \o p) \o b = r \o q /\ q \in Seq(S)
  BY <1>1
<1> HIDE DEF q
<1>3. (r \o q) \o c = e /\ e \in Seq(S)
  <2>1. r \in Seq(S) /\ q \in Seq(S) /\ c \in Seq(S)
    BY <1>1, <1>2
  <2>2. (r \o q) \o c = r \o (q \o c)
    BY <2>1
  <2>3. q \o c \in Seq(S)
    BY <2>1
  <2>4. r \o (q \o c) \in Seq(S)
    BY <2>1, <2>3
  <2> QED
    BY <2>2, <2>4
<1> HIDE DEF e
<1>4. f \in Seq(S)
  BY <1>1, <1>3
<1> HIDE DEF f
<1>5. (f \o p) \o z = f \o (p \o z)
  BY <1>1, <1>4
<1>6. (((((r \o p) \o b) \o c) \o r) \o p) \o z = (f \o p) \o z
  BY <1>2, <1>3 DEF f
<1> QED
  BY <1>5, <1>6 DEF r, p, q, e, f

\* A line that fits on its row is drawn over another one that did.
LEMMA RedrawShows ==
    ASSUME NEW s \in Ready, NEW old \in Texts, NEW o, Shows(s, Prompt \o old, o),
           ~ TooWide(Len(old)),
           NEW l \in Texts, NEW n \in 0 .. Len(l), ~ TooWide(Len(l))
    PROVE  Shows(redraw_input(s, l, n, Len(old)), Prompt \o l, Len(Prompt) + n)
<1> DEFINE d == Len(old) - Len(l)
           b == Blanks(d)
           z == SubSeq(l, 1, n)
           x == Prompt \o l
           t == x \o b
           y == Prompt \o z
           u == redraw_input(s, l, n, Len(old))
<1>1. Len(old) \in Nat /\ Len(l) \in Nat /\ Len(Prompt) \in Nat /\ Prompt \in Texts /\ d \in Int
  BY PromptIs DEF Texts
<1>2. Len(Prompt) + Len(old) < Width /\ Len(Prompt) + Len(l) < Width
  BY <1>1, Dimensions DEF TooWide
<1>3. b \in Texts /\ Len(b) = (IF d > 0 THEN d ELSE 0) /\ \A k \in 1 .. Len(b) : b[k] = Space
  BY <1>1, BlanksAre
<1>4. z \in Texts /\ Len(z) = n /\ \A k \in 1 .. n : z[k] = l[k]
  BY Parts DEF Texts
<1>5. /\ x \in Texts /\ Len(x) = Len(Prompt) + Len(l)
      /\ \A k \in 1 .. Len(Prompt) : x[k] = Prompt[k]
      /\ \A k \in 1 .. Len(l) : x[Len(Prompt) + k] = l[k]
  BY <1>1, Joined DEF Texts
<1>6. /\ Len(Prompt \o old) = Len(Prompt) + Len(old)
  BY <1>1, Joined DEF Texts
<1>7. /\ y \in Texts /\ Len(y) = Len(Prompt) + n
      /\ \A k \in 1 .. Len(Prompt) : y[k] = Prompt[k]
      /\ \A k \in 1 .. n : y[Len(Prompt) + k] = z[k]
  <2> HIDE DEF z
  <2>1. /\ y \in Texts /\ Len(y) = Len(Prompt) + Len(z)
        /\ \A k \in 1 .. Len(Prompt) : y[k] = Prompt[k]
        /\ \A k \in 1 .. Len(z) : y[Len(Prompt) + k] = z[k]
    BY <1>1, <1>4, JoinedTexts
  <2>2. Len(z) = n
    BY <1>4
  <2> HIDE DEF y
  <2> QED
    BY <2>1, <2>2
<1>8. u = console_putbytes(s, ((<<RETURN>> \o t) \o <<RETURN>>) \o y)
  <2>1. u = console_putbytes(s, <<RETURN>> \o Prompt \o l \o b \o <<RETURN>> \o Prompt \o z)
    BY DEF redraw_input
  <2> HIDE DEF b, z, u
  <2> QED
    BY <1>3, <1>4, <2>1, RedrawText
<1> HIDE DEF b, z, x, y, u
<1>9. /\ t \in Texts /\ Len(t) = Len(x) + Len(b)
      /\ \A k \in 1 .. Len(x) : t[k] = x[k]
      /\ \A k \in 1 .. Len(b) : t[Len(x) + k] = b[k]
  BY <1>3, <1>5, JoinedTexts
<1> HIDE DEF t
<1>10. Len(t) \in Nat /\ Len(t) < Width /\ Len(y) \in Nat /\ Len(y) <= Len(t) /\ Len(x) <= Len(t)
       /\ Len(Prompt) + Len(old) <= Len(t) /\ Len(x) \in Nat /\ Len(b) \in Nat
  <2> DEFINE lp == Len(Prompt)
             lo == Len(old)
             ll == Len(l)
             m  == Len(t)
  <2>1. /\ lp \in Nat /\ lo \in Nat /\ ll \in Nat /\ lp + lo < Width /\ lp + ll < Width
        /\ m = lp + ll + (IF lo - ll > 0 THEN lo - ll ELSE 0) /\ Width \in Nat
    <3>1. lp \in Nat /\ lo \in Nat /\ ll \in Nat /\ lp + lo < Width /\ lp + ll < Width /\ Width \in Nat
      BY <1>1, <1>2, Dimensions
    <3>2. m = Len(x) + Len(b) /\ Len(x) = lp + ll /\ Len(b) = (IF lo - ll > 0 THEN lo - ll ELSE 0)
      BY <1>3, <1>5, <1>9
    <3> HIDE DEF lp, lo, ll, m
    <3> QED
      BY <3>1, <3>2
  <2> HIDE DEF lp, lo, ll, m
  <2>2. m \in Nat /\ m < Width /\ lp + ll <= m /\ lp + lo <= m
    BY <2>1
  <2>3. /\ Len(t) \in Nat /\ Len(t) < Width /\ Len(Prompt) + Len(l) <= Len(t)
        /\ Len(Prompt) + Len(old) <= Len(t)
    BY <2>2 DEF lp, lo, ll, m
  <2>4. n \in Nat /\ n <= Len(l)
    BY <1>1
  <2>5. Len(y) \in Nat /\ Len(x) \in Nat /\ Len(y) <= Len(x) /\ Len(x) = Len(Prompt) + Len(l)
    BY <1>1, <1>5, <1>7, <2>4
  <2>6. Len(b) \in Nat
    BY <1>1, <1>3
  <2> QED
    BY <2>3, <2>5, <2>6
<1>11. ASSUME NEW k \in 1 .. Len(y) PROVE y[k] = t[k]
  <2>1. k \in 1 .. Len(x)
    BY <1>1, <1>5, <1>7, <1>10
  <2>2. y[k] = x[k]
    <3>1. CASE k \in 1 .. Len(Prompt)
      BY <1>5, <1>7, <3>1
    <3>2. CASE ~ (k \in 1 .. Len(Prompt))
      <4>1. k - Len(Prompt) \in 1 .. n /\ k = Len(Prompt) + (k - Len(Prompt)) /\ k - Len(Prompt) \in 1 .. Len(l)
        BY <1>1, <1>7, <3>2
      <4> DEFINE m == k - Len(Prompt)
      <4>2. m \in 1 .. n /\ m \in 1 .. Len(l) /\ k = Len(Prompt) + m
        BY <4>1
      <4> HIDE DEF m
      <4>3. y[k] = l[m] /\ x[k] = l[m]
        BY <1>4, <1>5, <1>7, <4>2
      <4> QED
        BY <4>3
    <3> QED
      BY <3>1, <3>2
  <2> QED
    BY <1>9, <2>1, <2>2
<1>12. Overdrawn(u, s, t, Len(y))
  BY <1>7, <1>8, <1>9, <1>10, <1>11, TwoPasses
<1> DEFINE p == RowStart(s.cursor)
<1>13. /\ RowStart(u.cursor) = p /\ u.cursor % Width = Len(y)
       /\ \A k \in 1 .. Len(t) : u.cells[p + k - 1] = t[k]
       /\ \A k \in Len(t) + 1 .. Width : u.cells[p + k - 1] = s.cells[p + k - 1]
  BY <1>12 DEF Overdrawn
<1>14. \A k \in Len(Prompt) + Len(old) + 1 .. Width : s.cells[p + k - 1] \in {Space, Blank}
  BY <1>6 DEF Shows
<1> HIDE DEF p
<1>15. \A k \in 1 .. Len(x) : u.cells[p + k - 1] = x[k]
  <2>1. \A k \in 1 .. Len(x) : k \in 1 .. Len(t)
    BY <1>1, <1>5, <1>10
  <2> QED
    BY <1>9, <1>13, <2>1
<1>16. ASSUME NEW k \in Len(x) + 1 .. Width PROVE u.cells[p + k - 1] \in {Space, Blank}
  <2>1. CASE k <= Len(t)
    <3>1. k \in 1 .. Len(t) /\ k - Len(x) \in 1 .. Len(b) /\ k = Len(x) + (k - Len(x))
      BY <1>9, <1>10, <2>1
    <3>2. u.cells[p + k - 1] = t[k]
      BY <1>13, <3>1
    <3>3. t[k] = b[k - Len(x)]
      BY <1>9, <3>1
    <3> QED
      BY <1>3, <3>1, <3>2, <3>3
  <2>2. CASE ~ (k <= Len(t))
    <3>1. k \in Len(t) + 1 .. Width /\ k \in Len(Prompt) + Len(old) + 1 .. Width
      BY <1>1, <1>5, <1>10, <2>2, Dimensions
    <3> QED
      BY <1>13, <1>14, <3>1
  <2> QED
    BY <2>1, <2>2
<1> QED
  BY <1>7, <1>13, <1>15, <1>16 DEF Shows, x, u

\* The prompt of a new line, on a row that nothing stands on.
LEMMA PromptShows ==
    ASSUME NEW s \in Ready, LowerBlank(s), ~ TooWide(0)
    PROVE  Shows(console_putbytes(console_putbytes(s, <<NEWLINE>>), Prompt), Prompt \o <<>>, Len(Prompt) + 0)
<1> DEFINE v == console_putbytes(s, <<NEWLINE>>)
           u == console_putbytes(v, Prompt)
           p == v.cursor
           n == Len(Prompt)
<1>1. Prompt \in Seq(Printable) /\ n \in Nat /\ NEWLINE \in Printable \cup Controls
      /\ n + 0 = n /\ Prompt \o <<>> = Prompt
  BY PromptIs, Apart DEF Texts
<1>2. v \in Ready /\ Fresh(v)
  <2>1. v = console_putchar(s, NEWLINE)
    BY <1>1, PrintOne
  <2> QED
    BY <1>1, <2>1, PutcharReady, NewlineFresh
<1> HIDE DEF v
<1>3. /\ p \in Nat /\ p % Width = 0 /\ RowStart(p) = p /\ p + Width <= EndOfScreen
      /\ \A i \in Cells : i >= p => v.cells[i] = Blank
  <2>1. p \in Nat /\ p < EndOfScreen
    BY <1>2, PlaceOf
  <2>2. p % Width = 0 /\ \A i \in Cells : i >= p => v.cells[i] = Blank
    BY <1>2 DEF Fresh
  <2>3. RowStart(p) = p
    BY <2>1, <2>2 DEF RowStart
  <2>4. p + Width <= EndOfScreen
    BY <2>1, <2>3, Rows
  <2> QED
    BY <2>1, <2>2, <2>3, <2>4
<1>4. (v.cursor % Width) + Len(Prompt) < Width
  <2>1. ~ (n + 0 >= Width)
    BY DEF TooWide
  <2> HIDE DEF n, p
  <2>2. (p % Width) + n < Width
    BY <1>1, <1>3, <2>1, Dimensions
  <2> QED
    BY <2>2 DEF n, p
<1>5. /\ u.cursor % Width = (v.cursor % Width) + Len(Prompt)
      /\ RowStart(u.cursor) = RowStart(v.cursor)
      /\ Written(u, v, v.cursor, Prompt)
  BY <1>1, <1>2, <1>4, RowPrinted
<1> HIDE DEF u
<1>6. u.cursor % Width = n /\ RowStart(u.cursor) = p /\ Written(u, v, p, Prompt)
  <2> HIDE DEF n
  <2>1. u.cursor % Width = n
    BY <1>1, <1>3, <1>5 DEF n
  <2> QED
    BY <1>3, <1>5, <2>1
<1> HIDE DEF p
<1>7. \A k \in 1 .. Width : p + k - 1 \in Cells /\ p + k - 1 >= p
  BY <1>3, Dimensions
<1>8. n < Width
  BY <1>1, <1>3, <1>4, Dimensions DEF p
<1>9. ASSUME NEW k \in 1 .. Len(Prompt) PROVE u.cells[p + k - 1] = Prompt[k]
  <2>1. p + k - 1 \in p .. p + Len(Prompt) - 1 /\ (p + k - 1) - p + 1 = k /\ k \in 1 .. Width
    BY <1>1, <1>3, <1>8, Dimensions
  <2> QED
    BY <1>6, <1>7, <2>1 DEF Written
<1>10. ASSUME NEW k \in Len(Prompt) + 1 .. Width PROVE u.cells[p + k - 1] \in {Space, Blank}
  <2>1. ~ (p + k - 1 \in p .. p + Len(Prompt) - 1) /\ k \in 1 .. Width
    BY <1>1, <1>3, <1>8, Dimensions
  <2>2. u.cells[p + k - 1] = v.cells[p + k - 1]
    BY <1>6, <1>7, <2>1 DEF Written
  <2> QED
    BY <1>3, <1>7, <2>1, <2>2
<1>11. Shows(u, Prompt, n)
  BY <1>6, <1>9, <1>10 DEF Shows
<1> QED
  BY <1>1, <1>11 DEF u, v

\* What is printed without a backspace leaves the rows below blank.
LEMMA Printed ==
    ASSUME NEW s \in Ready, LowerBlank(s), NEW t \in Seq(Forward)
    PROVE  console_putbytes(s, t) \in Ready /\ LowerBlank(console_putbytes(s, t))
  BY PrintReady, PrintLower, PromptIs

LEMMA NewLine ==
    ASSUME NEW s \in Ready, LowerBlank(s), NEW t \in Seq(Forward)
    PROVE  LET u == console_putbytes(s, (t \o <<NEWLINE>>) \o Prompt)
           IN  /\ u \in Ready /\ LowerBlank(u)
               /\ ~ TooWide(0) => Shows(u, Prompt \o <<>>, Len(Prompt) + 0)
<1> DEFINE a == t \o <<NEWLINE>>
<1>1. <<NEWLINE>> \in Seq(Forward) /\ Prompt \in Seq(Forward)
  BY PromptIs, Apart DEF Forward
<1>2. a \in Seq(Forward)
  BY <1>1, Joined
<1>3. a \o Prompt \in Seq(Forward)
  <2> HIDE DEF a
  <2> QED
    BY <1>1, <1>2, Joined
<1>4. t \in Strings /\ <<NEWLINE>> \in Strings /\ Prompt \in Strings /\ a \in Strings
  BY <1>1, <1>2, PromptIs
<1>5. console_putbytes(s, a \o Prompt)
          = console_putbytes(console_putbytes(console_putbytes(s, t), <<NEWLINE>>), Prompt)
  <2>1. console_putbytes(s, a) = console_putbytes(console_putbytes(s, t), <<NEWLINE>>)
    BY <1>4, PrintJoined
  <2> HIDE DEF a
  <2> QED
    BY <1>4, <2>1, PrintJoined
<1>6. console_putbytes(s, t) \in Ready /\ LowerBlank(console_putbytes(s, t))
  BY Printed
<1>7. ~ TooWide(0) => Shows(console_putbytes(s, a \o Prompt), Prompt \o <<>>, Len(Prompt) + 0)
  BY <1>5, <1>6, PromptShows
<1>8. console_putbytes(s, a \o Prompt) \in Ready /\ LowerBlank(console_putbytes(s, a \o Prompt))
  <2> HIDE DEF a
  <2> QED
    BY <1>3, Printed
<1> QED
  BY <1>7, <1>8 DEF a

\* The keys that end in redraw_input.
LEMMA RedrawnKeeps ==
    ASSUME EditorInv, EditorInv', ScreenInv, Redrawn
    PROVE  ScreenInv'
<1>1. /\ line \in Texts /\ Len(line) \in Nat /\ line' \in Texts /\ cursor' \in 0 .. Len(line')
      /\ screen \in Ready /\ LowerBlank(screen) /\ wide \in BOOLEAN
      /\ screen' = redraw_input(screen, line', cursor', Len(line))
      /\ wide' = (wide \/ TooWide(Len(line)) \/ TooWide(Len(line')))
  BY DEF EditorInv, ScreenInv, Redrawn, Texts
<1>2. wide' \in BOOLEAN
  BY <1>1
<1>3. screen' \in Ready /\ LowerBlank(screen')
  <2> DEFINE l == line'
             b == Blanks(Len(line) - Len(l))
             z == SubSeq(l, 1, cursor')
  <2>1. l \in Texts /\ z \in Texts /\ b \in Texts
    <3>1. Len(line) - Len(l) \in Int
      BY <1>1 DEF Texts
    <3> QED
      BY <1>1, <3>1, Parts, BlanksAre
  <2>2. screen' = console_putbytes(screen, <<RETURN>> \o Prompt \o l \o b \o <<RETURN>> \o Prompt \o z)
    BY <1>1 DEF redraw_input
  <2> HIDE DEF l, b, z
  <2>3. <<RETURN>> \in Seq(Forward) /\ Prompt \in Seq(Forward)
        /\ l \in Seq(Forward) /\ b \in Seq(Forward) /\ z \in Seq(Forward)
    BY <2>1, PromptIs, Apart DEF Forward
  <2>4. \A x, y \in Seq(Forward) : x \o y \in Seq(Forward)
    OBVIOUS
  <2>5. <<RETURN>> \o Prompt \o l \o b \o <<RETURN>> \o Prompt \o z \in Seq(Forward)
    BY <2>3, <2>4
  <2> QED
    BY <1>1, <2>2, <2>5, Printed
<1>4. ASSUME ~ wide' PROVE ~ TooWide(Len(line')) /\ Shows(screen', Prompt \o line', Len(Prompt) + cursor')
  <2>1. ~ wide /\ ~ TooWide(Len(line)) /\ ~ TooWide(Len(line'))
    BY <1>1, <1>4
  <2>2. Shows(screen, Prompt \o line, Len(Prompt) + cursor)
    BY <2>1 DEF ScreenInv
  <2> QED
    BY <1>1, <2>1, <2>2, RedrawShows
<1> QED
  BY <1>2, <1>3, <1>4 DEF ScreenInv

LEMMA ReturnKeeps ==
    ASSUME ScreenInv, key_return
    PROVE  ScreenInv'
<1>1. screen \in Ready /\ LowerBlank(screen)
  BY DEF ScreenInv
<1>2. PICK out \in IF line = <<>> THEN {<<>>} ELSE Outputs :
          screen' = console_putbytes(screen, <<NEWLINE>> \o out \o <<NEWLINE>> \o Prompt)
  BY DEF key_return
<1>3. line' = <<>> /\ cursor' = 0 /\ wide' = TooWide(0) /\ Len(<<>>) = 0
  BY DEF key_return
<1>4. out \in Seq(Forward)
  BY <1>2, PromptIs
<1> DEFINE t == <<NEWLINE>> \o out
<1>5. t \in Seq(Forward)
  <2>1. <<NEWLINE>> \in Seq(Forward)
    BY Apart DEF Forward
  <2> QED
    BY <1>4, <2>1, Joined
<1>6. screen' = console_putbytes(screen, (t \o <<NEWLINE>>) \o Prompt)
  BY <1>2
<1> HIDE DEF t
<1>7. /\ screen' \in Ready /\ LowerBlank(screen')
      /\ ~ TooWide(0) => Shows(screen', Prompt \o <<>>, Len(Prompt) + 0)
  BY <1>1, <1>5, <1>6, NewLine
<1>8. wide' \in BOOLEAN
  BY <1>3 DEF TooWide
<1> QED
  BY <1>3, <1>7, <1>8 DEF ScreenInv

LEMMA InitScreen == Init => ScreenInv
<1> SUFFICES ASSUME Init PROVE ScreenInv
  OBVIOUS
<1> DEFINE s == [cells |-> [i \in Cells |-> Blank], cursor |-> 0]
           t == <<FORMFEED>>
<1>1. screen = console_putbytes(s, <<FORMFEED, NEWLINE>> \o Prompt) /\ wide = TooWide(0)
      /\ line = <<>> /\ cursor = 0 /\ Len(<<>>) = 0
  BY DEF Init
<1>2. s \in Ready
  <2>1. 0 \in 0 .. EndOfScreen - 1 /\ Blank \in Chars
    BY Dimensions DEF Chars
  <2> QED
    BY <2>1 DEF Ready
<1>3. LowerBlank(s)
  BY DEF LowerBlank
<1>4. t \in Seq(Forward) /\ <<FORMFEED, NEWLINE>> = t \o <<NEWLINE>>
  BY Apart DEF Forward
<1> HIDE DEF s, t
<1>5. /\ screen \in Ready /\ LowerBlank(screen)
      /\ ~ TooWide(0) => Shows(screen, Prompt \o <<>>, Len(Prompt) + 0)
  BY <1>1, <1>2, <1>3, <1>4, NewLine
<1>6. wide \in BOOLEAN
  BY <1>1 DEF TooWide
<1> QED
  BY <1>1, <1>5, <1>6 DEF ScreenInv

LEMMA ScreenStep ==
    ASSUME EditorInv, EditorInv', ScreenInv, [Next]_vars
    PROVE  ScreenInv'
<1>1. ASSUME line' = line, cursor' = cursor, screen' = screen, wide' = wide PROVE ScreenInv'
  BY <1>1 DEF ScreenInv
<1>2. CASE key_backspace \/ key_left \/ key_right \/ key_char \/ key_down \/ key_tab
  <2>1. Redrawn
    BY <1>2 DEF key_backspace, key_left, key_right, key_char, key_down, key_tab
  <2> QED
    BY <2>1, RedrawnKeeps
<1>3. CASE key_up
  <2>1. Redrawn \/ UNCHANGED <<edited, screen, wide>>
    BY <1>3 DEF key_up
  <2> QED
    BY <1>1, <2>1, RedrawnKeeps DEF edited
<1>4. CASE key_return
  BY <1>4, ReturnKeeps
<1>5. CASE UNCHANGED vars
  BY <1>1, <1>5 DEF vars
<1> QED
  BY <1>2, <1>3, <1>4, <1>5 DEF Next, no_key

LEMMA DisplayIs ==
    ASSUME EditorInv, ScreenInv
    PROVE  DisplayMatches
<1> SUFFICES ASSUME ~ wide
             PROVE  LET text == Prompt \o line
                    IN  /\ SubSeq(RowShown, 1, Len(text)) = text
                        /\ \A x \in Len(text) + 1 .. Width : RowShown[x] \in {Space, Blank}
                        /\ Column(screen) = Len(Prompt) + cursor
  BY DEF DisplayMatches
<1> DEFINE text == Prompt \o line
           p == RowStart(screen.cursor)
           n == Len(text)
<1>1. /\ text \in Texts /\ n \in Nat /\ n < Width
  <2>1. Prompt \in Texts /\ line \in Texts /\ ~ TooWide(Len(line)) /\ Len(Prompt) \in Nat /\ Len(line) \in Nat
    BY PromptIs DEF EditorInv, ScreenInv, Texts
  <2>2. text \in Texts /\ n = Len(Prompt) + Len(line)
    BY <2>1, Joined DEF Texts
  <2> HIDE DEF text, n
  <2> QED
    BY <2>1, <2>2, Dimensions DEF TooWide
<1>2. Shows(screen, text, Len(Prompt) + cursor)
  BY DEF ScreenInv
<1>3. screen.cursor \in Nat /\ screen.cells \in [Cells -> Chars]
  BY PlaceOf DEF ScreenInv
<1>4. \A x \in 1 .. Width : Position(x - 1, Row(screen)) = p + x - 1
  <2> DEFINE q == (screen.cursor \div Width) * Width
  <2>1. q = p /\ q \in Nat
    BY <1>3, Rows
  <2>2. \A x : Position(x, Row(screen)) = q + x
    BY DEF Position, Row
  <2> HIDE DEF q, p
  <2> QED
    BY <2>1, <2>2
<1>5. RowShown = [x \in 1 .. Width |-> screen.cells[Position(x - 1, Row(screen))]]
  BY DEF RowShown, Line
<1>6. \A x \in 1 .. Width : RowShown[x] = screen.cells[p + x - 1]
  BY <1>4, <1>5
<1> HIDE DEF text, p, n
<1>7. RowShown \in Seq(Chars) /\ Len(RowShown) = Width
  <2>1. \A x \in 1 .. Width : p + x - 1 \in Cells
    <3>1. p \in Nat /\ p + Width <= EndOfScreen
      <4>1. screen.cursor < EndOfScreen
        BY PlaceOf DEF ScreenInv
      <4> QED
        BY <1>3, <4>1, Rows DEF p
    <3> QED
      BY <3>1, Dimensions
  <2>2. RowShown \in [1 .. Width -> Chars]
    BY <1>3, <1>5, <1>6, <2>1
  <2> QED
    BY <2>2, Dimensions
<1> HIDE DEF RowShown
<1>8. SubSeq(RowShown, 1, n) = text
  <2>1. /\ SubSeq(RowShown, 1, n) \in Seq(Chars) /\ Len(SubSeq(RowShown, 1, n)) = n
        /\ \A k \in 1 .. n : SubSeq(RowShown, 1, n)[k] = RowShown[k]
    BY <1>1, <1>7, Dimensions
  <2>2. \A k \in 1 .. n : RowShown[k] = text[k]
    <3>1. \A k \in 1 .. n : k \in 1 .. Width
      BY <1>1, Dimensions
    <3> QED
      BY <1>2, <1>6, <3>1 DEF Shows, n, p
  <2>3. text \in Seq(Chars) /\ Len(text) = n
    BY <1>1 DEF Texts, Chars, n
  <2> QED
    BY <2>1, <2>2, <2>3
<1>9. \A x \in n + 1 .. Width : RowShown[x] \in {Space, Blank}
  <2>1. \A x \in n + 1 .. Width : x \in 1 .. Width
    BY <1>1, Dimensions
  <2> QED
    BY <1>2, <1>6, <2>1 DEF Shows, n, p
<1>10. Column(screen) = Len(Prompt) + cursor
  BY <1>2 DEF Shows, Column
<1> QED
  BY <1>8, <1>9, <1>10 DEF text, n

\* What the user sees is what the terminal will execute, on every size of the screen, for every
\* prompt and any keys: until the line has been too long for the row of its prompt, redraw_input
\* leaves there the prompt and the line, nothing of what it shows was erased or called back
\* before, and the cursor at the place where the next key edits.
THEOREM DisplayCorrect == Spec => []DisplayMatches
<1>1. EditorInv /\ ScreenInv /\ [Next]_vars => EditorInv' /\ ScreenInv'
  BY EditorStep, ScreenStep
<1>2. Init => EditorInv /\ ScreenInv
  BY InitEditor, InitScreen
<1>3. EditorInv /\ ScreenInv => DisplayMatches
  BY DisplayIs
<1> QED
  BY <1>1, <1>2, <1>3, PTL DEF Spec

-----------------------------------------------------------------------------
(***************************************************************************)
(* The snake.                                                              *)
(***************************************************************************)
Points == Int \X Int

-----------------------------------------------------------------------------
(* Steps on the board.                                                     *)

LEMMA Steps ==
    ASSUME NEW p \in Points
    PROVE  /\ Step(p, UP)    = <<p[1], p[2] - 1>>
           /\ Step(p, DOWN)  = <<p[1], p[2] + 1>>
           /\ Step(p, LEFT)  = <<p[1] - 1, p[2]>>
           /\ Step(p, RIGHT) = <<p[1] + 1, p[2]>>
<1>1. Step(p, UP) = <<p[1], p[2] - 1>>
  BY DEF Step, UP, DOWN, LEFT, RIGHT
<1>2. Step(p, DOWN) = <<p[1], p[2] + 1>>
  BY DEF Step, UP, DOWN, LEFT, RIGHT
<1>3. Step(p, LEFT) = <<p[1] - 1, p[2]>>
  BY DEF Step, UP, DOWN, LEFT, RIGHT
<1>4. Step(p, RIGHT) = <<p[1] + 1, p[2]>>
  BY DEF Step, UP, DOWN, LEFT, RIGHT
<1> QED
  BY <1>1, <1>2, <1>3, <1>4

LEMMA Opposites ==
    /\ Opposite[UP] = DOWN /\ Opposite[DOWN] = UP
    /\ Opposite[LEFT] = RIGHT /\ Opposite[RIGHT] = LEFT
    /\ \A d \in Directions : Opposite[d] \in Directions /\ Opposite[Opposite[d]] = d
<1>1. Opposite[UP] = DOWN
  BY DEF Opposite, Directions, UP, DOWN, LEFT, RIGHT
<1>2. Opposite[DOWN] = UP
  BY DEF Opposite, Directions, UP, DOWN, LEFT, RIGHT
<1>3. Opposite[LEFT] = RIGHT
  BY DEF Opposite, Directions, UP, DOWN, LEFT, RIGHT
<1>4. Opposite[RIGHT] = LEFT
  BY DEF Opposite, Directions, UP, DOWN, LEFT, RIGHT
<1>5. \A d \in Directions : Opposite[d] \in Directions /\ Opposite[Opposite[d]] = d
  BY <1>1, <1>2, <1>3, <1>4 DEF Directions
<1> QED
  BY <1>1, <1>2, <1>3, <1>4, <1>5

\* A step leads to another point, and two steps lead back only if they are opposite.
LEMMA StepLeads ==
    ASSUME NEW p \in Points, NEW d \in Directions
    PROVE  /\ Step(p, d) \in Points /\ Step(p, d) # p
           /\ \A e \in Directions : Step(Step(p, d), e) = p => e = Opposite[d]
<1>1. Directions = {UP, DOWN, LEFT, RIGHT}
  BY DEF Directions
<1>2. Step(p, d) \in Points /\ Step(p, d) # p
  <2>1. p[1] \in Int /\ p[2] \in Int
    BY DEF Points
  <2>2. \A x \in Int, y \in Int : <<x, y>> \in Points /\ <<x, y>>[1] = x /\ <<x, y>>[2] = y
    BY DEF Points
  <2>3. CASE d = UP
    <3>1. Step(p, d) = <<p[1], p[2] - 1>>
      BY <2>3, Steps
    <3>2. Step(p, d) \in Points /\ Step(p, d)[2] # p[2]
      BY <2>1, <2>2, <3>1
    <3> QED
      BY <3>2
  <2>4. CASE d = DOWN
    <3>1. Step(p, d) = <<p[1], p[2] + 1>>
      BY <2>4, Steps
    <3>2. Step(p, d) \in Points /\ Step(p, d)[2] # p[2]
      BY <2>1, <2>2, <3>1
    <3> QED
      BY <3>2
  <2>5. CASE d = LEFT
    <3>1. Step(p, d) = <<p[1] - 1, p[2]>>
      BY <2>5, Steps
    <3>2. Step(p, d) \in Points /\ Step(p, d)[1] # p[1]
      BY <2>1, <2>2, <3>1
    <3> QED
      BY <3>2
  <2>6. CASE d = RIGHT
    <3>1. Step(p, d) = <<p[1] + 1, p[2]>>
      BY <2>6, Steps
    <3>2. Step(p, d) \in Points /\ Step(p, d)[1] # p[1]
      BY <2>1, <2>2, <3>1
    <3> QED
      BY <3>2
  <2> QED
    BY <2>3, <2>4, <2>5, <2>6, <1>1
<1>3. ASSUME NEW e \in Directions, Step(Step(p, d), e) = p PROVE e = Opposite[d]
  <2> DEFINE q == Step(p, d)
  <2>1. q \in Points /\ Step(q, e)[1] = p[1] /\ Step(q, e)[2] = p[2] /\ {p[1], p[2]} \subseteq Int
    BY <1>2, <1>3 DEF Points
  <2>2. CASE d = UP
    BY <2>1, <2>2, <1>1, Steps, Opposites
  <2>3. CASE d = DOWN
    BY <2>1, <2>3, <1>1, Steps, Opposites
  <2>4. CASE d = LEFT
    BY <2>1, <2>4, <1>1, Steps, Opposites
  <2>5. CASE d = RIGHT
    BY <2>1, <2>5, <1>1, Steps, Opposites
  <2> QED
    BY <2>2, <2>3, <2>4, <2>5, <1>1
<1> QED
  BY <1>2, <1>3

-----------------------------------------------------------------------------
(***************************************************************************)
(* The inductive invariant: the snake has come the way it is heading, and  *)
(* the direction asked for is not the way back.                            *)
(***************************************************************************)
IsPath(b) == \A i \in 1 .. Len(b) - 1 : \E d \in Directions : b[i] = Step(b[i + 1], d)

SnakeInv ==
    /\ body \in Seq(Points) /\ Len(body) >= 3
    /\ direction \in Directions /\ next_direction \in Directions
    /\ next_direction # Opposite[direction]
    /\ phase = "playing" => body[1] = Step(body[2], direction)
    /\ food \in Inside
    /\ score \in Nat
    /\ BodyIsPath
    /\ FoodFree

LEMMA InsidePoints == Inside \subseteq Points
  BY SnakeAssumption DEF Inside, Points

LEMMA FirstNumbers ==
    ASSUME NEW n \in Nat
    PROVE  IsFiniteSet(1 .. n) /\ Cardinality(1 .. n) = n
<1>1. IsFiniteSet(1 .. n) /\ Cardinality(1 .. n) = IF 1 > n THEN 0 ELSE n - 1 + 1
  BY FS_Interval
<1> QED
  BY <1>1

\* A snake of distinct cells inside the walls that leaves one for the food fits in the array
\* with one cell more.
LEMMA RoomToGrow ==
    ASSUME NEW b \in Seq(Points), ToSet(b) \subseteq Inside, IsInjective(b),
           NEW f \in Inside, f \notin ToSet(b)
    PROVE  Len(b) < MAX_SNAKE
<1> DEFINE Rest == Inside \ {f}
<1>1. IsFiniteSet(Inside) /\ Cardinality(Inside) = (GAME_WIDTH - 2) * (GAME_HEIGHT - 2)
  <2>1. /\ IsFiniteSet(1 .. GAME_WIDTH - 2) /\ Cardinality(1 .. GAME_WIDTH - 2) = GAME_WIDTH - 2
        /\ IsFiniteSet(1 .. GAME_HEIGHT - 2) /\ Cardinality(1 .. GAME_HEIGHT - 2) = GAME_HEIGHT - 2
    <3>1. GAME_WIDTH - 2 \in Nat /\ GAME_HEIGHT - 2 \in Nat
      BY SnakeAssumption
    <3> QED
      BY <3>1, FirstNumbers
  <2>2. ASSUME NEW S, NEW U, IsFiniteSet(S), IsFiniteSet(U)
        PROVE  IsFiniteSet(S \X U) /\ Cardinality(S \X U) = Cardinality(S) * Cardinality(U)
    BY <2>2, FS_Product
  <2>3. /\ IsFiniteSet(Inside)
        /\ Cardinality(Inside) = Cardinality(1 .. GAME_WIDTH - 2) * Cardinality(1 .. GAME_HEIGHT - 2)
    BY <2>1, <2>2 DEF Inside
  <2> QED
    BY <2>1, <2>3
<1>2. IsFiniteSet(Rest) /\ Cardinality(Rest) = Cardinality(Inside) - 1
  <2>1. IsFiniteSet(Inside)
    BY <1>1
  <2> QED
    BY <2>1, FS_RemoveElement
<1>3. b \in Injection(1 .. Len(b), Rest)
  <2>1. DOMAIN b = 1 .. Len(b)
    OBVIOUS
  <2>2. \A i \in 1 .. Len(b) : b[i] \in Rest
    BY <2>1 DEF ToSet
  <2>3. b \in [1 .. Len(b) -> Rest]
    BY <2>1, <2>2
  <2> QED
    BY <2>3 DEF Injection
<1>4. Cardinality(1 .. Len(b)) <= Cardinality(Rest)
  BY <1>2, <1>3, FS_Injection
<1>5. Cardinality(1 .. Len(b)) = Len(b)
  <2>1. Len(b) \in Nat
    OBVIOUS
  <2> QED
    BY <2>1, FirstNumbers
<1>6. (GAME_WIDTH - 2) * (GAME_HEIGHT - 2) \in Int
  BY SnakeAssumption
<1> QED
  BY <1>1, <1>2, <1>4, <1>5, <1>6, SnakeAssumption

\* Whatever keys come, the direction asked for is not the way back.
LEMMA Asked ==
    ASSUME SnakeInv, NEW strokes \in Strokes, handle_input(strokes)
    PROVE  next_direction' \in Directions /\ next_direction' # Opposite[direction]
<1>1. CASE next_direction' = next_direction
  BY <1>1 DEF SnakeInv
<1>2. CASE \E i \in DOMAIN strokes : Turns(strokes[i]) /\ next_direction' = strokes[i]
  <2>1. next_direction' \in Directions /\ direction # Opposite[next_direction']
    BY <1>2 DEF Turns
  <2>2. direction \in Directions
    BY DEF SnakeInv
  <2> QED
    BY <2>1, <2>2, Opposites
<1> QED
  BY <1>1, <1>2 DEF handle_input

\* A move in a direction that is not the way back.
LEMMA Move ==
    ASSUME SnakeInv, phase = "playing",
           NEW d \in Directions, d # Opposite[direction]
    PROVE  LET b == move_snake(body, d)
           IN  /\ b \in Seq(Points) /\ Len(b) = Len(body)
               /\ b[1] = Step(body[1], d) /\ \A i \in 2 .. Len(b) : b[i] = body[i - 1]
               /\ IsPath(b) /\ b[1] = Step(b[2], d) /\ b[1] # body[2]
<1> DEFINE b == move_snake(body, d)
<1>1. body \in Seq(Points) /\ Len(body) >= 3 /\ direction \in Directions /\ IsPath(body)
  BY DEF SnakeInv, BodyIsPath, IsPath
<1>2. body[1] \in Points /\ body[2] \in Points
  BY <1>1
<1>3. Step(body[1], d) \in Points
  BY <1>2, StepLeads
<1>4. /\ b \in Seq(Points) /\ Len(b) = Len(body)
      /\ b[1] = Step(body[1], d) /\ \A i \in 2 .. Len(b) : b[i] = body[i - 1]
  BY <1>1, <1>3 DEF move_snake
<1>5. IsPath(b)
  <2> SUFFICES ASSUME NEW i \in 1 .. Len(b) - 1 PROVE \E e \in Directions : b[i] = Step(b[i + 1], e)
    BY DEF IsPath
  <2>1. CASE i = 1
    BY <2>1, <1>1, <1>4
  <2>2. CASE i > 1
    <3>1. b[i] = body[i - 1] /\ b[i + 1] = body[i] /\ i - 1 \in 1 .. Len(body) - 1 /\ (i - 1) + 1 = i
      BY <2>2, <1>1, <1>4
    <3> QED
      BY <3>1, <1>1 DEF IsPath
  <2> QED
    BY <2>1, <2>2
<1>6. b[1] # body[2]
  <2>1. body[1] = Step(body[2], direction)
    BY DEF SnakeInv
  <2> QED
    BY <2>1, <1>1, <1>2, <1>4, StepLeads
<1> QED
  BY <1>1, <1>4, <1>5, <1>6

-----------------------------------------------------------------------------
LEMMA StartInv ==
    ASSUME NEW f \in Free(init_snake, 0) \cup Free(init_snake, 1)
    PROVE  LET b == init_snake
           IN  /\ b \in Seq(Points) /\ Len(b) = 3 /\ b[1] = Step(b[2], RIGHT) /\ IsPath(b)
               /\ ToSet(b) \subseteq Inside /\ IsInjective(b)
               /\ f \in Inside /\ f \notin ToSet(b)
<1> DEFINE b == init_snake
           x == GAME_WIDTH \div 2
           y == GAME_HEIGHT \div 2
<1>1. x \in Int /\ x >= 3 /\ x <= GAME_WIDTH - 2 /\ y \in Int /\ y >= 1 /\ y <= GAME_HEIGHT - 2
  BY SnakeAssumption
<1>2. b = <<<<x, y>>, <<x - 1, y>>, <<x - 2, y>>>>
  BY <1>1 DEF init_snake
<1> HIDE DEF b, x, y
<1>3. <<x, y>> \in Points /\ <<x - 1, y>> \in Points /\ <<x - 2, y>> \in Points
  BY <1>1 DEF Points
<1>4. b \in Seq(Points) /\ Len(b) = 3 /\ DOMAIN b = 1 .. 3
  BY <1>2, <1>3
<1>5. b[1] = Step(b[2], RIGHT) /\ b[2] = Step(b[3], RIGHT)
  BY <1>1, <1>2, <1>3, Steps
<1>6. IsPath(b)
  BY <1>4, <1>5 DEF IsPath, Directions
<1>7. ToSet(b) = {<<x, y>>, <<x - 1, y>>, <<x - 2, y>>}
  BY <1>2, <1>4 DEF ToSet
<1>8. ToSet(b) \subseteq Inside
  BY <1>1, <1>7, SnakeAssumption DEF Inside
<1>9. IsInjective(b)
  BY <1>1, <1>2, <1>4 DEF IsInjective
<1>10. f \in Inside /\ f \notin ToSet(b)
  BY <1>4 DEF Free, Drawable, ToSet, b
<1> QED
  BY <1>4, <1>5, <1>6, <1>8, <1>9, <1>10 DEF b

\* A move that hits nothing leaves a path inside the walls; one onto the food leaves room to
\* grow by one cell, where the tail was.
LEMMA Survive ==
    ASSUME SnakeInv, phase = "playing", ~ game_over,
           NEW d \in Directions, d # Opposite[direction],
           ~ check_collision(move_snake(body, d))
    PROVE  LET b == move_snake(body, d)
               g == Grown(b, Last(body))
           IN  /\ ToSet(b) \subseteq Inside /\ IsInjective(b)
               /\ b[1] # food => food \notin ToSet(b)
               /\ b[1] = food =>
                     /\ g \in Seq(Points) /\ Len(g) = Len(body) + 1
                     /\ g[1] = b[1] /\ g[2] = b[2] /\ IsPath(g)
                     /\ ToSet(g) \subseteq Inside /\ IsInjective(g)
<1> DEFINE b == move_snake(body, d)
           n == Len(body)
<1>1. /\ body \in Seq(Points) /\ n >= 3 /\ n \in Nat /\ DOMAIN body = 1 .. n
      /\ ToSet(body) \subseteq Inside /\ IsInjective(body)
      /\ food \in Inside /\ food \notin ToSet(body) /\ IsPath(body)
  BY DEF SnakeInv, BodyIsPath, FoodFree, IsPath
<1>2. /\ b \in Seq(Points) /\ Len(b) = n /\ DOMAIN b = 1 .. n
      /\ \A i \in 2 .. n : b[i] = body[i - 1]
      /\ IsPath(b) /\ b[1] = Step(b[2], d)
  BY Move
<1>3. b[1] \in Inside /\ \A i \in 2 .. n : b[i] # b[1]
  BY <1>2 DEF check_collision
<1> HIDE DEF b
<1>4. \A i \in 1 .. n : body[i] \in Inside /\ body[i] # food
  BY <1>1 DEF ToSet
<1>5. \A i, j \in 1 .. n : body[i] = body[j] => i = j
  BY <1>1 DEF IsInjective
<1>6. \A i \in 2 .. n : b[i] \in Inside /\ b[i] # food
  BY <1>2, <1>4
<1>7. ToSet(b) \subseteq Inside /\ (b[1] # food => food \notin ToSet(b))
  BY <1>2, <1>3, <1>6 DEF ToSet
<1>8. \A i, j \in 1 .. n : b[i] = b[j] => i = j
  <2> SUFFICES ASSUME NEW i \in 1 .. n, NEW j \in 1 .. n, b[i] = b[j] PROVE i = j
    OBVIOUS
  <2>1. CASE i = 1 \/ j = 1
    BY <2>1, <1>1, <1>3
  <2>2. CASE i > 1 /\ j > 1
    BY <2>2, <1>1, <1>2, <1>5
  <2> QED
    BY <2>1, <2>2
<1>9. IsInjective(b)
  BY <1>2, <1>8 DEF IsInjective
<1>10. ASSUME b[1] = food
       PROVE  LET g == Grown(b, Last(body))
              IN  /\ g \in Seq(Points) /\ Len(g) = n + 1
                  /\ g[1] = b[1] /\ g[2] = b[2] /\ IsPath(g)
                  /\ ToSet(g) \subseteq Inside /\ IsInjective(g)
  <2> DEFINE g == Append(b, body[n])
  <2>1. n < MAX_SNAKE
    BY <1>1, RoomToGrow
  <2>2. Grown(b, Last(body)) = g
    BY <2>1, <1>2 DEF Grown, Last
  <2>3. body[n] \in Points /\ body[n] \in Inside
    BY <1>1, <1>4
  <2>4. /\ g \in Seq(Points) /\ Len(g) = n + 1 /\ DOMAIN g = 1 .. n + 1
        /\ g[n + 1] = body[n] /\ \A i \in 1 .. n : g[i] = b[i]
    BY <1>1, <1>2, <2>3
  <2> HIDE DEF g
  <2>5. IsPath(g)
    <3> SUFFICES ASSUME NEW i \in 1 .. Len(g) - 1 PROVE \E e \in Directions : g[i] = Step(g[i + 1], e)
      BY DEF IsPath
    <3>1. CASE i < n
      <4>1. i \in 1 .. Len(b) - 1 /\ g[i] = b[i] /\ g[i + 1] = b[i + 1]
        BY <3>1, <1>1, <1>2, <2>4
      <4> QED
        BY <4>1, <1>2 DEF IsPath
    <3>2. CASE i = n
      <4>1. g[i] = body[n - 1] /\ g[i + 1] = body[n] /\ n - 1 \in 1 .. n - 1 /\ (n - 1) + 1 = n
        BY <3>2, <1>1, <1>2, <2>4
      <4> QED
        BY <4>1, <1>1 DEF IsPath
    <3>3. i < n \/ i = n
      <4>1. n \in Nat /\ Len(g) - 1 = n
        BY <1>1, <2>4
      <4>2. i \in 1 .. n
        BY <4>1
      <4> HIDE DEF n
      <4> QED
        BY <4>1, <4>2
    <3> QED
      BY <3>1, <3>2, <3>3
  <2>6. ToSet(g) \subseteq Inside
    BY <1>1, <1>3, <1>6, <2>3, <2>4 DEF ToSet
  <2>7. \A i \in 1 .. n : b[i] # body[n]
    BY <1>1, <1>2, <1>4, <1>5, <1>10
  <2>8. IsInjective(g)
    <3> SUFFICES ASSUME NEW i \in 1 .. n + 1, NEW j \in 1 .. n + 1, g[i] = g[j] PROVE i = j
      BY <2>4 DEF IsInjective
    <3>1. CASE i \in 1 .. n /\ j \in 1 .. n
      BY <3>1, <1>8, <2>4
    <3>2. CASE i = n + 1 \/ j = n + 1
      BY <3>2, <2>4, <2>7, <1>1
    <3> QED
      BY <3>1, <3>2, <1>1
  <2> QED
    BY <2>2, <2>4, <2>5, <2>6, <2>8, <1>1
<1> QED
  BY <1>7, <1>9, <1>10 DEF b

\* An iteration that ends with a move: the keys, the move, and what becomes of the body.
LEMMA StepInv ==
    ASSUME SnakeInv, SnakeNext
    PROVE  SnakeInv' /\ (phase = "playing" => body'[1] # body[2])
<1> USE DEF BodyIsPath, FoodFree
<1>1. CASE start
  <2> DEFINE b == init_snake
  <2>1. /\ body' = b /\ direction' = RIGHT /\ next_direction' = RIGHT /\ phase' = "playing"
        /\ score' = 0 /\ food' \in Free(b, 0) \cup Free(b, 1) /\ phase = "title"
    BY <1>1 DEF start
  <2>2. /\ b \in Seq(Points) /\ Len(b) = 3 /\ b[1] = Step(b[2], RIGHT) /\ IsPath(b)
        /\ ToSet(b) \subseteq Inside /\ IsInjective(b) /\ food' \in Inside /\ food' \notin ToSet(b)
    BY <2>1, StartInv
  <2>3. RIGHT \in Directions /\ RIGHT # Opposite[RIGHT]
    BY Opposites DEF Directions, LEFT, RIGHT
  <2> QED
    BY <2>1, <2>2, <2>3 DEF SnakeInv, IsPath
<1>2. ASSUME UNCHANGED <<body, direction, food, score>>, phase' = phase \/ phase' # "playing",
             game_over => game_over' \/ phase' # "playing",
             next_direction' \in Directions, next_direction' # Opposite[direction]
      PROVE  SnakeInv' /\ (phase = "playing" => body'[1] # body[2])
  <2>1. SnakeInv'
    BY <1>2 DEF SnakeInv
  <2>2. phase = "playing" => body[1] # body[2]
    BY StepLeads DEF SnakeInv
  <2> QED
    BY <1>2, <2>1, <2>2
<1>3. CASE wait
  BY <1>2, <1>3, Asked DEF wait, Iterate
<1>4. CASE finish \/ leave
  BY <1>2, <1>4 DEF finish, leave, game, SnakeInv
<1>5. CASE crash
  <2> DEFINE d == next_direction'
             b == move_snake(body, d)
  <2>1. /\ phase = "playing" /\ phase' = phase /\ game_over' /\ check_collision(b)
        /\ body' = b /\ direction' = d /\ UNCHANGED <<food, score>>
    BY <1>5 DEF crash, NewBody
  <2>2. d \in Directions /\ d # Opposite[direction]
    BY <1>5, Asked DEF crash
  <2>3. /\ b \in Seq(Points) /\ Len(b) = Len(body) /\ DOMAIN b = 1 .. Len(body)
        /\ b[1] = Step(b[2], d) /\ \A i \in 2 .. Len(b) : b[i] = body[i - 1]
        /\ IsPath(b) /\ b[1] # body[2]
    BY <2>1, <2>2, Move
  <2>4. food \in Inside /\ food \notin ToSet(body) /\ body \in Seq(Points) /\ Len(body) \in Nat
    BY <2>1 DEF SnakeInv
  <2>5. \A i \in 2 .. Len(b) : b[i] # food
    BY <2>3, <2>4 DEF ToSet
  <2>6. b[1] # food
    BY <2>1, <2>3, <2>4, <2>5 DEF check_collision
  <2>7. food \notin ToSet(b)
    BY <2>3, <2>4, <2>5, <2>6 DEF ToSet
  <2>8. d # Opposite[d]
    BY <2>2, Opposites DEF Directions, UP, DOWN, LEFT, RIGHT
  <2> QED
    BY <2>1, <2>2, <2>3, <2>7, <2>8 DEF SnakeInv, IsPath
<1>6. CASE advance
  <2> DEFINE d == next_direction'
             b == move_snake(body, d)
  <2>1. /\ phase = "playing" /\ phase' = phase /\ ~ game_over /\ ~ check_collision(b)
        /\ body' = b /\ direction' = d /\ b[1] # food /\ UNCHANGED <<food, score>>
    BY <1>6 DEF advance, Iterate, NewBody, Eats
  <2>2. d \in Directions /\ d # Opposite[direction]
    BY <1>6, Asked DEF advance, Iterate
  <2>3. /\ b \in Seq(Points) /\ Len(b) = Len(body)
        /\ b[1] = Step(b[2], d) /\ IsPath(b) /\ b[1] # body[2]
    BY <2>1, <2>2, Move
  <2>4. ToSet(b) \subseteq Inside /\ IsInjective(b) /\ food \notin ToSet(b)
    BY <2>1, <2>2, Survive
  <2>5. d # Opposite[d]
    BY <2>2, Opposites DEF Directions, UP, DOWN, LEFT, RIGHT
  <2> QED
    BY <2>1, <2>2, <2>3, <2>4, <2>5 DEF SnakeInv, IsPath
<1>7. CASE eat \/ fill
  <2> DEFINE d == next_direction'
             b == move_snake(body, d)
             g == Grown(b, Last(body))
  <2>1. /\ phase = "playing" /\ ~ game_over /\ ~ check_collision(b)
        /\ body' = g /\ direction' = d /\ b[1] = food /\ score' = score + 10
    BY <1>7 DEF eat, fill, Iterate, NewBody, Eats
  <2>2. d \in Directions /\ d # Opposite[direction]
    BY <1>7, Asked DEF eat, fill, Iterate
  <2>3. b[1] = Step(b[2], d) /\ b[1] # body[2]
    BY <2>1, <2>2, Move
  <2>4. /\ g \in Seq(Points) /\ Len(g) = Len(body) + 1 /\ g[1] = b[1] /\ g[2] = b[2]
        /\ IsPath(g) /\ ToSet(g) \subseteq Inside /\ IsInjective(g)
    BY <2>1, <2>2, Survive
  <2>5. /\ food' \in Inside
        /\ phase' = "playing" => food' \notin ToSet(g)
    <3>1. CASE eat
      <4>1. food' \in Free(g, parity)
        BY <3>1, <2>1 DEF eat
      <4> QED
        BY <4>1, <2>4 DEF Free, Drawable, ToSet
    <3>2. CASE fill
      BY <3>2 DEF fill, SnakeInv
    <3> QED
      BY <1>7, <3>1, <3>2
  <2>6. d # Opposite[d]
    BY <2>2, Opposites DEF Directions, UP, DOWN, LEFT, RIGHT
  <2>7. body \in Seq(Points) /\ Len(body) >= 3 /\ Len(body) * 10 = 30 + score /\ score \in Nat
    BY DEF SnakeInv
  <2>8. Len(g) >= 3 /\ Len(g) * 10 = 30 + (score + 10) /\ score + 10 \in Nat
    BY <2>4, <2>7
  <2> HIDE DEF b, g
  <2> QED
    BY <2>1, <2>2, <2>3, <2>4, <2>5, <2>6, <2>8 DEF SnakeInv, IsPath
<1> QED
  BY <1>1, <1>3, <1>4, <1>5, <1>6, <1>7 DEF SnakeNext

LEMMA SnakeInvHolds == SnakeSpec => []SnakeInv
<1>1. SnakeInit => SnakeInv
  <2> SUFFICES ASSUME SnakeInit PROVE SnakeInv
    OBVIOUS
  <2>1. /\ body = init_snake /\ direction = RIGHT /\ next_direction = RIGHT /\ phase = "title"
        /\ score = 0 /\ food \in Free(init_snake, 0) \cup Free(init_snake, 1)
    BY DEF SnakeInit
  <2>2. LET b == init_snake
        IN  /\ b \in Seq(Points) /\ Len(b) = 3 /\ IsPath(b)
            /\ food \in Inside
    BY <2>1, StartInv
  <2>3. RIGHT \in Directions /\ RIGHT # Opposite[RIGHT]
    BY Opposites DEF Directions, LEFT, RIGHT
  <2> QED
    BY <2>1, <2>2, <2>3 DEF SnakeInv, IsPath, BodyIsPath, FoodFree
<1>2. SnakeInv /\ [SnakeNext]_svars => SnakeInv'
  <2>1. SnakeInv /\ UNCHANGED svars => SnakeInv'
    BY DEF SnakeInv, svars, game, BodyIsPath, FoodFree
  <2> QED
    BY <2>1, StepInv
<1> QED
  BY <1>1, <1>2, PTL DEF SnakeSpec

\* In every game the snake is a path of cells, distinct and inside the walls while it lives, that
\* has grown by a cell for each food: the array never ends before the board does.
THEOREM PathCorrect == SnakeSpec => []BodyIsPath
<1>1. SnakeInv => BodyIsPath
  BY DEF SnakeInv
<1> QED
  BY <1>1, SnakeInvHolds, PTL

\* The food that generate_food places is never under the snake.
THEOREM FoodCorrect == SnakeSpec => []FoodFree
<1>1. SnakeInv => FoodFree
  BY DEF SnakeInv
<1> QED
  BY <1>1, SnakeInvHolds, PTL

\* However many keys come in a tick, no move brings the head where the second cell was.
THEOREM NeverReverses == SnakeSpec => NoReversal
<1>1. SnakeInv /\ [SnakeNext]_svars => [phase = "playing" => body'[1] # body[2]]_svars
  BY StepInv
<1> QED
  BY <1>1, SnakeInvHolds, PTL DEF SnakeSpec, NoReversal
-----------------------------------------------------------------------------
(***************************************************************************)
(* The board.  Only the cells that change are redrawn, so what the board   *)
(* shows is part of the inductive invariant.                               *)
(***************************************************************************)
\* What a full redraw would put in a cell.
LEMMA StillDrawn ==
    ASSUME NEW b, NEW f, NEW c \in Board, b[1] \in ToSet(b)
    PROVE  draw_game_full_once(b, f)[c] =
               IF c = b[1] THEN "@" ELSE IF c \in ToSet(b) THEN "o" ELSE IF c = f THEN "*" ELSE " "
<1>1. draw_game_full_once(b, f)[c] = (CASE c = b[1] -> "@"
                                        [] c # b[1] /\ c \in ToSet(b) -> "o"
                                        [] c \notin ToSet(b) /\ c = f -> "*"
                                        [] OTHER -> " ")
  BY DEF draw_game_full_once
<1>2. CASE c = b[1]
  BY <1>1, <1>2
<1>3. CASE c # b[1] /\ c \in ToSet(b)
  BY <1>1, <1>3
<1>4. CASE c # b[1] /\ c \notin ToSet(b) /\ c = f
  BY <1>1, <1>4
<1>5. CASE c # b[1] /\ c \notin ToSet(b) /\ c # f
  BY <1>1, <1>5
<1> QED
  BY <1>2, <1>3, <1>4, <1>5

\* Three cells drawn one after the other: what the last one leaves of the others.
LEMMA ThreeCells ==
    ASSUME NEW pic, NEW p, NEW q, NEW r, NEW x, NEW y, NEW z, NEW c \in DOMAIN pic
    PROVE  put_at(put_at(put_at(pic, p, x), q, y), r, z)[c] =
               IF c = r THEN z ELSE IF c = q THEN y ELSE IF c = p THEN x ELSE pic[c]
  BY DEF put_at

PictureInv ==
    /\ DOMAIN picture = Board
    /\ PictureAgrees

LEMMA InsideBoard == Inside \subseteq Board
  BY SnakeAssumption DEF Inside, Board

\* A move that eats nothing: the tail leaves its cell, and may leave it to the head.
LEMMA AdvancePicture ==
    ASSUME SnakeInv, PictureInv, advance
    PROVE  PictureInv'
<1> DEFINE d == next_direction'
           b == move_snake(body, d)
           n == Len(body)
           drawn == put_at(put_at(put_at(picture, body[1], "o"), b[1], "@"), body[n], " ")
<1>1. /\ phase = "playing" /\ ~ game_over /\ ~ check_collision(b)
      /\ body' = b /\ b[1] # food /\ food' = food
      /\ picture' = drawn
  BY DEF advance, Iterate, NewBody, Eats, Last, draw_game_diff
<1>2. d \in Directions /\ d # Opposite[direction]
  BY Asked DEF advance, Iterate
<1>3. /\ b \in Seq(Points) /\ Len(b) = n /\ \A i \in 2 .. n : b[i] = body[i - 1]
      /\ DOMAIN b = 1 .. n
  <2>1. b \in Seq(Points) /\ Len(b) = n /\ \A i \in 2 .. Len(b) : b[i] = body[i - 1]
    BY <1>1, <1>2, Move
  <2> HIDE DEF b
  <2> QED
    BY <2>1
<1>4. food \notin ToSet(b)
  BY <1>1, <1>2, Survive
<1>5. /\ body \in Seq(Points) /\ n \in Nat /\ n >= 3 /\ DOMAIN body = 1 .. n
      /\ \A i, j \in 1 .. n : body[i] = body[j] => i = j
      /\ food \notin ToSet(body)
  <2>1. /\ body \in Seq(Points) /\ Len(body) >= 3 /\ IsInjective(body)
        /\ food \notin ToSet(body)
    BY <1>1 DEF SnakeInv, BodyIsPath, FoodFree
  <2>2. n \in Nat /\ n >= 3 /\ DOMAIN body = 1 .. n
    BY <2>1
  <2> QED
    BY <2>1, <2>2 DEF IsInjective
<1>6. b[1] \in Inside /\ \A i \in 2 .. n : b[i] # b[1]
  BY <1>1, <1>3 DEF check_collision
<1>7. /\ DOMAIN picture = Board
      /\ \A c \in Board : \/ picture[c] = draw_game_full_once(body, food)[c]
                          \/ c = body[1] /\ picture[c] = " "
  BY <1>1 DEF PictureInv, PictureAgrees
<1> HIDE DEF d, b, n
<1>8. DOMAIN drawn = Board
  BY <1>7 DEF put_at
<1>9. ASSUME NEW c \in Board
      PROVE  drawn[c] = draw_game_full_once(b, food)[c] \/ (c = b[1] /\ drawn[c] = " ")
  <2>1. drawn[c] = IF c = body[n] THEN " " ELSE IF c = b[1] THEN "@"
                   ELSE IF c = body[1] THEN "o" ELSE picture[c]
    <3>1. c \in DOMAIN picture
      BY <1>7
    <3> QED
      BY <3>1 DEF put_at
  <2> body[1] \in ToSet(body) /\ b[1] \in ToSet(b)
    BY <1>3, <1>5 DEF ToSet
  <2>2. draw_game_full_once(b, food)[c] = IF c = b[1] THEN "@" ELSE IF c \in ToSet(b) THEN "o"
                                          ELSE IF c = food THEN "*" ELSE " "
    BY StillDrawn
  <2>3. draw_game_full_once(body, food)[c] = IF c = body[1] THEN "@" ELSE IF c \in ToSet(body) THEN "o"
                                             ELSE IF c = food THEN "*" ELSE " "
    BY StillDrawn
  <2>4. CASE c = b[1]
    BY <2>1, <2>2, <2>4
  <2>5. CASE c # b[1] /\ c = body[n]
    <3>1. \A i \in 2 .. n : b[i] # body[n]
      BY <1>3, <1>5
    <3>2. c \notin ToSet(b)
      BY <2>5, <3>1, <1>3, <1>5 DEF ToSet
    <3>3. c # food
      BY <2>5, <1>5 DEF ToSet
    <3> QED
      BY <2>1, <2>2, <2>5, <3>2, <3>3
  <2>6. CASE c # b[1] /\ c # body[n] /\ c = body[1]
    <3>1. b[2] = body[1] /\ 2 \in 1 .. n
      BY <1>3, <1>5
    <3>2. c \in ToSet(b)
      BY <2>6, <3>1, <1>3 DEF ToSet
    <3> QED
      BY <2>1, <2>2, <2>6, <3>2
  <2>7. CASE c # b[1] /\ c # body[n] /\ c # body[1]
    <3>1. c \in ToSet(b) => c \in ToSet(body)
      <4> SUFFICES ASSUME c \in ToSet(b) PROVE c \in ToSet(body)
        OBVIOUS
      <4>1. PICK i \in 1 .. n : c = b[i]
        BY <1>3 DEF ToSet
      <4>2. i \in 2 .. n
        BY <2>7, <4>1, <1>5
      <4>3. c = body[i - 1] /\ i - 1 \in 1 .. n
        BY <4>1, <4>2, <1>3, <1>5
      <4> QED
        BY <4>3, <1>5 DEF ToSet
    <3>2. c \in ToSet(body) => c \in ToSet(b)
      <4> SUFFICES ASSUME c \in ToSet(body) PROVE c \in ToSet(b)
        OBVIOUS
      <4>1. PICK i \in 1 .. n : c = body[i]
        BY <1>5 DEF ToSet
      <4>2. i + 1 \in 2 .. n /\ (i + 1) - 1 = i
        BY <2>7, <4>1, <1>5
      <4>3. c = b[i + 1] /\ i + 1 \in 1 .. n
        BY <4>1, <4>2, <1>3, <1>5
      <4> QED
        BY <4>3, <1>3 DEF ToSet
    <3>3. drawn[c] = picture[c] /\ picture[c] = draw_game_full_once(body, food)[c]
      BY <2>1, <2>7, <1>7
    <3> QED
      BY <2>2, <2>3, <2>7, <3>1, <3>2, <3>3
  <2> QED
    BY <2>4, <2>5, <2>6, <2>7
<1> QED
  BY <1>1, <1>8, <1>9 DEF PictureInv, PictureAgrees, b, d, n

\* A move onto the food: the tail stays where it was, and the food appears elsewhere.
LEMMA EatPicture ==
    ASSUME SnakeInv, PictureInv, eat
    PROVE  PictureInv'
<1> DEFINE d == next_direction'
           b == move_snake(body, d)
           g == Grown(b, Last(body))
           n == Len(body)
           drawn == put_at(put_at(put_at(picture, body[1], "o"), g[1], "@"), food', "*")
<1>1. /\ phase = "playing" /\ ~ game_over /\ ~ check_collision(b)
      /\ body' = g /\ b[1] = food /\ food' \in Free(g, parity)
      /\ picture' = drawn
  BY DEF eat, Iterate, NewBody, Eats, draw_game_diff
<1>2. d \in Directions /\ d # Opposite[direction]
  BY Asked DEF eat, Iterate
<1>3. /\ b \in Seq(Points) /\ Len(b) = n /\ \A i \in 2 .. Len(b) : b[i] = body[i - 1]
  BY <1>1, <1>2, Move
<1>4. g \in Seq(Points) /\ Len(g) = n + 1 /\ g[1] = b[1] /\ DOMAIN g = 1 .. n + 1
  BY <1>1, <1>2, Survive
<1>5. /\ body \in Seq(Points) /\ n \in Nat /\ n >= 3 /\ DOMAIN body = 1 .. n
      /\ food \in Inside /\ ToSet(body) \subseteq Inside
      /\ BodyIsPath /\ FoodFree /\ IsInjective(body) /\ food \notin ToSet(body)
  BY <1>1 DEF SnakeInv, BodyIsPath, FoodFree
<1>6. g = Append(b, body[n])
  <2>1. n < MAX_SNAKE
    BY <1>5, RoomToGrow
  <2> QED
    BY <2>1, <1>3 DEF Grown, Last
<1>7. /\ DOMAIN picture = Board
      /\ \A c \in Board : \/ picture[c] = draw_game_full_once(body, food)[c]
                          \/ c = body[1] /\ picture[c] = " "
  BY <1>1 DEF PictureInv, PictureAgrees
<1> HIDE DEF d, b, n
<1>8. \A i \in 2 .. n + 1 : g[i] = body[i - 1]
  BY <1>3, <1>4, <1>5, <1>6
<1>9. g[1] = food
  BY <1>1, <1>4
<1> HIDE DEF g
<1>10. food' \in Board /\ food' \notin ToSet(g)
  BY <1>1, <1>4, InsideBoard DEF Free, Drawable, ToSet
<1>11. DOMAIN drawn = Board
  BY <1>7 DEF put_at
<1>12. ASSUME NEW c \in Board
       PROVE  drawn[c] = draw_game_full_once(g, food')[c]
  <2>1. drawn[c] = IF c = food' THEN "*" ELSE IF c = g[1] THEN "@"
                   ELSE IF c = body[1] THEN "o" ELSE picture[c]
    <3>1. c \in DOMAIN picture
      BY <1>7
    <3> QED
      BY <3>1, ThreeCells
  <2> body[1] \in ToSet(body) /\ g[1] \in ToSet(g)
    BY <1>4, <1>5 DEF ToSet
  <2>2. draw_game_full_once(g, food')[c] = IF c = g[1] THEN "@" ELSE IF c \in ToSet(g) THEN "o"
                                           ELSE IF c = food' THEN "*" ELSE " "
    BY StillDrawn
  <2>3. draw_game_full_once(body, food)[c] = IF c = body[1] THEN "@" ELSE IF c \in ToSet(body) THEN "o"
                                             ELSE IF c = food THEN "*" ELSE " "
    BY StillDrawn
  <2>4. g[1] \in ToSet(g)
    BY <1>4, <1>5 DEF ToSet
  <2>5. c # g[1] => (c \in ToSet(g) <=> c \in ToSet(body))
    <3>1. ASSUME NEW i \in 1 .. n + 1, c = g[i], c # g[1] PROVE c \in ToSet(body)
      <4>1. i \in 2 .. n + 1
        BY <3>1, <1>5
      <4>2. c = body[i - 1] /\ i - 1 \in 1 .. n
        BY <3>1, <4>1, <1>5, <1>8
      <4> QED
        BY <4>2, <1>5 DEF ToSet
    <3>2. ASSUME NEW i \in 1 .. n, c = body[i] PROVE c \in ToSet(g)
      <4>1. i + 1 \in 2 .. n + 1 /\ (i + 1) - 1 = i /\ i + 1 \in 1 .. n + 1
        BY <1>5
      <4>2. c = g[i + 1]
        BY <3>2, <4>1, <1>8
      <4> QED
        BY <4>1, <4>2, <1>4 DEF ToSet
    <3> QED
      BY <3>1, <3>2, <1>4, <1>5 DEF ToSet
  <2>6. body[1] \in ToSet(body)
    BY <1>5 DEF ToSet
  <2>7. c # body[1] => picture[c] = draw_game_full_once(body, food)[c]
    BY <1>7
  <2> QED
    BY <2>1, <2>2, <2>3, <2>4, <2>5, <2>6, <2>7, <1>9, <1>10
<1> QED
  BY <1>1, <1>11, <1>12 DEF PictureInv, PictureAgrees, g, b, d

LEMMA PictureInvHolds == SnakeSpec => [](SnakeInv /\ PictureInv)
<1>1. SnakeInit => PictureInv
  BY DEF SnakeInit, PictureInv, PictureAgrees, draw_game_full_once
<1>2. SnakeInv /\ PictureInv /\ [SnakeNext]_svars => PictureInv'
  <2> SUFFICES ASSUME SnakeInv, PictureInv, [SnakeNext]_svars PROVE PictureInv'
    OBVIOUS
  <2>1. CASE start
    <3>1. picture' = draw_game_full_once(body', food')
      BY <2>1 DEF start
    <3>2. DOMAIN picture' = Board
      BY <3>1 DEF draw_game_full_once
    <3> QED
      BY <3>1, <3>2 DEF PictureInv, PictureAgrees
  <2>2. ASSUME UNCHANGED <<picture, body, food>>,
               phase' = "playing" /\ ~ game_over' => phase = "playing" /\ ~ game_over
        PROVE  PictureInv'
    BY <2>2 DEF PictureInv, PictureAgrees
  <2>3. CASE wait
    BY <2>2, <2>3 DEF wait, Iterate
  <2>4. CASE finish \/ leave
    BY <2>2, <2>4 DEF finish, leave, game
  <2>5. CASE UNCHANGED svars
    BY <2>2, <2>5 DEF svars, game
  <2>6. CASE crash \/ fill
    BY <2>6 DEF crash, fill, PictureInv, PictureAgrees
  <2>7. CASE advance
    BY <2>7, AdvancePicture
  <2>8. CASE eat
    BY <2>8, EatPicture
  <2> QED
    BY <2>1, <2>3, <2>4, <2>5, <2>6, <2>7, <2>8 DEF SnakeNext
<1> QED
  BY <1>1, <1>2, SnakeInvHolds, PTL DEF SnakeSpec

\* Although only the cells that change are redrawn, the board of a living snake always shows
\* the snake and its food and nothing else, but for a head that took the tail's cell.
THEOREM PictureCorrect == SnakeSpec => []PictureAgrees
<1>1. PictureInv => PictureAgrees
  BY DEF PictureInv
<1> QED
  BY <1>1, PictureInvHolds, PTL
=============================================================================
