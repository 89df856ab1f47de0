---------------------------- MODULE Screen_proofs ---------------------------
(***************************************************************************)
(* Lemmas about the operators of Screen, for every size of the screen: what *)
(* a character and a text leave on it, whoever prints them.                *)
(***************************************************************************)
EXTENDS Screen, Recursion_proofs

-----------------------------------------------------------------------------
(***************************************************************************)
(* Lines and columns.                                                      *)
(***************************************************************************)
LEMMA Dimensions ==
    /\ Width \in Nat \ {0} /\ EndOfScreen \in Nat /\ LastLine \in Nat
    /\ EndOfScreen = LastLine + Width /\ Width <= LastLine
    /\ Cells = 0 .. EndOfScreen + Width - 1
<1>1. Width \in Nat \ {0} /\ Height \in Nat /\ Height >= 2
  BY ScreenAssumption
<1>2. Width * Height \in Nat /\ Width * (Height - 1) \in Nat
  BY <1>1
<1>3. Width * Height = Width * (Height - 1) + Width
  BY <1>1
<1>4. Width <= Width * (Height - 1)
  <2>1. Width * (Height - 1) = Width + Width * (Height - 2)
    BY <1>1
  <2>2. Width * (Height - 2) \in Nat
    BY <1>1
  <2> QED
    BY <1>1, <2>1, <2>2
<1> QED
  BY <1>1, <1>2, <1>3, <1>4 DEF EndOfScreen, LastLine, Cells

\* The column and the line of a place on the screen.
LEMMA Division ==
    ASSUME NEW c \in Nat
    PROVE  /\ c % Width \in 0 .. Width - 1 /\ c \div Width \in Nat
           /\ (c \div Width) * Width \in Nat
           /\ c = (c \div Width) * Width + (c % Width)
           /\ c < EndOfScreen => c + Width - (c % Width) <= EndOfScreen
<1>1. Width \in Nat \ {0} /\ Height \in Nat /\ Height >= 2
  BY ScreenAssumption
<1>2. c % Width \in 0 .. Width - 1 /\ c \div Width \in Nat
  BY <1>1
<1>3. c = (c \div Width) * Width + (c % Width)
  BY <1>1
<1> DEFINE q == c \div Width
           r == c % Width
<1> HIDE DEF q, r
<1>4. q \in Nat /\ r \in 0 .. Width - 1 /\ c = q * Width + r
  BY <1>2, <1>3 DEF q, r
<1>5. q * Width \in Nat
  BY <1>1, <1>4
<1>6. ASSUME c < Width * Height PROVE c + Width - r <= Width * Height
  <2>1. ASSUME q >= Height PROVE FALSE
    <3>1. q * Width = Height * Width + (q - Height) * Width /\ (q - Height) * Width \in Nat
      BY <1>1, <1>4, <2>1
    <3>2. Height * Width = Width * Height /\ Width * Height \in Nat
      BY <1>1
    <3> QED
      BY <1>4, <1>5, <1>6, <3>1, <3>2
  <2>2. q + 1 <= Height
    BY <1>1, <1>4, <2>1
  <2>3. Width * Height = (q + 1) * Width + (Height - (q + 1)) * Width
        /\ (Height - (q + 1)) * Width \in Nat
    BY <1>1, <1>4, <2>2
  <2>4. (q + 1) * Width = q * Width + Width
    BY <1>1, <1>4
  <2> QED
    BY <1>1, <1>4, <1>5, <2>3, <2>4
<1> QED
  BY <1>4, <1>5, <1>6 DEF q, r, EndOfScreen

-----------------------------------------------------------------------------
(***************************************************************************)
(* Printing on a screen: the text goes on it and nowhere else.             *)
(***************************************************************************)
Chars == Printable \cup {Blank}

\* Screens with nothing in the memory behind them, and room for the next character.
Ready == {s \in [cells : [Cells -> Chars], cursor : 0 .. EndOfScreen - 1] :
             \A i \in Cells : i >= EndOfScreen => s.cells[i] = Blank}

LEMMA ShiftedCells ==
    ASSUME NEW cells \in [Cells -> Chars], \A i \in Cells : i > EndOfScreen => cells[i] = Blank
    PROVE  /\ Shifted(cells) \in [Cells -> Chars]
           /\ \A i \in Cells : i > EndOfScreen => Shifted(cells)[i] = Blank
           /\ Shifted(cells)[EndOfScreen] = cells[EndOfScreen]
           /\ \A i \in 0 .. Width - 1 : Shifted(cells)[i] = cells[i]
           /\ \A i \in Width .. LastLine - 1 : Shifted(cells)[i] = cells[i + Width]
           /\ \A i \in LastLine .. EndOfScreen - 1 : Shifted(cells)[i] = Blank
<1>1. \A i \in Width .. LastLine - 1 : i + Width \in Cells /\ i \in Cells
  BY Dimensions
<1>2. Blank \in Chars
  BY DEF Chars
<1>3. ASSUME NEW i \in Cells
      PROVE  Shifted(cells)[i] = IF i \in Width .. LastLine - 1 THEN cells[i + Width]
                                 ELSE IF i \in LastLine .. EndOfScreen - 1 THEN Blank ELSE cells[i]
  <2>1. ~ (i \in Width .. LastLine - 1 /\ i \in LastLine .. EndOfScreen - 1)
    BY Dimensions
  <2> QED
    BY <2>1 DEF Shifted
<1>4. \A i \in Cells : Shifted(cells)[i] \in Chars
  BY <1>1, <1>2, <1>3
<1>5. Shifted(cells) \in [Cells -> Chars]
  <2>1. Shifted(cells) = [i \in Cells |-> Shifted(cells)[i]]
    BY DEF Shifted
  <2> QED
    BY <1>4, <2>1
<1> HIDE DEF Shifted
<1> QED
  BY <1>3, <1>5, Dimensions

LEMMA ScrolledIs ==
    ASSUME NEW cells, NEW p \in Int
    PROVE  Scrolled([cells |-> cells, cursor |-> p])
               = IF p >= EndOfScreen THEN [cells |-> Shifted(cells), cursor |-> p - Width]
                                     ELSE [cells |-> cells, cursor |-> p]
<1> DEFINE s == [cells |-> cells, cursor |-> p]
<1>1. s.cells = cells /\ s.cursor = p
  OBVIOUS
<1> HIDE DEF s
<1> QED
  BY <1>1 DEF Scrolled

\* Put leaves the screen ready for the next character.
LEMMA PutReady ==
    ASSUME NEW s \in Ready, NEW c \in Chars
    PROVE  Put(s, c) \in Ready
<1> DEFINE cells == [s.cells EXCEPT ![s.cursor] = c]
<1>1. s.cells \in [Cells -> Chars] /\ s.cursor \in 0 .. EndOfScreen - 1 /\ s.cursor \in Cells
      /\ \A i \in Cells : i >= EndOfScreen => s.cells[i] = Blank
  BY Dimensions DEF Ready
<1>2. cells \in [Cells -> Chars] /\ \A i \in Cells : i >= EndOfScreen => cells[i] = Blank
  <2>1. \A i \in Cells : i >= EndOfScreen => i # s.cursor
    BY <1>1, Dimensions
  <2> QED
    BY <1>1, <2>1
<1> HIDE DEF cells
<1>3. CASE s.cursor + 1 >= EndOfScreen
  <2>1. Put(s, c) = [cells |-> Shifted(cells), cursor |-> (s.cursor + 1) - Width]
    <3>1. Put(s, c) = Scrolled([cells |-> cells, cursor |-> s.cursor + 1])
      BY DEF Put, cells
    <3>2. s.cursor + 1 \in Int
      BY <1>1
    <3> QED
      BY <1>3, <3>1, <3>2, ScrolledIs
  <2>2. (s.cursor + 1) - Width \in 0 .. EndOfScreen - 1
    <3>1. s.cursor \in 0 .. EndOfScreen - 1 /\ s.cursor + 1 >= EndOfScreen
      BY <1>1, <1>3
    <3>2. Width \in Nat \ {0} /\ EndOfScreen \in Nat /\ Width <= EndOfScreen
      BY Dimensions
    <3> QED
      BY <3>1, <3>2
  <2>3. Shifted(cells) \in [Cells -> Chars]
        /\ \A i \in Cells : i >= EndOfScreen => Shifted(cells)[i] = Blank
    <3>1. EndOfScreen \in Cells /\ \A i \in Cells : i >= EndOfScreen => i = EndOfScreen \/ i > EndOfScreen
      BY Dimensions
    <3>2. \A i \in Cells : i > EndOfScreen => cells[i] = Blank
      BY <1>2, Dimensions
    <3> QED
      BY <1>2, <3>1, <3>2, ShiftedCells, Dimensions
  <2> QED
    BY <2>1, <2>2, <2>3 DEF Ready
<1>4. CASE ~ (s.cursor + 1 >= EndOfScreen)
  <2>1. Put(s, c) = [cells |-> cells, cursor |-> s.cursor + 1]
    <3>1. Put(s, c) = Scrolled([cells |-> cells, cursor |-> s.cursor + 1])
      BY DEF Put, cells
    <3>2. s.cursor + 1 \in Int
      BY <1>1
    <3> QED
      BY <1>4, <3>1, <3>2, ScrolledIs
  <2>2. s.cursor + 1 \in 0 .. EndOfScreen - 1
    BY <1>1, <1>4, Dimensions
  <2> QED
    BY <1>2, <2>1, <2>2 DEF Ready
<1> QED
  BY <1>3, <1>4
\* A tab puts its spaces one after the other.
LEMMA TabSteps ==
    ASSUME NEW s \in Ready
    PROVE  \E n \in 1 .. TabStop, h \in [0 .. TabStop -> Ready] :
               /\ n = TabStop - (s.cursor % TabStop)
               /\ h[0] = s /\ h[n] = Tabbed(s)
               /\ \A k \in 1 .. n : h[k] = Put(h[k - 1], Space)
<1> DEFINE n == TabStop - (s.cursor % TabStop)
           items == [i \in 1 .. n |-> i]
           F == [k \in 1 .. n |-> [u \in Ready |-> Put(u, Space)]]
           Solution(iter) == iter = [d \in SUBSET DOMAIN items |->
                                        IF d = {} THEN s ELSE Put(iter[d \ {Max(d)}], Space)]
<1>1. n \in 1 .. TabStop
  <2>1. s.cursor \in Nat
    BY Dimensions DEF Ready
  <2>2. s.cursor % 4 \in 0 .. 3
    BY <2>1
  <2> QED
    BY <2>2 DEF TabStop
<1>2. n \in Nat /\ DOMAIN items = 1 .. n
  BY <1>1 DEF TabStop
<1>3. Tabbed(s) = (CHOOSE iter : Solution(iter))[DOMAIN items]
  BY DEF Tabbed, FoldLeft, MapThenFoldSet
<1> HIDE DEF n, items
<1>4. F \in [1 .. n -> [Ready -> Ready]]
  BY PutReady, ScreenAssumption DEF Chars
<1>5. \A d : Max(d) = Highest(d)
  BY DEF Max, Highest
<1>6. PICK first \in [SUBSET (1 .. n) -> Ready] : Folds(first, s, F, n, Ready)
  <2> HIDE DEF F
  <2> QED
    BY <1>2, <1>4, FoldExists
<1>7. \A d \in SUBSET (1 .. n) : d # {} => Highest(d) \in 1 .. n /\ d \ {Highest(d)} \in SUBSET (1 .. n)
  BY <1>2, HighestProperty
<1>8. Solution(first)
  <2>1. ASSUME NEW d \in SUBSET (1 .. n)
        PROVE  first[d] = IF d = {} THEN s ELSE Put(first[d \ {Max(d)}], Space)
    BY <1>5, <1>6, <1>7 DEF Folds
  <2> QED
    BY <1>2, <2>1
<1>9. PICK iter : iter = (CHOOSE f : Solution(f))
  OBVIOUS
<1>10. Solution(iter)
  <2> HIDE DEF Solution
  <2> QED
    BY <1>8, <1>9
<1>11. Folds(iter, s, F, n, Ready)
  <2>1. \A d \in SUBSET (1 .. n) : iter[d] = IF d = {} THEN s ELSE Put(iter[d \ {Highest(d)}], Space)
    BY <1>2, <1>5, <1>10
  <2>2. \A i \in 1 .. n : \A u \in Ready : F[i][u] = Put(u, Space)
    OBVIOUS
  <2> HIDE DEF F
  <2> QED
    BY <1>7, <2>1, <2>2 DEF Folds
<1>12. PICK h \in [0 .. n -> Ready] : Follows(h, s, F, n) /\ h[n] = iter[1 .. n]
  <2> HIDE DEF F
  <2> QED
    BY <1>2, <1>4, <1>11, FoldSteps
<1>13. \A k \in 1 .. n : h[k] = Put(h[k - 1], Space)
  <2>1. \A k \in 1 .. n : k - 1 \in 0 .. n /\ h[k - 1] \in Ready
    BY <1>2, <1>12
  <2> QED
    BY <1>12, <2>1 DEF Follows
<1> DEFINE g == [k \in 0 .. TabStop |-> IF k <= n THEN h[k] ELSE s]
<1>14. g \in [0 .. TabStop -> Ready]
  <2>1. \A k \in 0 .. TabStop : k <= n => k \in 0 .. n
    BY <1>1
  <2> QED
    BY <1>12, <2>1
<1>15. \A k \in 0 .. n : g[k] = h[k]
  BY <1>1 DEF TabStop
<1> HIDE DEF g
<1>16. g[0] = s /\ g[n] = Tabbed(s)
  <2>1. 0 \in 0 .. n /\ n \in 0 .. n
    BY <1>2
  <2> QED
    BY <1>2, <1>3, <1>9, <1>12, <1>15, <2>1 DEF Follows
<1>17. \A k \in 1 .. n : g[k] = Put(g[k - 1], Space)
  <2>1. \A k \in 1 .. n : k \in 0 .. n /\ k - 1 \in 0 .. n
    BY <1>2
  <2> QED
    BY <1>13, <1>15, <2>1
<1> QED
  BY <1>1, <1>14, <1>16, <1>17 DEF n

\* The cells and the cursor that Put leaves.
LEMMA PutIs ==
    ASSUME NEW s \in Ready, NEW c \in Chars
    PROVE  /\ s.cursor + 1 < EndOfScreen
                 => /\ Put(s, c).cursor = s.cursor + 1
                    /\ \A i \in Cells : Put(s, c).cells[i] = IF i = s.cursor THEN c ELSE s.cells[i]
           /\ s.cursor + 1 = EndOfScreen
                 => /\ Put(s, c).cursor = LastLine
                    /\ \A i \in 0 .. Width - 1 : Put(s, c).cells[i] = s.cells[i]
                    /\ \A i \in Width .. LastLine - 1 :
                          Put(s, c).cells[i] = IF i + Width = s.cursor THEN c ELSE s.cells[i + Width]
                    /\ \A i \in LastLine .. EndOfScreen - 1 : Put(s, c).cells[i] = Blank
<1> DEFINE cells == [s.cells EXCEPT ![s.cursor] = c]
<1>1. s.cells \in [Cells -> Chars] /\ s.cursor \in 0 .. EndOfScreen - 1 /\ s.cursor \in Cells
      /\ \A i \in Cells : i >= EndOfScreen => s.cells[i] = Blank
  BY Dimensions DEF Ready
<1>2. \A i \in Cells : cells[i] = IF i = s.cursor THEN c ELSE s.cells[i]
  BY <1>1
<1>3. cells \in [Cells -> Chars] /\ \A i \in Cells : i > EndOfScreen => cells[i] = Blank
  <2>1. \A i \in Cells : i > EndOfScreen => i >= EndOfScreen /\ i # s.cursor
    BY <1>1, Dimensions
  <2> QED
    BY <1>1, <2>1
<1>4. Put(s, c) = Scrolled([cells |-> cells, cursor |-> s.cursor + 1])
  BY DEF Put
<1> HIDE DEF cells
<1>5. s.cursor + 1 \in Int
  BY <1>1
<1>6. Put(s, c) = IF s.cursor + 1 >= EndOfScreen
                  THEN [cells |-> Shifted(cells), cursor |-> (s.cursor + 1) - Width]
                  ELSE [cells |-> cells, cursor |-> s.cursor + 1]
  BY <1>4, <1>5, ScrolledIs
<1>7. CASE s.cursor + 1 < EndOfScreen
  <2>1. Put(s, c) = [cells |-> cells, cursor |-> s.cursor + 1]
    BY <1>1, <1>6, <1>7, Dimensions
  <2>2. Put(s, c).cursor = s.cursor + 1 /\ Put(s, c).cells = cells
    BY <2>1
  <2>3. ~ (s.cursor + 1 = EndOfScreen)
    BY <1>1, <1>7, Dimensions
  <2> QED
    BY <1>2, <2>2, <2>3
<1>8. CASE s.cursor + 1 = EndOfScreen
  <2>1. Put(s, c) = [cells |-> Shifted(cells), cursor |-> LastLine]
    BY <1>6, <1>8, Dimensions
  <2>2. \A i \in 0 .. Width - 1 : i \in Cells /\ i # s.cursor
    BY <1>8, Dimensions
  <2>3. \A i \in Width .. LastLine - 1 : i + Width \in Cells
    BY Dimensions
  <2>4. /\ \A i \in 0 .. Width - 1 : Shifted(cells)[i] = cells[i]
        /\ \A i \in Width .. LastLine - 1 : Shifted(cells)[i] = cells[i + Width]
        /\ \A i \in LastLine .. EndOfScreen - 1 : Shifted(cells)[i] = Blank
    BY <1>3, ShiftedCells
  <2> QED
    BY <1>2, <1>8, <2>1, <2>2, <2>3, <2>4, Dimensions
<1> QED
  BY <1>1, <1>7, <1>8, Dimensions

\* What a process sees of two screens is the same.
Alike(s, u) == s.cursor = u.cursor /\ \A i \in Width .. EndOfScreen - 1 : s.cells[i] = u.cells[i]

LEMMA PutAlike ==
    ASSUME NEW s \in Ready, NEW u \in Ready, Alike(s, u), NEW c \in Chars
    PROVE  Alike(Put(s, c), Put(u, c))
<1>1. s.cursor \in 0 .. EndOfScreen - 1 /\ s.cursor = u.cursor
  BY DEF Ready, Alike
<1>2. \A i \in Width .. EndOfScreen - 1 : i \in Cells /\ s.cells[i] = u.cells[i]
  BY Dimensions DEF Alike
<1>3. CASE s.cursor + 1 < EndOfScreen
  BY <1>1, <1>2, <1>3, PutIs DEF Alike
<1>4. CASE s.cursor + 1 = EndOfScreen
  <2>1. \A i \in Width .. LastLine - 1 : i + Width \in Width .. EndOfScreen - 1
    BY Dimensions
  <2>2. \A i \in Width .. EndOfScreen - 1 : i \in Width .. LastLine - 1 \/ i \in LastLine .. EndOfScreen - 1
    BY Dimensions
  <2>3. Put(s, c).cursor = Put(u, c).cursor
    BY <1>1, <1>4, PutIs
  <2>4. \A i \in Width .. LastLine - 1 : Put(s, c).cells[i] = Put(u, c).cells[i]
    BY <1>1, <1>2, <1>4, <2>1, PutIs
  <2>5. \A i \in LastLine .. EndOfScreen - 1 : Put(s, c).cells[i] = Put(u, c).cells[i]
    BY <1>1, <1>4, PutIs
  <2> QED
    BY <2>2, <2>3, <2>4, <2>5 DEF Alike
<1> QED
  BY <1>1, <1>3, <1>4, Dimensions

\* The first line is the same.
SameBanner(s, u) == \A i \in 0 .. Width - 1 : u.cells[i] = s.cells[i]

LEMMA PutSpares ==
    ASSUME NEW s \in Ready, NEW c \in Chars, s.cursor >= Width
    PROVE  SameBanner(s, Put(s, c)) /\ Put(s, c).cursor >= Width
<1>1. s.cursor \in 0 .. EndOfScreen - 1
  BY DEF Ready
<1>2. \A i \in 0 .. Width - 1 : i \in Cells /\ i # s.cursor
  BY <1>1, Dimensions
<1>3. CASE s.cursor + 1 < EndOfScreen
  BY <1>1, <1>2, <1>3, PutIs, Dimensions DEF SameBanner
<1>4. CASE s.cursor + 1 = EndOfScreen
  BY <1>1, <1>4, PutIs, Dimensions DEF SameBanner
<1> QED
  BY <1>1, <1>3, <1>4, Dimensions

LEMMA TabReady == ASSUME NEW s \in Ready PROVE Tabbed(s) \in Ready
<1>1. PICK n \in 1 .. TabStop, h \in [0 .. TabStop -> Ready] : h[n] = Tabbed(s)
  BY TabSteps
<1> QED
  BY <1>1 DEF TabStop

LEMMA TabAlike ==
    ASSUME NEW s \in Ready, NEW u \in Ready, Alike(s, u)
    PROVE  Alike(Tabbed(s), Tabbed(u))
<1>1. PICK n \in 1 .. TabStop, h \in [0 .. TabStop -> Ready] :
             /\ n = TabStop - (s.cursor % TabStop)
             /\ h[0] = s /\ h[n] = Tabbed(s)
             /\ \A k \in 1 .. n : h[k] = Put(h[k - 1], Space)
  BY TabSteps
<1>2. PICK g \in [0 .. TabStop -> Ready] : /\ g[0] = u /\ g[n] = Tabbed(u)
                                           /\ \A k \in 1 .. n : g[k] = Put(g[k - 1], Space)
  <2>1. PICK m \in 1 .. TabStop, g \in [0 .. TabStop -> Ready] :
               /\ m = TabStop - (u.cursor % TabStop)
               /\ g[0] = u /\ g[m] = Tabbed(u)
               /\ \A k \in 1 .. m : g[k] = Put(g[k - 1], Space)
    BY TabSteps
  <2>2. m = n
    BY <1>1, <2>1 DEF Alike
  <2> QED
    BY <2>1, <2>2
<1>3. n \in Nat /\ \A k \in 0 .. n : k \in 0 .. TabStop /\ (k # 0 => k \in 1 .. n /\ k - 1 \in 0 .. TabStop)
  BY <1>1 DEF TabStop
<1> DEFINE T == {k \in 0 .. n : Alike(h[k], g[k])}
<1>4. 0 \in T
  BY <1>1, <1>2, <1>3
<1>5. ASSUME NEW k \in 1 .. n, k - 1 \in T PROVE k \in T
  <2>1. h[k - 1] \in Ready /\ g[k - 1] \in Ready /\ Alike(h[k - 1], g[k - 1])
    BY <1>3, <1>5
  <2>2. Space \in Chars
    BY ScreenAssumption DEF Chars
  <2>3. Alike(Put(h[k - 1], Space), Put(g[k - 1], Space))
    BY <2>1, <2>2, PutAlike
  <2> QED
    BY <1>1, <1>2, <2>3
<1>6. n \in T
  <2> HIDE DEF T
  <2>1. 0 .. n \subseteq T
    BY <1>3, <1>4, <1>5, UpTo
  <2> QED
    BY <1>3, <2>1
<1> QED
  BY <1>1, <1>2, <1>6

LEMMA TabSpares ==
    ASSUME NEW s \in Ready, s.cursor >= Width
    PROVE  SameBanner(s, Tabbed(s)) /\ Tabbed(s).cursor >= Width
<1>1. PICK n \in 1 .. TabStop, h \in [0 .. TabStop -> Ready] :
               /\ h[0] = s /\ h[n] = Tabbed(s)
               /\ \A k \in 1 .. n : h[k] = Put(h[k - 1], Space)
  BY TabSteps
<1>2. n \in Nat /\ \A k \in 1 .. n : k - 1 \in 0 .. TabStop
  BY <1>1 DEF TabStop
<1> DEFINE T == {k \in 0 .. n : SameBanner(s, h[k]) /\ h[k].cursor >= Width}
<1>3. 0 \in T
  BY <1>1, <1>2 DEF SameBanner
<1>4. ASSUME NEW k \in 1 .. n, k - 1 \in T PROVE k \in T
  <2>1. h[k - 1] \in Ready /\ SameBanner(s, h[k - 1]) /\ h[k - 1].cursor >= Width
    BY <1>2, <1>4
  <2>2. Space \in Chars
    BY ScreenAssumption DEF Chars
  <2>3. SameBanner(h[k - 1], Put(h[k - 1], Space)) /\ Put(h[k - 1], Space).cursor >= Width
    BY <2>1, <2>2, PutSpares
  <2> QED
    BY <1>1, <2>1, <2>3 DEF SameBanner
<1>5. n \in T
  <2> HIDE DEF T
  <2>1. 0 .. n \subseteq T
    BY <1>2, <1>3, <1>4, UpTo
  <2> QED
    BY <1>2, <2>1
<1> QED
  BY <1>1, <1>5

-----------------------------------------------------------------------------
(***************************************************************************)
(* console_putchar and console_putbytes.                                   *)
(***************************************************************************)
LEMMA Apart ==
    /\ Space \in Printable /\ Blank \notin Printable
    /\ \A c \in Controls : c \notin Printable
    /\ NEWLINE # BACKSPACE /\ NEWLINE # TAB /\ NEWLINE # RETURN /\ NEWLINE # FORMFEED
    /\ BACKSPACE # TAB /\ BACKSPACE # RETURN /\ BACKSPACE # FORMFEED
    /\ TAB # RETURN /\ TAB # FORMFEED /\ RETURN # FORMFEED
    /\ Controls = {NEWLINE, BACKSPACE, TAB, RETURN, FORMFEED}
  BY ScreenAssumption DEF Controls, NEWLINE, BACKSPACE, TAB, RETURN, FORMFEED

\* What console_putchar does, case by case.
LEMMA PutcharIs ==
    ASSUME NEW s
    PROVE  /\ \A c \in Printable : console_putchar(s, c) = Put(s, c)
           /\ console_putchar(s, NEWLINE) = Scrolled([s EXCEPT !.cursor = s.cursor + Width - (s.cursor % Width)])
           /\ console_putchar(s, BACKSPACE)
                  = IF s.cursor > 0
                    THEN [cells |-> [s.cells EXCEPT ![s.cursor - 1] = Blank], cursor |-> s.cursor - 1]
                    ELSE s
           /\ console_putchar(s, TAB) = Tabbed(s)
           /\ console_putchar(s, RETURN) = MoveTo(s, 0, Row(s))
           /\ console_putchar(s, FORMFEED) = Cleared(s)
<1> HIDE DEF Put, Scrolled, Tabbed, MoveTo, Cleared
<1>1. ASSUME NEW c \in Printable PROVE console_putchar(s, c) = Put(s, c)
  <2>1. c # NEWLINE /\ c # BACKSPACE /\ c # TAB /\ c # RETURN /\ c # FORMFEED
    BY Apart
  <2> QED
    BY <2>1 DEF console_putchar
<1>2. \A c \in Controls : ~ (c \in Printable)
  BY Apart
<1> USE Apart DEF console_putchar
<1>3. console_putchar(s, NEWLINE) = Scrolled([s EXCEPT !.cursor = s.cursor + Width - (s.cursor % Width)])
  BY <1>2
<1>4. console_putchar(s, BACKSPACE)
          = IF s.cursor > 0
            THEN [cells |-> [s.cells EXCEPT ![s.cursor - 1] = Blank], cursor |-> s.cursor - 1]
            ELSE s
  BY <1>2
<1>5. console_putchar(s, TAB) = Tabbed(s)
  BY <1>2
<1>6. console_putchar(s, RETURN) = MoveTo(s, 0, Row(s))
  BY <1>2
<1>7. console_putchar(s, FORMFEED) = Cleared(s)
  BY <1>2
<1> QED
  BY <1>1, <1>3, <1>4, <1>5, <1>6, <1>7

\* A newline moves the cursor to the next line, or scrolls the screen on the last one.
LEMMA NewlineIs ==
    ASSUME NEW s \in Ready
    PROVE  LET next == (s.cursor + Width) - (s.cursor % Width)
           IN  /\ next \in Width .. EndOfScreen
               /\ next < EndOfScreen
                     => console_putchar(s, NEWLINE) = [cells |-> s.cells, cursor |-> next]
               /\ next = EndOfScreen
                     => console_putchar(s, NEWLINE) = [cells |-> Shifted(s.cells), cursor |-> LastLine]
<1> DEFINE next == (s.cursor + Width) - (s.cursor % Width)
<1>1. s.cursor \in Nat /\ s.cursor < EndOfScreen /\ s = [cells |-> s.cells, cursor |-> s.cursor]
  BY Dimensions DEF Ready
<1>2. s.cursor % Width \in 0 .. Width - 1 /\ s.cursor % Width <= s.cursor /\ next <= EndOfScreen
  <2> DEFINE q == (s.cursor \div Width) * Width
             r == s.cursor % Width
  <2>1. r \in 0 .. Width - 1 /\ q \in Nat /\ s.cursor = q + r
        /\ (s.cursor + Width) - r <= EndOfScreen
    <3>1. s.cursor + Width - (s.cursor % Width) <= EndOfScreen
      BY <1>1, Division
    <3>2. s.cursor % Width \in 0 .. Width - 1
      BY <1>1, Division
    <3> QED
      BY <1>1, <3>1, <3>2, Division, Dimensions
  <2> HIDE DEF q, r
  <2>2. r <= s.cursor
    BY <1>1, <2>1, Dimensions
  <2> QED
    BY <2>1, <2>2 DEF r
<1>3. next \in Width .. EndOfScreen /\ next = s.cursor + Width - (s.cursor % Width)
  BY <1>1, <1>2, Dimensions
<1> HIDE DEF next
<1>4. console_putchar(s, NEWLINE) = Scrolled([cells |-> s.cells, cursor |-> next])
  <2>1. [s EXCEPT !.cursor = next] = [cells |-> s.cells, cursor |-> next]
    BY <1>1
  <2> QED
    BY <1>3, <2>1, PutcharIs
<1>5. console_putchar(s, NEWLINE) = IF next >= EndOfScreen
                                    THEN [cells |-> Shifted(s.cells), cursor |-> next - Width]
                                    ELSE [cells |-> s.cells, cursor |-> next]
  BY <1>3, <1>4, ScrolledIs, Dimensions
<1> QED
  BY <1>3, <1>5, Dimensions DEF next

\* What the other control characters leave.
LEMMA ReturnIs ==
    ASSUME NEW s \in Ready
    PROVE  \E p \in 0 .. s.cursor :
               /\ p = (s.cursor \div Width) * Width
               /\ console_putchar(s, RETURN) = [cells |-> s.cells, cursor |-> p]
<1>1. s.cursor \in Nat /\ s = [cells |-> s.cells, cursor |-> s.cursor]
  BY Dimensions DEF Ready
<1> DEFINE p == (s.cursor \div Width) * Width
<1>2. p \in Nat /\ s.cursor = p + (s.cursor % Width) /\ s.cursor % Width \in 0 .. Width - 1
  BY <1>1, Division
<1>3. MoveTo(s, 0, Row(s)) = [cells |-> s.cells, cursor |-> p + 0]
  BY <1>1 DEF MoveTo, Position, Row
<1> HIDE DEF p
<1>4. p \in 0 .. s.cursor /\ p + 0 = p
  <2> DEFINE r == s.cursor % Width
  <2>1. r \in Nat /\ s.cursor = p + r
    BY <1>2, Dimensions
  <2> HIDE DEF r
  <2> QED
    BY <1>1, <1>2, <2>1
<1>5. console_putchar(s, RETURN) = [cells |-> s.cells, cursor |-> p]
  BY <1>3, <1>4, PutcharIs
<1> QED
  BY <1>4, <1>5 DEF p

LEMMA BackspaceIs ==
    ASSUME NEW s \in Ready
    PROVE  IF s.cursor > 0
           THEN /\ console_putchar(s, BACKSPACE).cursor = s.cursor - 1
                /\ console_putchar(s, BACKSPACE).cells \in [Cells -> Chars]
                /\ \A i \in Cells : console_putchar(s, BACKSPACE).cells[i]
                                        = IF i = s.cursor - 1 THEN Blank ELSE s.cells[i]
           ELSE console_putchar(s, BACKSPACE) = s
<1>1. s.cursor \in 0 .. EndOfScreen - 1 /\ s.cells \in [Cells -> Chars]
  BY DEF Ready
<1>2. CASE s.cursor > 0
  <2>1. console_putchar(s, BACKSPACE)
            = [cells |-> [s.cells EXCEPT ![s.cursor - 1] = Blank], cursor |-> s.cursor - 1]
    BY <1>2, PutcharIs
  <2>2. Blank \in Chars
    BY DEF Chars
  <2> DEFINE cells == [s.cells EXCEPT ![s.cursor - 1] = Blank]
  <2>3. cells \in [Cells -> Chars]
        /\ \A i \in Cells : cells[i] = IF i = s.cursor - 1 THEN Blank ELSE s.cells[i]
    BY <1>1, <2>2
  <2> HIDE DEF cells
  <2>4. console_putchar(s, BACKSPACE).cells = cells /\ console_putchar(s, BACKSPACE).cursor = s.cursor - 1
    BY <2>1 DEF cells
  <2> QED
    BY <1>2, <2>3, <2>4
<1>3. CASE ~ (s.cursor > 0)
  BY <1>3, PutcharIs
<1> QED
  BY <1>2, <1>3

LEMMA PutcharReady ==
    ASSUME NEW s \in Ready, NEW c \in Printable \cup Controls
    PROVE  console_putchar(s, c) \in Ready
<1>1. s.cells \in [Cells -> Chars] /\ s.cursor \in 0 .. EndOfScreen - 1
      /\ s = [cells |-> s.cells, cursor |-> s.cursor]
      /\ \A i \in Cells : i >= EndOfScreen => s.cells[i] = Blank
  BY DEF Ready
<1>2. CASE c \in Printable
  BY <1>2, PutReady, PutcharIs DEF Chars
<1>3. CASE c = NEWLINE
  <2> DEFINE next == (s.cursor + Width) - (s.cursor % Width)
  <2>1. /\ next \in Width .. EndOfScreen
        /\ next < EndOfScreen
              => console_putchar(s, NEWLINE) = [cells |-> s.cells, cursor |-> next]
        /\ next = EndOfScreen
              => console_putchar(s, NEWLINE) = [cells |-> Shifted(s.cells), cursor |-> LastLine]
    BY NewlineIs
  <2> HIDE DEF next
  <2>2. CASE next < EndOfScreen
    BY <1>1, <1>3, <2>1, <2>2, Dimensions DEF Ready
  <2>3. CASE next = EndOfScreen
    <3>1. EndOfScreen \in Cells
          /\ \A i \in Cells : /\ i >= EndOfScreen => (i = EndOfScreen \/ i > EndOfScreen)
                              /\ i > EndOfScreen => i >= EndOfScreen
      BY Dimensions
    <3>2. Shifted(s.cells) \in [Cells -> Chars]
          /\ \A i \in Cells : i >= EndOfScreen => Shifted(s.cells)[i] = Blank
      <4>1. \A i \in Cells : i > EndOfScreen => s.cells[i] = Blank
        BY <1>1, Dimensions
      <4>2. /\ Shifted(s.cells) \in [Cells -> Chars]
            /\ \A i \in Cells : i > EndOfScreen => Shifted(s.cells)[i] = Blank
            /\ Shifted(s.cells)[EndOfScreen] = s.cells[EndOfScreen]
        BY <1>1, <4>1, ShiftedCells
      <4>3. s.cells[EndOfScreen] = Blank
        BY <1>1, <3>1, Dimensions
      <4>4. ASSUME NEW i \in Cells, i >= EndOfScreen PROVE Shifted(s.cells)[i] = Blank
        <5>1. i = EndOfScreen \/ i > EndOfScreen
          BY <4>4, Dimensions
        <5> QED
          BY <4>2, <4>3, <5>1
      <4> QED
        BY <4>2, <4>4
    <3>3. LastLine \in 0 .. EndOfScreen - 1
      BY Dimensions
    <3> QED
      BY <1>3, <2>1, <2>3, <3>2, <3>3 DEF Ready
  <2> QED
    BY <2>1, <2>2, <2>3, Dimensions
<1>4. CASE c = BACKSPACE
  <2>1. CASE s.cursor > 0
    <3> DEFINE u == console_putchar(s, BACKSPACE)
    <3>1. u = [cells |-> [s.cells EXCEPT ![s.cursor - 1] = Blank], cursor |-> s.cursor - 1]
      BY <2>1, PutcharIs
    <3>2. u.cursor = s.cursor - 1 /\ u.cells \in [Cells -> Chars]
          /\ \A i \in Cells : u.cells[i] = IF i = s.cursor - 1 THEN Blank ELSE s.cells[i]
      BY <2>1, BackspaceIs
    <3>3. u = [cells |-> u.cells, cursor |-> u.cursor]
      BY <3>1
    <3> HIDE DEF u
    <3>4. s.cursor - 1 \in 0 .. EndOfScreen - 1
      BY <1>1, <2>1, Dimensions
    <3> QED
      BY <1>1, <1>4, <3>2, <3>3, <3>4 DEF Ready, u
  <2>2. CASE ~ (s.cursor > 0)
    BY <1>4, <2>2, PutcharIs
  <2> QED
    BY <2>1, <2>2
<1>5. CASE c = TAB
  BY <1>5, TabReady, PutcharIs
<1>6. CASE c = RETURN
  <2>1. PICK p \in 0 .. s.cursor : console_putchar(s, RETURN) = [cells |-> s.cells, cursor |-> p]
    BY ReturnIs
  <2>2. p \in 0 .. EndOfScreen - 1
    BY <1>1, Dimensions
  <2> QED
    BY <1>1, <1>6, <2>1, <2>2 DEF Ready
<1>7. CASE c = FORMFEED
  <2>1. Cleared(s).cells \in [Cells -> Chars] /\ Cleared(s).cursor = 0
        /\ \A i \in Cells : i >= EndOfScreen => Cleared(s).cells[i] = Blank
    <3>1. Blank \in Chars
      BY DEF Chars
    <3>2. \A i \in Cells : i >= EndOfScreen => ~ (i \in Width .. EndOfScreen - 1)
      BY Dimensions
    <3> QED
      BY <1>1, <3>1, <3>2 DEF Cleared
  <2>2. Cleared(s) = [cells |-> Cleared(s).cells, cursor |-> Cleared(s).cursor]
    BY DEF Cleared
  <2>3. 0 \in 0 .. EndOfScreen - 1
    BY Dimensions
  <2> HIDE DEF Cleared
  <2>4. Cleared(s) \in Ready
    BY <2>1, <2>2, <2>3 DEF Ready
  <2> QED
    BY <1>7, <2>4, PutcharIs
<1> QED
  BY <1>2, <1>3, <1>4, <1>5, <1>6, <1>7, Apart

LEMMA PutcharAlike ==
    ASSUME NEW s \in Ready, NEW u \in Ready, Alike(s, u), NEW c \in Printable \cup Controls
    PROVE  Alike(console_putchar(s, c), console_putchar(u, c))
<1>1. /\ s.cells \in [Cells -> Chars] /\ u.cells \in [Cells -> Chars]
      /\ s.cursor \in 0 .. EndOfScreen - 1 /\ u.cursor = s.cursor
      /\ \A i \in Width .. EndOfScreen - 1 : i \in Cells /\ s.cells[i] = u.cells[i]
      /\ \A i \in Cells : i > EndOfScreen => s.cells[i] = Blank /\ u.cells[i] = Blank
  BY Dimensions DEF Ready, Alike
<1>2. CASE c \in Printable
  <2>1. c \in Chars
    BY <1>2 DEF Chars
  <2>2. console_putchar(s, c) = Put(s, c) /\ console_putchar(u, c) = Put(u, c)
    BY <1>2, PutcharIs
  <2> QED
    BY <2>1, <2>2, PutAlike
<1>3. CASE c = NEWLINE
  <2> DEFINE next == (s.cursor + Width) - (s.cursor % Width)
             a == console_putchar(s, NEWLINE)
             b == console_putchar(u, NEWLINE)
  <2>1. /\ next \in Width .. EndOfScreen
        /\ next < EndOfScreen
              => a = [cells |-> s.cells, cursor |-> next] /\ b = [cells |-> u.cells, cursor |-> next]
        /\ next = EndOfScreen => /\ a = [cells |-> Shifted(s.cells), cursor |-> LastLine]
                                 /\ b = [cells |-> Shifted(u.cells), cursor |-> LastLine]
    BY <1>1, NewlineIs
  <2> HIDE DEF next, a, b
  <2>2. ASSUME next < EndOfScreen PROVE Alike(a, b)
    BY <1>1, <2>1, <2>2 DEF Alike
  <2>3. ASSUME next = EndOfScreen PROVE Alike(a, b)
    <3>1. \A i \in Width .. EndOfScreen - 1 :
             Shifted(s.cells)[i] = Shifted(u.cells)[i]
      <4>1. \A i \in Width .. LastLine - 1 : i + Width \in Width .. EndOfScreen - 1
        BY Dimensions
      <4>2. \A i \in Width .. EndOfScreen - 1 : i \in Width .. LastLine - 1 \/ i \in LastLine .. EndOfScreen - 1
        BY Dimensions
      <4>3. /\ \A i \in Width .. LastLine - 1 : /\ Shifted(s.cells)[i] = s.cells[i + Width]
                                                /\ Shifted(u.cells)[i] = u.cells[i + Width]
            /\ \A i \in LastLine .. EndOfScreen - 1 : Shifted(s.cells)[i] = Blank /\ Shifted(u.cells)[i] = Blank
        <5>1. \A i \in Cells : i > EndOfScreen => s.cells[i] = Blank
          BY <1>1, Dimensions
        <5>2. \A i \in Cells : i > EndOfScreen => u.cells[i] = Blank
          BY <1>1, Dimensions
        <5>3. /\ \A i \in Width .. LastLine - 1 : Shifted(s.cells)[i] = s.cells[i + Width]
              /\ \A i \in LastLine .. EndOfScreen - 1 : Shifted(s.cells)[i] = Blank
          BY <1>1, <5>1, ShiftedCells
        <5>4. /\ \A i \in Width .. LastLine - 1 : Shifted(u.cells)[i] = u.cells[i + Width]
              /\ \A i \in LastLine .. EndOfScreen - 1 : Shifted(u.cells)[i] = Blank
          BY <1>1, <5>2, ShiftedCells
        <5> QED
          BY <5>3, <5>4
      <4> QED
        BY <1>1, <4>1, <4>2, <4>3
    <3> QED
      BY <2>1, <2>3, <3>1 DEF Alike
  <2>4. Alike(a, b)
    BY <2>1, <2>2, <2>3, Dimensions
  <2> QED
    BY <1>3, <2>4 DEF a, b
<1>4. CASE c = BACKSPACE
  <2>1. CASE s.cursor > 0
    BY <1>1, <1>4, <2>1, BackspaceIs DEF Alike
  <2>2. CASE ~ (s.cursor > 0)
    BY <1>1, <1>4, <2>2, BackspaceIs
  <2> QED
    BY <2>1, <2>2
<1>5. CASE c = TAB
  BY <1>5, TabAlike, PutcharIs
<1>6. CASE c = RETURN
  BY <1>1, <1>6, ReturnIs DEF Alike
<1>7. CASE c = FORMFEED
  <2>1. \A i \in Width .. EndOfScreen - 1 : Cleared(s).cells[i] = Cleared(u).cells[i]
    BY <1>1 DEF Cleared
  <2>2. Cleared(s).cursor = Cleared(u).cursor
    BY DEF Cleared
  <2> HIDE DEF Cleared
  <2> QED
    BY <1>7, <2>1, <2>2, PutcharIs DEF Alike
<1> QED
  BY <1>2, <1>3, <1>4, <1>5, <1>6, <1>7, Apart

LEMMA PutcharSpares ==
    ASSUME NEW s \in Ready, s.cursor >= Width, NEW c \in Printable \cup Controls,
           c = BACKSPACE => s.cursor > Width
    PROVE  /\ SameBanner(s, console_putchar(s, c))
           /\ c # FORMFEED => console_putchar(s, c).cursor >= Width
           /\ c = FORMFEED => console_putchar(s, c).cursor = 0
           /\ c \in Printable /\ Height > 2 => console_putchar(s, c).cursor > Width
<1>1. /\ s.cells \in [Cells -> Chars] /\ s.cursor \in 0 .. EndOfScreen - 1
      /\ \A i \in Cells : i > EndOfScreen => s.cells[i] = Blank
      /\ \A i \in 0 .. Width - 1 : i \in Cells
  BY Dimensions DEF Ready
<1>2. CASE c \in Printable
  <2>1. c \in Chars /\ console_putchar(s, c) = Put(s, c) /\ c # FORMFEED
    BY <1>2, PutcharIs, Apart DEF Chars
  <2>2. SameBanner(s, Put(s, c)) /\ Put(s, c).cursor >= Width
    BY <2>1, PutSpares
  <2>3. ASSUME Height > 2 PROVE Put(s, c).cursor > Width
    <3>1. LastLine > Width
      <4>1. Width \in Nat \ {0} /\ Height \in Nat
        BY ScreenAssumption
      <4>2. Width * (Height - 1) = Width + Width * (Height - 2)
        BY <4>1
      <4>3. Width * (Height - 2) = Width + Width * (Height - 3) /\ Width * (Height - 3) \in Nat
        BY <2>3, <4>1
      <4> QED
        BY <4>1, <4>2, <4>3 DEF LastLine
    <3>2. s.cursor + 1 < EndOfScreen => Put(s, c).cursor = s.cursor + 1
      BY <2>1, PutIs
    <3>3. s.cursor + 1 = EndOfScreen => Put(s, c).cursor = LastLine
      BY <2>1, PutIs
    <3>4. s.cursor + 1 < EndOfScreen \/ s.cursor + 1 = EndOfScreen
      BY <1>1, Dimensions
    <3>5. s.cursor + 1 > Width
      BY <1>1, Dimensions
    <3> QED
      BY <3>1, <3>2, <3>3, <3>4, <3>5
  <2> QED
    BY <2>1, <2>2, <2>3
<1>3. CASE c = NEWLINE
  <2> DEFINE next == (s.cursor + Width) - (s.cursor % Width)
             u == console_putchar(s, NEWLINE)
  <2>1. /\ next \in Width .. EndOfScreen
        /\ next < EndOfScreen => u = [cells |-> s.cells, cursor |-> next]
        /\ next = EndOfScreen => u = [cells |-> Shifted(s.cells), cursor |-> LastLine]
    BY NewlineIs
  <2> HIDE DEF next, u
  <2>2. \A i \in 0 .. Width - 1 : Shifted(s.cells)[i] = s.cells[i]
    BY <1>1, ShiftedCells
  <2>3. SameBanner(s, u) /\ u.cursor >= Width
    <3>1. ASSUME next < EndOfScreen PROVE SameBanner(s, u) /\ u.cursor >= Width
      BY <2>1, <3>1, Dimensions DEF SameBanner
    <3>2. ASSUME next = EndOfScreen PROVE SameBanner(s, u) /\ u.cursor >= Width
      BY <2>1, <2>2, <3>2, Dimensions DEF SameBanner
    <3> QED
      BY <2>1, <3>1, <3>2, Dimensions
  <2> QED
    BY <1>3, <2>3, Apart DEF u
<1>4. CASE c = BACKSPACE
  <2>1. s.cursor > Width /\ s.cursor > 0
    BY <1>1, <1>4, Dimensions
  <2>2. \A i \in 0 .. Width - 1 : i # s.cursor - 1
    BY <1>1, <2>1, Dimensions
  <2> QED
    BY <1>1, <1>4, <2>1, <2>2, BackspaceIs, Apart, Dimensions DEF SameBanner
<1>5. CASE c = TAB
  BY <1>5, TabSpares, PutcharIs, Apart
<1>6. CASE c = RETURN
  <2>1. PICK p \in 0 .. s.cursor : /\ p = (s.cursor \div Width) * Width
                                   /\ console_putchar(s, RETURN) = [cells |-> s.cells, cursor |-> p]
    BY ReturnIs
  <2>2. p >= Width
    <3> DEFINE q == s.cursor \div Width
               r == s.cursor % Width
    <3>0. s.cursor \in Nat
      BY <1>1, Dimensions
    <3>1. q \in Nat /\ r \in 0 .. Width - 1 /\ p = q * Width
      BY <2>1, <3>0, Division
    <3>2. s.cursor = q * Width + r
      BY <3>0, Division
    <3> HIDE DEF q, r
    <3>3. q # 0
      BY <3>1, <3>2, Dimensions
    <3>4. q * Width = Width + (q - 1) * Width /\ (q - 1) * Width \in Nat
      BY <3>1, <3>3, Dimensions
    <3> QED
      BY <3>1, <3>4, Dimensions
  <2> QED
    BY <1>6, <2>1, <2>2, Apart DEF SameBanner
<1>7. CASE c = FORMFEED
  <2>1. Cleared(s).cursor = 0 /\ \A i \in 0 .. Width - 1 : Cleared(s).cells[i] = s.cells[i]
    <3>1. \A i \in 0 .. Width - 1 : i \notin Width .. EndOfScreen - 1
      BY Dimensions
    <3>2. \A i \in 0 .. Width - 1 : i \in Cells
      BY <1>1
    <3>3. Cleared(s).cursor = 0
      BY DEF Cleared
    <3>4. \A i \in 0 .. Width - 1 : Cleared(s).cells[i] = s.cells[i]
      BY <3>1, <3>2 DEF Cleared
    <3> QED
      BY <3>3, <3>4
  <2>2. console_putchar(s, c) = Cleared(s)
    BY <1>7, PutcharIs
  <2> HIDE DEF Cleared
  <2> QED
    BY <1>7, <2>1, <2>2, Apart DEF SameBanner
<1> QED
  BY <1>2, <1>3, <1>4, <1>5, <1>6, <1>7, Apart

\* After a form feed a newline goes to the line below the banner.
LEMMA NewlineAtStart ==
    ASSUME NEW s \in Ready, s.cursor = 0
    PROVE  console_putchar(s, NEWLINE) = [cells |-> s.cells, cursor |-> Width]
<1>1. (s.cursor + Width) - (s.cursor % Width) = Width
  <2>1. 0 % Width = 0
    BY Dimensions
  <2> QED
    BY <2>1, Dimensions
<1>2. Width < EndOfScreen
  BY Dimensions
<1> QED
  BY <1>1, <1>2, NewlineIs

Strings == Seq(Printable \cup Controls)

\* The screens between the characters of a text.
Prints(h, s, t) ==
    /\ h[0] = s /\ h[Len(t)] = console_putbytes(s, t)
    /\ \A k \in 1 .. Len(t) : h[k] = console_putchar(h[k - 1], t[k])

LEMMA PrintSteps ==
    ASSUME NEW s \in Ready, NEW t \in Strings
    PROVE  \E h \in [0 .. Len(t) -> Ready] : Prints(h, s, t)
<1> DEFINE n == Len(t)
           F == [k \in 1 .. n |-> [u \in Ready |-> console_putchar(u, t[k])]]
           Solution(iter) == iter = [d \in SUBSET DOMAIN t |->
                                        IF d = {} THEN s ELSE console_putchar(iter[d \ {Max(d)}], t[Max(d)])]
<1>1. n \in Nat /\ DOMAIN t = 1 .. n /\ \A k \in 1 .. n : t[k] \in Printable \cup Controls
  BY DEF Strings
<1> HIDE DEF console_putchar
<1>2. console_putbytes(s, t) = (CHOOSE iter : Solution(iter))[DOMAIN t]
  BY DEF console_putbytes, FoldLeft, MapThenFoldSet
<1> HIDE DEF n
<1>3. F \in [1 .. n -> [Ready -> Ready]]
  BY <1>1, PutcharReady
<1>4. \A d : Max(d) = Highest(d)
  BY DEF Max, Highest
<1>5. PICK first \in [SUBSET (1 .. n) -> Ready] : Folds(first, s, F, n, Ready)
  <2> HIDE DEF F
  <2> QED
    BY <1>1, <1>3, FoldExists
<1>6. \A d \in SUBSET (1 .. n) : d # {} => Highest(d) \in 1 .. n /\ d \ {Highest(d)} \in SUBSET (1 .. n)
  BY <1>1, HighestProperty
<1>7. \A i \in 1 .. n : \A u \in Ready : F[i][u] = console_putchar(u, t[i])
  OBVIOUS
<1> HIDE DEF F
<1>8. Solution(first)
  <2>1. ASSUME NEW d \in SUBSET (1 .. n)
        PROVE  first[d] = IF d = {} THEN s ELSE console_putchar(first[d \ {Max(d)}], t[Max(d)])
    BY <1>4, <1>5, <1>6, <1>7 DEF Folds
  <2> QED
    BY <1>1, <2>1
<1>9. PICK iter : iter = (CHOOSE f : Solution(f))
  OBVIOUS
<1>10. Solution(iter)
  <2> HIDE DEF Solution
  <2> QED
    BY <1>8, <1>9
<1>11. Folds(iter, s, F, n, Ready)
  <2>1. \A d \in SUBSET (1 .. n) :
           iter[d] = IF d = {} THEN s ELSE console_putchar(iter[d \ {Highest(d)}], t[Highest(d)])
    BY <1>1, <1>4, <1>10
  <2> QED
    BY <1>6, <1>7, <2>1 DEF Folds
<1>12. PICK h \in [0 .. n -> Ready] : Follows(h, s, F, n) /\ h[n] = iter[1 .. n]
  <2>1. n \in Nat
    BY <1>1
  <2> QED
    BY <1>3, <1>11, <2>1, FoldSteps
<1>13. \A k \in 1 .. n : h[k] = console_putchar(h[k - 1], t[k])
  <2>1. \A k \in 1 .. n : k - 1 \in 0 .. n /\ h[k - 1] \in Ready
    BY <1>1, <1>12
  <2> QED
    BY <1>7, <1>12, <2>1 DEF Follows
<1>14. h[0] = s /\ h[n] = console_putbytes(s, t)
  BY <1>1, <1>2, <1>9, <1>12 DEF Follows
<1> QED
  BY <1>12, <1>13, <1>14 DEF n, Prints

LEMMA PrintReady ==
    ASSUME NEW s \in Ready, NEW t \in Strings
    PROVE  console_putbytes(s, t) \in Ready
<1>1. PICK h \in [0 .. Len(t) -> Ready] : Prints(h, s, t)
  BY PrintSteps
<1>2. Len(t) \in 0 .. Len(t)
  BY DEF Strings
<1> QED
  BY <1>1, <1>2 DEF Prints

LEMMA PrintAlike ==
    ASSUME NEW s \in Ready, NEW u \in Ready, Alike(s, u), NEW t \in Strings
    PROVE  Alike(console_putbytes(s, t), console_putbytes(u, t))
<1>1. PICK h \in [0 .. Len(t) -> Ready] : Prints(h, s, t)
  BY PrintSteps
<1>2. PICK g \in [0 .. Len(t) -> Ready] : Prints(g, u, t)
  BY PrintSteps
<1>3. Len(t) \in Nat /\ \A k \in 1 .. Len(t) : t[k] \in Printable \cup Controls
  BY DEF Strings
<1> DEFINE T == {k \in 0 .. Len(t) : Alike(h[k], g[k])}
<1>4. 0 \in T
  BY <1>1, <1>2, <1>3 DEF Prints
<1>5. ASSUME NEW k \in 1 .. Len(t), k - 1 \in T PROVE k \in T
  <2>1. h[k - 1] \in Ready /\ g[k - 1] \in Ready /\ Alike(h[k - 1], g[k - 1])
    BY <1>5
  <2>2. Alike(console_putchar(h[k - 1], t[k]), console_putchar(g[k - 1], t[k]))
    BY <1>3, <2>1, PutcharAlike
  <2> QED
    BY <1>1, <1>2, <2>2 DEF Prints
<1>6. Len(t) \in T
  <2> HIDE DEF T
  <2>1. 0 .. Len(t) \subseteq T
    BY <1>3, <1>4, <1>5, UpTo
  <2> QED
    BY <1>3, <2>1
<1> QED
  BY <1>1, <1>2, <1>6 DEF Prints

\* A text that spares the banner when it begins below it: a form feed is its last character or
\* followed by a newline, and a backspace erases a character of the text.
Sparing(t) ==
    \A k \in 1 .. Len(t) : /\ t[k] = FORMFEED => k = Len(t) \/ t[k + 1] = NEWLINE
                           /\ t[k] = BACKSPACE => k > 1 /\ t[k - 1] \in Printable

LEMMA PrintSpares ==
    ASSUME NEW s \in Ready, NEW t \in Strings, Sparing(t), s.cursor >= Width, Height > 2
    PROVE  SameBanner(s, console_putbytes(s, t))
<1>1. PICK h \in [0 .. Len(t) -> Ready] : Prints(h, s, t)
  BY PrintSteps
<1>2. Len(t) \in Nat /\ \A k \in 1 .. Len(t) : t[k] \in Printable \cup Controls
  BY DEF Strings
<1> DEFINE Fed(k) == k > 0 /\ t[k] = FORMFEED
           T == {k \in 0 .. Len(t) :
                    /\ SameBanner(s, h[k])
                    /\ IF Fed(k) THEN h[k].cursor = 0 ELSE h[k].cursor >= Width
                    /\ k > 0 /\ t[k] \in Printable => h[k].cursor > Width}
<1>3. 0 \in T
  BY <1>1, <1>2 DEF Prints, SameBanner
<1>4. ASSUME NEW k \in 1 .. Len(t), k - 1 \in T PROVE k \in T
  <2>1. /\ h[k - 1] \in Ready /\ h[k] = console_putchar(h[k - 1], t[k]) /\ k > 0
        /\ t[k] \in Printable \cup Controls
        /\ SameBanner(s, h[k - 1])
        /\ IF Fed(k - 1) THEN h[k - 1].cursor = 0 ELSE h[k - 1].cursor >= Width
        /\ k - 1 > 0 /\ t[k - 1] \in Printable => h[k - 1].cursor > Width
    <3>1. k - 1 \in 0 .. Len(t) /\ k > 0 /\ k \in 1 .. Len(t)
      BY <1>2
    <3>2. h[k - 1] \in Ready /\ h[k] = console_putchar(h[k - 1], t[k])
      BY <1>1, <3>1 DEF Prints
    <3> QED
      BY <1>2, <1>4, <3>1, <3>2
  <2>2. CASE Fed(k - 1)
    <3>1. k - 1 \in 1 .. Len(t) /\ k - 1 # Len(t) /\ (k - 1) + 1 = k
      BY <2>2
    <3>2. t[k] = NEWLINE
      BY <2>2, <3>1 DEF Sparing
    <3>3. h[k] = [cells |-> h[k - 1].cells, cursor |-> Width]
      BY <2>1, <2>2, <3>2, NewlineAtStart
    <3>4. SameBanner(s, h[k]) /\ h[k].cursor = Width
      BY <2>1, <3>3 DEF SameBanner
    <3>5. ~ Fed(k) /\ t[k] \notin Printable
      BY <3>2, Apart
    <3>6. h[k].cursor >= Width
      BY <3>4, Dimensions
    <3> QED
      BY <3>4, <3>5, <3>6
  <2>3. CASE ~ Fed(k - 1)
    <3>1. h[k - 1].cursor >= Width
      BY <2>1, <2>3
    <3>2. t[k] = BACKSPACE => h[k - 1].cursor > Width
      <4>1. t[k] = BACKSPACE => k > 1 /\ t[k - 1] \in Printable
        BY DEF Sparing
      <4>2. k > 1 => k - 1 > 0
        OBVIOUS
      <4> QED
        BY <2>1, <4>1, <4>2
    <3>3. /\ SameBanner(h[k - 1], h[k])
          /\ t[k] # FORMFEED => h[k].cursor >= Width
          /\ t[k] = FORMFEED => h[k].cursor = 0
          /\ t[k] \in Printable => h[k].cursor > Width
      BY <2>1, <3>1, <3>2, PutcharSpares
    <3>4. SameBanner(s, h[k])
      BY <2>1, <3>3 DEF SameBanner
    <3> QED
      BY <2>1, <3>3, <3>4
  <2> QED
    BY <2>2, <2>3
<1>5. Len(t) \in T
  <2> HIDE DEF T
  <2>1. 0 .. Len(t) \subseteq T
    BY <1>2, <1>3, <1>4, UpTo
  <2> QED
    BY <1>2, <2>1
<1> QED
  BY <1>1, <1>5 DEF Prints
-----------------------------------------------------------------------------
(***************************************************************************)
(* Rows: where the row of a place begins and ends.                         *)
(***************************************************************************)
LEMMA OnePlace ==
    ASSUME NEW q \in Nat, NEW k \in Nat, NEW r \in 0 .. Width - 1, NEW u \in 0 .. Width - 1,
           q * Width + r = k * Width + u
    PROVE  q = k /\ r = u
<1>1. Width \in Nat \ {0}
  BY Dimensions
<1>2. ASSUME NEW a \in Nat, NEW b \in Nat, a < b PROVE a * Width + Width <= b * Width
  <2>1. b - a - 1 \in Nat /\ b = a + 1 + (b - a - 1)
    BY <1>2
  <2>2. b * Width = a * Width + Width + (b - a - 1) * Width
    BY <1>1, <2>1
  <2>3. (b - a - 1) * Width \in Nat /\ a * Width \in Nat
    BY <1>1, <2>1
  <2> QED
    BY <1>1, <2>2, <2>3
<1>3. q * Width \in Nat /\ k * Width \in Nat
  BY <1>1
<1>4. ~ (q < k)
  BY <1>1, <1>2, <1>3
<1>5. ~ (k < q)
  BY <1>1, <1>2, <1>3
<1>6. q = k
  BY <1>4, <1>5
<1> QED
  BY <1>1, <1>3, <1>6

LEMMA PlaceIs ==
    ASSUME NEW q \in Nat, NEW r \in 0 .. Width - 1
    PROVE  (q * Width + r) % Width = r /\ (q * Width + r) \div Width = q
<1> DEFINE c == q * Width + r
<1>1. c \in Nat
  BY Dimensions
<1>2. c = q * Width + r
  OBVIOUS
<1> HIDE DEF c
<1>3. /\ c % Width \in 0 .. Width - 1 /\ c \div Width \in Nat
      /\ c = (c \div Width) * Width + (c % Width)
  BY <1>1, Division
<1>4. c \div Width = q /\ c % Width = r
  BY <1>2, <1>3, OnePlace
<1> QED
  BY <1>4 DEF c

RowStart(c) == c - (c % Width)
RowEnd(c)   == RowStart(c) + Width

LEMMA Rows ==
    ASSUME NEW c \in Nat
    PROVE  /\ c % Width \in 0 .. Width - 1 /\ RowStart(c) \in Nat /\ RowEnd(c) \in Nat
           /\ RowStart(c) = (c \div Width) * Width /\ c \div Width \in Nat
           /\ c = RowStart(c) + (c % Width) /\ RowEnd(c) = RowStart(c) + Width
           /\ RowStart(c) % Width = 0 /\ RowStart(c) \div Width = c \div Width
           /\ RowStart(RowStart(c)) = RowStart(c)
           /\ RowEnd(c) % Width = 0 /\ RowStart(RowEnd(c)) = RowEnd(c)
           /\ c < EndOfScreen => RowEnd(c) <= EndOfScreen
<1> DEFINE q == c \div Width
<1>1. /\ c % Width \in 0 .. Width - 1 /\ q \in Nat /\ q * Width \in Nat
      /\ c = q * Width + (c % Width)
      /\ c < EndOfScreen => c + Width - (c % Width) <= EndOfScreen
  BY Division
<1> HIDE DEF q
<1>2. Width \in Nat /\ 0 \in 0 .. Width - 1 /\ EndOfScreen \in Nat
  BY Dimensions
<1>3. RowStart(c) = q * Width /\ RowEnd(c) = RowStart(c) + Width
  BY <1>1, <1>2 DEF RowStart, RowEnd
<1>4. RowStart(c) % Width = 0 /\ RowStart(c) \div Width = q
  <2>1. q * Width = q * Width + 0
    BY <1>1
  <2> QED
    BY <1>1, <1>2, <1>3, <2>1, PlaceIs
<1>5. RowEnd(c) % Width = 0
  <2>1. q + 1 \in Nat /\ (q + 1) * Width = q * Width + Width /\ (q + 1) * Width = (q + 1) * Width + 0
    BY <1>1, <1>2
  <2>2. RowEnd(c) = (q + 1) * Width + 0
    BY <1>1, <1>2, <1>3, <2>1
  <2> QED
    BY <1>2, <2>1, <2>2, PlaceIs
<1>6. RowStart(RowStart(c)) = RowStart(c) /\ RowStart(RowEnd(c)) = RowEnd(c)
  <2>1. RowStart(c) \in Int /\ RowEnd(c) \in Int
    BY <1>1, <1>2, <1>3
  <2>2. \A x \in Int : x % Width = 0 => RowStart(x) = x
    BY DEF RowStart
  <2> QED
    BY <1>4, <1>5, <2>1, <2>2
<1>7. c < EndOfScreen => RowEnd(c) <= EndOfScreen
  BY <1>1, <1>2, <1>3
<1> QED
  BY <1>1, <1>2, <1>3, <1>4, <1>5, <1>6, <1>7 DEF q

LEMMA Within ==
    ASSUME NEW c \in Nat
    PROVE  RowStart(c) \in Nat /\ RowEnd(c) \in Nat /\ RowStart(c) <= c /\ c < RowEnd(c)
<1> DEFINE r == c % Width
           a == RowStart(c)
<1>1. r \in 0 .. Width - 1 /\ a \in Nat /\ c = a + r /\ RowEnd(c) = a + Width /\ Width \in Nat
  BY Rows, Dimensions
<1> HIDE DEF r, a
<1>2. RowEnd(c) \in Nat /\ a <= c /\ c < RowEnd(c)
  BY <1>1
<1> QED
  BY <1>1, <1>2 DEF a

\* A place n columns further, on the same row.
LEMMA Further ==
    ASSUME NEW c \in Nat, NEW n \in Nat, (c % Width) + n < Width
    PROVE  /\ (c + n) % Width = (c % Width) + n
           /\ RowStart(c + n) = RowStart(c) /\ RowEnd(c + n) = RowEnd(c)
<1> DEFINE q == c \div Width
           r == c % Width
<1>1. q \in Nat /\ r \in 0 .. Width - 1 /\ c = q * Width + r /\ q * Width \in Nat
  BY Division
<1>2. r + n < Width
  OBVIOUS
<1>3. RowStart(c) = q * Width
  BY Rows
<1> HIDE DEF q, r
<1>4. r + n \in 0 .. Width - 1 /\ c + n = q * Width + (r + n)
  BY <1>1, <1>2, Dimensions
<1>5. (c + n) % Width = r + n
  BY <1>1, <1>4, PlaceIs
<1>6. RowStart(c + n) = q * Width
  BY <1>1, <1>4, <1>5, Dimensions DEF RowStart
<1> QED
  BY <1>3, <1>5, <1>6 DEF r, RowEnd

LEMMA NextPlace ==
    ASSUME NEW c \in Nat
    PROVE  RowEnd(c) <= RowEnd(c + 1)
<1>1. /\ c % Width \in 0 .. Width - 1 /\ RowStart(c) \in Nat
      /\ c = RowStart(c) + (c % Width) /\ RowEnd(c) = RowStart(c) + Width
      /\ RowEnd(c) \in Nat /\ Width \in Nat
  BY Rows, Dimensions
<1>2. CASE (c % Width) + 1 < Width
  <2>1. RowEnd(c + 1) = RowEnd(c)
    BY <1>2, Further
  <2> QED
    BY <1>1, <2>1
<1>3. CASE ~ ((c % Width) + 1 < Width)
  <2>1. RowEnd(c) = c + 1
    BY <1>1, <1>3
  <2>2. /\ (c + 1) % Width \in 0 .. Width - 1 /\ RowStart(c + 1) \in Nat
        /\ c + 1 = RowStart(c + 1) + ((c + 1) % Width) /\ RowEnd(c + 1) = RowStart(c + 1) + Width
    BY Rows
  <2> QED
    BY <1>1, <2>1, <2>2
<1> QED
  BY <1>2, <1>3

LEMMA LastRow == LastLine % Width = 0 /\ RowEnd(LastLine) = EndOfScreen
<1>1. Width \in Nat \ {0} /\ Height - 1 \in Nat
  BY ScreenAssumption
<1>2. LastLine = (Height - 1) * Width + 0 /\ 0 \in 0 .. Width - 1
  BY <1>1 DEF LastLine
<1>3. LastLine % Width = 0
  BY <1>1, <1>2, PlaceIs
<1> QED
  BY <1>3, Dimensions DEF RowStart, RowEnd

-----------------------------------------------------------------------------
(***************************************************************************)
(* The rows below the cursor's stay blank as long as no backspace goes up. *)
(***************************************************************************)
LowerBlank(s) == \A i \in Cells : i >= RowEnd(s.cursor) => s.cells[i] = Blank

\* A row that nothing has been printed on, and the cursor at its begin.
Fresh(s) == s.cursor % Width = 0 /\ \A i \in Cells : i >= s.cursor => s.cells[i] = Blank

LEMMA PlaceOf ==
    ASSUME NEW s \in Ready
    PROVE  /\ s.cursor \in Nat /\ s.cursor < EndOfScreen /\ s.cursor \in Cells
           /\ s.cells \in [Cells -> Chars]
           /\ \A i \in Cells : i \in Nat /\ (i >= EndOfScreen => s.cells[i] = Blank)
  BY Dimensions DEF Ready

LEMMA FreshLower ==
    ASSUME NEW s \in Ready, Fresh(s)
    PROVE  LowerBlank(s)
<1>1. s.cursor \in Nat /\ RowEnd(s.cursor) \in Nat /\ RowEnd(s.cursor) >= s.cursor
  <2>1. s.cursor \in Nat
    BY PlaceOf
  <2> QED
    BY <2>1, Within
<1>2. \A i \in Cells : i \in Nat
  BY PlaceOf
<1> QED
  BY <1>1, <1>2 DEF LowerBlank, Fresh

LEMMA PutLower ==
    ASSUME NEW s \in Ready, LowerBlank(s), NEW c \in Chars
    PROVE  LowerBlank(Put(s, c))
<1> DEFINE u == Put(s, c)
<1>1. u \in Ready
  BY PutReady
<1>2. /\ s.cursor \in Nat /\ s.cursor < EndOfScreen /\ EndOfScreen \in Nat
      /\ \A i \in Cells : i \in Nat /\ (i >= EndOfScreen => u.cells[i] = Blank)
  BY <1>1, PlaceOf, Dimensions
<1>3. CASE s.cursor + 1 < EndOfScreen
  <2>1. u.cursor = s.cursor + 1 /\ \A i \in Cells : u.cells[i] = IF i = s.cursor THEN c ELSE s.cells[i]
    BY <1>3, PutIs
  <2>2. /\ RowEnd(s.cursor) <= RowEnd(s.cursor + 1) /\ s.cursor < RowEnd(s.cursor)
        /\ RowEnd(s.cursor) \in Nat /\ RowEnd(s.cursor + 1) \in Nat
    <3>1. s.cursor \in Nat /\ s.cursor + 1 \in Nat
      BY <1>2
    <3> QED
      BY <3>1, NextPlace, Within
  <2>3. ASSUME NEW i \in Cells, i >= RowEnd(u.cursor) PROVE u.cells[i] = Blank
    <3>1. i >= RowEnd(s.cursor) /\ i # s.cursor
      BY <1>2, <2>1, <2>2, <2>3
    <3> QED
      BY <2>1, <3>1 DEF LowerBlank
  <2> HIDE DEF u
  <2> QED
    BY <2>3 DEF LowerBlank, u
<1>4. CASE ~ (s.cursor + 1 < EndOfScreen)
  <2>1. u.cursor = LastLine
    BY <1>2, <1>4, PutIs
  <2> HIDE DEF u
  <2> QED
    BY <1>2, <2>1, LastRow DEF LowerBlank, u
<1> QED
  BY <1>3, <1>4

LEMMA TabLower ==
    ASSUME NEW s \in Ready, LowerBlank(s)
    PROVE  LowerBlank(Tabbed(s))
<1>1. PICK n \in 1 .. TabStop, h \in [0 .. TabStop -> Ready] :
          h[0] = s /\ h[n] = Tabbed(s) /\ \A k \in 1 .. n : h[k] = Put(h[k - 1], Space)
  BY TabSteps
<1> DEFINE T == {k \in 0 .. n : LowerBlank(h[k])}
<1>2. n \in Nat /\ n <= TabStop /\ TabStop \in Nat
  BY DEF TabStop
<1>3. 0 \in T
  BY <1>1, <1>2
<1>4. ASSUME NEW k \in 1 .. n, k - 1 \in T PROVE k \in T
  <2>1. k - 1 \in 0 .. TabStop /\ h[k - 1] \in Ready
    BY <1>1, <1>2
  <2>2. Space \in Chars
    BY ScreenAssumption DEF Chars
  <2>3. LowerBlank(Put(h[k - 1], Space))
    BY <1>4, <2>1, <2>2, PutLower
  <2> QED
    BY <1>1, <2>3
<1>5. n \in T
  <2> HIDE DEF T
  <2>1. 0 .. n \subseteq T
    BY <1>2, <1>3, <1>4, UpTo
  <2> QED
    BY <1>2, <2>1
<1> QED
  BY <1>1, <1>5

\* A newline begins a row that is blank.
LEMMA NewlineFresh ==
    ASSUME NEW s \in Ready, LowerBlank(s)
    PROVE  Fresh(console_putchar(s, NEWLINE))
<1> DEFINE next == (s.cursor + Width) - (s.cursor % Width)
           u == console_putchar(s, NEWLINE)
<1>1. /\ next \in Width .. EndOfScreen
      /\ next < EndOfScreen => u = [cells |-> s.cells, cursor |-> next]
      /\ next = EndOfScreen => u = [cells |-> Shifted(s.cells), cursor |-> LastLine]
  BY NewlineIs
<1>2. /\ s.cursor \in Nat /\ s.cells \in [Cells -> Chars]
      /\ \A i \in Cells : i \in Nat /\ (i >= EndOfScreen => s.cells[i] = Blank)
  BY PlaceOf
<1>3. next = RowEnd(s.cursor) /\ RowEnd(s.cursor) % Width = 0
  <2> DEFINE r == s.cursor % Width
  <2>1. r \in 0 .. Width - 1 /\ RowEnd(s.cursor) % Width = 0 /\ Width \in Nat
    BY <1>2, Rows, Dimensions
  <2>2. next = (s.cursor + Width) - r /\ RowEnd(s.cursor) = (s.cursor - r) + Width
    BY DEF RowStart, RowEnd
  <2> HIDE DEF r
  <2> QED
    BY <1>2, <2>1, <2>2
<1> HIDE DEF next, u
<1>4. CASE next < EndOfScreen
  BY <1>1, <1>3, <1>4 DEF Fresh, LowerBlank, u
<1>5. CASE next = EndOfScreen
  <2>1. \A i \in Cells : i > EndOfScreen => s.cells[i] = Blank
    BY <1>2, Dimensions
  <2>2. EndOfScreen \in Cells /\ s.cells[EndOfScreen] = Blank
    BY <1>2, Dimensions
  <2>3. /\ \A i \in Cells : i > EndOfScreen => Shifted(s.cells)[i] = Blank
        /\ Shifted(s.cells)[EndOfScreen] = Blank
        /\ \A i \in LastLine .. EndOfScreen - 1 : Shifted(s.cells)[i] = Blank
    BY <1>2, <2>1, <2>2, ShiftedCells
  <2>4. ASSUME NEW i \in Cells, i >= LastLine PROVE Shifted(s.cells)[i] = Blank
    <3>1. i \in LastLine .. EndOfScreen - 1 \/ i = EndOfScreen \/ i > EndOfScreen
      BY <2>4, Dimensions
    <3> QED
      BY <2>3, <3>1
  <2>5. u.cells = Shifted(s.cells) /\ u.cursor = LastLine
    BY <1>1, <1>5
  <2> QED
    BY <2>4, <2>5, LastRow DEF Fresh, u
<1> QED
  BY <1>1, <1>4, <1>5, Dimensions

Forward == Printable \cup (Controls \ {BACKSPACE})

LEMMA PutcharLower ==
    ASSUME NEW s \in Ready, LowerBlank(s), NEW c \in Forward
    PROVE  LowerBlank(console_putchar(s, c))
<1>1. s.cursor \in Nat /\ \A i \in Cells : i \in Nat
  BY PlaceOf
<1>2. CASE c \in Printable
  BY <1>2, PutLower, PutcharIs DEF Chars
<1>3. CASE c = NEWLINE
  <2>1. console_putchar(s, NEWLINE) \in Ready
    BY PutcharReady, Apart
  <2> QED
    BY <1>3, <2>1, NewlineFresh, FreshLower
<1>4. CASE c = TAB
  BY <1>4, TabLower, PutcharIs
<1>5. CASE c = RETURN
  <2>1. console_putchar(s, RETURN) = [cells |-> s.cells, cursor |-> RowStart(s.cursor)]
    BY <1>1, ReturnIs, Rows
  <2>2. RowEnd(RowStart(s.cursor)) = RowEnd(s.cursor)
    BY <1>1, Rows DEF RowEnd
  <2> QED
    BY <1>5, <2>1, <2>2 DEF LowerBlank
<1>6. CASE c = FORMFEED
  <2>1. console_putchar(s, FORMFEED) = Cleared(s)
    BY PutcharIs
  <2>2. RowEnd(0) = Width
    <3>1. 0 % Width = 0
      BY Dimensions
    <3> QED
      BY <3>1, Dimensions DEF RowStart, RowEnd
  <2>3. \A i \in Cells : i >= EndOfScreen => s.cells[i] = Blank
    BY PlaceOf
  <2>4. ASSUME NEW i \in Cells, i >= Width PROVE Cleared(s).cells[i] = Blank
    <3>1. i \in Width .. EndOfScreen - 1 \/ i >= EndOfScreen
      BY <2>4, Dimensions
    <3> QED
      BY <2>3, <3>1 DEF Cleared
  <2>5. Cleared(s).cursor = 0
    BY DEF Cleared
  <2> HIDE DEF Cleared
  <2> QED
    BY <1>6, <2>1, <2>2, <2>4, <2>5 DEF LowerBlank
<1> QED
  BY <1>2, <1>3, <1>4, <1>5, <1>6, Apart DEF Forward

LEMMA PrintLower ==
    ASSUME NEW s \in Ready, LowerBlank(s), NEW t \in Seq(Forward)
    PROVE  LowerBlank(console_putbytes(s, t))
<1>1. t \in Strings /\ Len(t) \in Nat /\ \A k \in 1 .. Len(t) : t[k] \in Forward
  BY DEF Strings, Forward
<1>2. PICK h \in [0 .. Len(t) -> Ready] : Prints(h, s, t)
  BY <1>1, PrintSteps
<1> DEFINE T == {k \in 0 .. Len(t) : LowerBlank(h[k])}
<1>3. 0 \in T
  BY <1>1, <1>2 DEF Prints
<1>4. ASSUME NEW k \in 1 .. Len(t), k - 1 \in T PROVE k \in T
  <2>1. h[k - 1] \in Ready /\ LowerBlank(h[k - 1])
    BY <1>4
  <2>2. LowerBlank(console_putchar(h[k - 1], t[k]))
    BY <1>1, <2>1, PutcharLower
  <2> QED
    BY <1>2, <2>2 DEF Prints
<1>5. Len(t) \in T
  <2> HIDE DEF T
  <2>1. 0 .. Len(t) \subseteq T
    BY <1>1, <1>3, <1>4, UpTo
  <2> QED
    BY <1>1, <2>1
<1> QED
  BY <1>2, <1>5 DEF Prints
-----------------------------------------------------------------------------
(***************************************************************************)
(* Texts put together, and a text that stays on the row of its begin.      *)
(***************************************************************************)
LEMMA Joined ==
    ASSUME NEW S, NEW a \in Seq(S), NEW b \in Seq(S)
    PROVE  /\ a \o b \in Seq(S) /\ Len(a) \in Nat /\ Len(b) \in Nat /\ Len(a \o b) = Len(a) + Len(b)
           /\ \A k \in 1 .. Len(a) : (a \o b)[k] = a[k]
           /\ \A k \in 1 .. Len(b) : (a \o b)[Len(a) + k] = b[k]
<1>1. Len(a) \in Nat /\ Len(b) \in Nat /\ a \o b \in Seq(S) /\ Len(a \o b) = Len(a) + Len(b)
  OBVIOUS
<1>2. \A k \in 1 .. Len(a) : (a \o b)[k] = a[k]
  OBVIOUS
<1>3. \A k \in 1 .. Len(b) : (a \o b)[Len(a) + k] = b[k]
  OBVIOUS
<1> QED
  BY <1>1, <1>2, <1>3

\* Screens, each of which is the one before with the next character of t.
Goes(h, t, n) == \A k \in 1 .. n : h[k] = console_putchar(h[k - 1], t[k])

LEMMA SamePrints ==
    ASSUME NEW n \in Nat, NEW h, NEW g, NEW t, h[0] = g[0], Goes(h, t, n), Goes(g, t, n)
    PROVE  h[n] = g[n]
<1> DEFINE T == {k \in 0 .. n : h[k] = g[k]}
<1>1. 0 \in T
  OBVIOUS
<1>2. ASSUME NEW k \in 1 .. n, k - 1 \in T PROVE k \in T
  <2>1. h[k - 1] = g[k - 1]
    BY <1>2
  <2>2. h[k] = console_putchar(h[k - 1], t[k]) /\ g[k] = console_putchar(g[k - 1], t[k])
    BY DEF Goes
  <2>3. h[k] = g[k]
    BY <2>1, <2>2
  <2> QED
    BY <2>3
<1>3. n \in T
  <2> HIDE DEF T
  <2>1. 0 .. n \subseteq T
    BY <1>1, <1>2, UpTo
  <2> QED
    BY <2>1
<1> QED
  BY <1>3

\* A text is printed in parts.
LEMMA PrintJoined ==
    ASSUME NEW s \in Ready, NEW a \in Strings, NEW b \in Strings
    PROVE  console_putbytes(s, a \o b) = console_putbytes(console_putbytes(s, a), b)
<1> DEFINE t == a \o b
           u == console_putbytes(s, a)
           m == Len(a)
           n == Len(b)
<1>1. /\ t \in Strings /\ m \in Nat /\ n \in Nat /\ Len(t) = m + n
      /\ \A k \in 1 .. m : t[k] = a[k]
      /\ \A k \in 1 .. n : t[m + k] = b[k]
  BY Joined DEF Strings
<1>2. u \in Ready
  BY PrintReady
<1> HIDE DEF u, t
<1>3. PICK h \in [0 .. Len(t) -> Ready] : Prints(h, s, t)
  BY <1>1, PrintSteps
<1>4. PICK g \in [0 .. Len(a) -> Ready] : Prints(g, s, a)
  BY PrintSteps
<1>5. PICK f \in [0 .. Len(b) -> Ready] : Prints(f, u, b)
  BY <1>2, PrintSteps
<1> HIDE DEF m, n
<1>6. h[m] = g[m]
  <2>1. \A k \in 1 .. m : k \in 1 .. Len(t)
    BY <1>1
  <2>2. Goes(h, a, m)
    BY <1>1, <1>3, <2>1 DEF Prints, Goes
  <2>3. h[0] = g[0] /\ Goes(g, a, m)
    BY <1>3, <1>4 DEF Prints, Goes, m
  <2> QED
    BY <1>1, <2>2, <2>3, SamePrints
<1>7. h[m] = u
  BY <1>4, <1>6 DEF Prints, m, u
<1> DEFINE e == [k \in 0 .. n |-> h[m + k]]
<1>8. e[0] = u /\ e[n] = h[m + n]
  BY <1>1, <1>7
<1>9. Goes(e, b, n)
  <2>1. ASSUME NEW k \in 1 .. n PROVE e[k] = console_putchar(e[k - 1], b[k])
    <3>1. m + k \in 1 .. Len(t) /\ (m + k) - 1 = m + (k - 1) /\ k - 1 \in 0 .. n /\ k \in 0 .. n
      BY <1>1
    <3>2. h[m + k] = console_putchar(h[(m + k) - 1], t[m + k])
      BY <1>3, <3>1 DEF Prints
    <3>3. t[m + k] = b[k]
      BY <1>1
    <3> QED
      BY <3>1, <3>2, <3>3
  <2> HIDE DEF e
  <2> QED
    BY <2>1 DEF Goes
<1> HIDE DEF e
<1>10. f[0] = u /\ Goes(f, b, n)
  BY <1>5 DEF Prints, Goes, n
<1>11. e[0] = f[0]
  BY <1>8, <1>10
<1>12. e[n] = f[n]
  BY <1>1, <1>9, <1>10, <1>11, SamePrints
<1>13. f[n] = console_putbytes(u, b) /\ h[Len(t)] = console_putbytes(s, t)
  BY <1>3, <1>5 DEF Prints, n
<1> QED
  BY <1>1, <1>8, <1>12, <1>13 DEF t, u

LEMMA PrintOne ==
    ASSUME NEW s \in Ready, NEW c \in Printable \cup Controls
    PROVE  console_putbytes(s, <<c>>) = console_putchar(s, c)
<1>1. <<c>> \in Strings /\ Len(<<c>>) = 1 /\ <<c>>[1] = c
  BY DEF Strings
<1>2. PICK h \in [0 .. Len(<<c>>) -> Ready] : Prints(h, s, <<c>>)
  BY <1>1, PrintSteps
<1> DEFINE t == <<c>>
<1> HIDE DEF t
<1>3. Len(t) = 1 /\ t[1] = c /\ Prints(h, s, t)
  BY <1>1, <1>2 DEF t
<1>4. h[0] = s /\ h[1] = console_putbytes(s, t) /\ h[1] = console_putchar(h[1 - 1], t[1])
  BY <1>3 DEF Prints
<1>5. 1 - 1 = 0
  OBVIOUS
<1> QED
  BY <1>3, <1>4, <1>5 DEF t

\* What t leaves on the cells from the place p on.
Written(u, s, p, t) ==
    \A i \in Cells : u.cells[i] = IF i \in p .. p + Len(t) - 1 THEN t[i - p + 1] ELSE s.cells[i]

LEMMA RowPrinted ==
    ASSUME NEW s \in Ready, NEW t \in Seq(Printable), (s.cursor % Width) + Len(t) < Width
    PROVE  LET u == console_putbytes(s, t)
           IN  /\ u.cursor = s.cursor + Len(t)
               /\ u.cursor % Width = (s.cursor % Width) + Len(t)
               /\ RowStart(u.cursor) = RowStart(s.cursor)
               /\ Written(u, s, s.cursor, t)
<1> DEFINE p == s.cursor
           n == Len(t)
<1>1. t \in Strings /\ n \in Nat /\ \A k \in 1 .. n : t[k] \in Printable
  BY DEF Strings
<1>2. PICK h \in [0 .. Len(t) -> Ready] : Prints(h, s, t)
  BY <1>1, PrintSteps
<1>3. p \in Nat /\ p < EndOfScreen
  BY PlaceOf
<1>4. (p % Width) + n < Width
  OBVIOUS
<1>5. p + n < EndOfScreen
  <2>1. /\ p % Width \in 0 .. Width - 1 /\ RowStart(p) \in Nat /\ p = RowStart(p) + (p % Width)
        /\ RowEnd(p) = RowStart(p) + Width /\ RowEnd(p) <= EndOfScreen
    BY <1>3, Rows
  <2> DEFINE r == p % Width
             a == RowStart(p)
  <2>2. /\ r \in Nat /\ a \in Nat /\ p = a + r /\ a + Width <= EndOfScreen /\ r + n < Width
        /\ n \in Nat /\ Width \in Nat /\ EndOfScreen \in Nat
    BY <1>1, <1>4, <2>1, Dimensions
  <2> HIDE DEF p, n, r, a
  <2> QED
    BY <2>2
<1> DEFINE T == {k \in 0 .. n : /\ h[k].cursor = p + k
                                /\ \A i \in Cells : h[k].cells[i]
                                       = IF i \in p .. p + k - 1 THEN t[i - p + 1] ELSE s.cells[i]}
<1>6. 0 \in T
  <2>1. h[0] = s
    BY <1>2 DEF Prints
  <2>2. \A i \in Cells : ~ (i \in p .. p + 0 - 1)
    BY <1>3
  <2> QED
    BY <1>1, <1>3, <2>1, <2>2
<1>7. ASSUME NEW k \in 1 .. n, k - 1 \in T PROVE k \in T
  <2> DEFINE v == h[k - 1]
             w == h[k]
  <2>1. /\ v \in Ready /\ v.cursor = p + (k - 1)
        /\ \A i \in Cells : v.cells[i] = IF i \in p .. p + (k - 1) - 1 THEN t[i - p + 1] ELSE s.cells[i]
    BY <1>7
  <2>2. w = console_putchar(v, t[k]) /\ t[k] \in Printable
    BY <1>1, <1>2 DEF Prints
  <2> HIDE DEF v, w
  <2>3. w = Put(v, t[k]) /\ t[k] \in Chars
    BY <2>2, PutcharIs DEF Chars
  <2> HIDE DEF p, n
  <2>4. k \in Nat /\ k <= n /\ k >= 1
    BY <1>1
  <2>5. v.cursor + 1 < EndOfScreen /\ v.cursor + 1 = p + k
    BY <1>1, <1>3, <1>5, <2>1, <2>4, Dimensions
  <2>6. w.cursor = v.cursor + 1 /\ \A i \in Cells : w.cells[i] = IF i = v.cursor THEN t[k] ELSE v.cells[i]
    BY <2>1, <2>3, <2>5, PutIs
  <2>7. w.cursor = p + k
    BY <2>5, <2>6
  <2>8. ASSUME NEW i \in Cells
        PROVE  w.cells[i] = IF i \in p .. p + k - 1 THEN t[i - p + 1] ELSE s.cells[i]
    <3>1. i \in Nat
      BY PlaceOf
    <3>2. CASE i = v.cursor
      <4>1. i \in p .. p + k - 1 /\ i - p + 1 = k
        BY <1>3, <2>1, <2>4, <3>2
      <4> QED
        BY <2>6, <3>2, <4>1
    <3>3. CASE i # v.cursor
      <4>1. i \in p .. p + k - 1 <=> i \in p .. p + (k - 1) - 1
        BY <1>3, <2>1, <2>4, <3>1, <3>3
      <4> QED
        BY <2>1, <2>6, <3>3, <4>1
    <3> QED
      BY <3>2, <3>3
  <2>9. k \in 0 .. n
    BY <1>1
  <2> QED
    BY <2>7, <2>8, <2>9 DEF w
<1>8. n \in T
  <2> HIDE DEF T
  <2>1. 0 .. n \subseteq T
    BY <1>1, <1>6, <1>7, UpTo
  <2> QED
    BY <1>1, <2>1
<1>9. h[n] = console_putbytes(s, t)
  BY <1>2 DEF Prints
<1>10. (p + n) % Width = (p % Width) + n /\ RowStart(p + n) = RowStart(p)
  BY <1>1, <1>3, <1>4, Further
<1> HIDE DEF n, p
<1> QED
  BY <1>8, <1>9, <1>10 DEF Written, n, p
=============================================================================
