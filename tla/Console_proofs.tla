---------------------------- MODULE Console_proofs --------------------------
(***************************************************************************)
(* Theorems about Console, for every size of the screen, all texts and any *)
(* number of calls: what the timer draws between two steps of a call       *)
(* disturbs neither the call nor the cursor.                               *)
(***************************************************************************)
EXTENDS Console, Screen_proofs

-----------------------------------------------------------------------------
(***************************************************************************)
(* The banner: on any screen, whatever the cursor, it touches the first    *)
(* line only.                                                              *)
(***************************************************************************)
AnyScreen == [cells : [Cells -> Chars], cursor : 0 .. EndOfScreen]

\* The same below the first line, and behind the screen.
SameBelow(s, u) == \A i \in Cells : i >= Width => u.cells[i] = s.cells[i]

LEMMA PutAtBelow ==
    ASSUME NEW s \in AnyScreen, NEW x \in 0 .. Width - 1, NEW c \in Printable
    PROVE  PutAt(s, x, c) \in AnyScreen /\ SameBelow(s, PutAt(s, x, c))
<1>1. s.cells \in [Cells -> Chars] /\ x \in Cells /\ c \in Chars
  BY Dimensions DEF AnyScreen, Chars
<1>2. Position(x, 0) = x
  BY Dimensions DEF Position
<1>3. MoveTo(s, x, 0) = [cells |-> s.cells, cursor |-> x]
  BY <1>2 DEF MoveTo, AnyScreen
<1> DEFINE cells == [s.cells EXCEPT ![x] = c]
<1>4. cells \in [Cells -> Chars] /\ \A i \in Cells : i >= Width => cells[i] = s.cells[i]
  <2>1. \A i \in Cells : i >= Width => i # x
    BY Dimensions
  <2> QED
    BY <1>1, <2>1
<1>5. PutAt(s, x, c) = Scrolled([cells |-> cells, cursor |-> x + 1])
  <2> DEFINE u == [cells |-> s.cells, cursor |-> x]
  <2>1. u.cells = s.cells /\ u.cursor = x
    OBVIOUS
  <2>2. console_putchar(u, c) = Put(u, c)
    BY PutcharIs
  <2> HIDE DEF u
  <2>3. Put(u, c) = Scrolled([cells |-> cells, cursor |-> x + 1])
    BY <2>1 DEF Put
  <2> QED
    BY <1>3, <2>2, <2>3 DEF PutAt, u
<1> HIDE DEF cells
<1>6. PutAt(s, x, c) = [cells |-> cells, cursor |-> x + 1]
  <2>1. ~ (x + 1 >= EndOfScreen) /\ x + 1 \in Int
    BY Dimensions
  <2> QED
    BY <1>5, <2>1, ScrolledIs
<1>7. x + 1 \in 0 .. EndOfScreen
  BY Dimensions
<1> HIDE DEF PutAt
<1> QED
  BY <1>4, <1>6, <1>7 DEF AnyScreen, SameBelow

Blended == Seq(Printable)

\* The text of the banner stays on the first line.
LEMMA TextAtBelow ==
    ASSUME NEW s \in AnyScreen, NEW x \in Nat, NEW t \in Blended, x + Len(t) <= Width
    PROVE  TextAt(s, x, t) \in AnyScreen /\ SameBelow(s, TextAt(s, x, t))
<1> DEFINE n == Len(t)
           items == [i \in 1 .. n |-> i]
           F == [k \in 1 .. n |-> [u \in AnyScreen |-> PutAt(u, x + k - 1, t[k])]]
           Solution(iter) == iter = [d \in SUBSET DOMAIN items |->
               IF d = {} THEN s
               ELSE PutAt(iter[d \ {Max(d)}], x + items[Max(d)] - 1, t[items[Max(d)]])]
<1>1. n \in Nat /\ DOMAIN items = 1 .. n /\ \A k \in 1 .. n : t[k] \in Printable /\ items[k] = k
  BY DEF Blended
<1> HIDE DEF PutAt
<1>2. TextAt(s, x, t) = (CHOOSE iter : Solution(iter))[DOMAIN items]
  BY DEF TextAt, FoldLeft, MapThenFoldSet
<1>3. \A k \in 1 .. n : x + k - 1 \in 0 .. Width - 1
  BY <1>1, Dimensions
<1> HIDE DEF n, items
<1>4. F \in [1 .. n -> [AnyScreen -> AnyScreen]]
  BY <1>1, <1>3, PutAtBelow
<1>5. \A d : Max(d) = Highest(d)
  BY DEF Max, Highest
<1>6. PICK first \in [SUBSET (1 .. n) -> AnyScreen] : Folds(first, s, F, n, AnyScreen)
  <2>1. n \in Nat
    BY <1>1
  <2> HIDE DEF F
  <2> QED
    BY <1>4, <2>1, FoldExists
<1>7. \A d \in SUBSET (1 .. n) : d # {} => Highest(d) \in 1 .. n /\ d \ {Highest(d)} \in SUBSET (1 .. n)
  BY <1>1, HighestProperty
<1>8. \A i \in 1 .. n : \A u \in AnyScreen : F[i][u] = PutAt(u, x + i - 1, t[i])
  OBVIOUS
<1> HIDE DEF F
<1>9. Solution(first)
  <2>1. ASSUME NEW d \in SUBSET (1 .. n), d # {}
        PROVE  first[d] = PutAt(first[d \ {Highest(d)}], x + items[Highest(d)] - 1, t[items[Highest(d)]])
    <3>1. Highest(d) \in 1 .. n /\ items[Highest(d)] = Highest(d) /\ first[d \ {Highest(d)}] \in AnyScreen
      BY <1>1, <1>6, <1>7, <2>1
    <3>2. first[d] = F[Highest(d)][first[d \ {Highest(d)}]]
      BY <1>6, <2>1, <3>1 DEF Folds
    <3> QED
      BY <1>8, <3>1, <3>2
  <2>2. first[{}] = s
    BY <1>6 DEF Folds
  <2>3. DOMAIN first = SUBSET DOMAIN items
    BY <1>1, <1>6
  <2>4. first = [d \in SUBSET DOMAIN items |-> first[d]]
    BY <1>6, <2>3
  <2>5. \A d \in SUBSET DOMAIN items : first[d] =
           IF d = {} THEN s ELSE PutAt(first[d \ {Max(d)}], x + items[Max(d)] - 1, t[items[Max(d)]])
    BY <1>1, <1>5, <2>1, <2>2
  <2> QED
    BY <2>4, <2>5
<1>10. PICK iter : iter = (CHOOSE f : Solution(f))
  OBVIOUS
<1>11. Solution(iter)
  <2> HIDE DEF Solution
  <2> QED
    BY <1>9, <1>10
<1>12. Folds(iter, s, F, n, AnyScreen)
  <2>1. iter[{}] = s
    BY <1>11
  <2>2. ASSUME NEW d \in SUBSET (1 .. n), d # {}, iter[d \ {Highest(d)}] \in AnyScreen
        PROVE  iter[d] = F[Highest(d)][iter[d \ {Highest(d)}]]
    <3>1. iter[d] = PutAt(iter[d \ {Max(d)}], x + items[Max(d)] - 1, t[items[Max(d)]])
      BY <1>1, <1>11, <2>2
    <3>2. Highest(d) \in 1 .. n /\ items[Highest(d)] = Highest(d) /\ Max(d) = Highest(d)
      BY <1>1, <1>5, <1>7, <2>2
    <3> QED
      BY <1>8, <2>2, <3>1, <3>2
  <2> QED
    BY <2>1, <2>2 DEF Folds
<1>13. PICK h \in [0 .. n -> AnyScreen] : Follows(h, s, F, n) /\ h[n] = iter[1 .. n]
  <2>1. n \in Nat
    BY <1>1
  <2>2. s \in AnyScreen /\ F \in [1 .. n -> [AnyScreen -> AnyScreen]]
    BY <1>4
  <2> HIDE DEF AnyScreen, Solution
  <2>3. \E h \in [0 .. n -> AnyScreen] : Follows(h, s, F, n) /\ h[n] = iter[1 .. n]
    BY <1>12, <2>1, <2>2, FoldSteps
  <2> QED
    BY <2>3
<1> DEFINE T == {k \in 0 .. n : SameBelow(s, h[k])}
<1>14. 0 \in T
  BY <1>1, <1>13 DEF Follows, SameBelow
<1>15. ASSUME NEW k \in 1 .. n, k - 1 \in T PROVE k \in T
  <2>1. k - 1 \in 0 .. n /\ k \in 0 .. n /\ h[k - 1] \in AnyScreen
    BY <1>1, <1>13
  <2>2. h[k] = PutAt(h[k - 1], x + k - 1, t[k])
    BY <1>8, <1>13, <2>1 DEF Follows
  <2>3. SameBelow(h[k - 1], h[k])
    BY <1>1, <1>3, <2>1, <2>2, PutAtBelow
  <2> QED
    BY <1>15, <2>1, <2>3 DEF SameBelow
<1>16. n \in T
  <2> HIDE DEF T
  <2>1. 0 .. n \subseteq T
    BY <1>1, <1>14, <1>15, UpTo
  <2> QED
    BY <1>1, <2>1
<1>17. TextAt(s, x, t) = h[n] /\ h[n] \in AnyScreen
  BY <1>1, <1>2, <1>10, <1>13
<1> QED
  BY <1>16, <1>17

LEMMA SpacesBlended ==
    ASSUME NEW n \in Nat PROVE Spaces(n) \in Blended /\ Len(Spaces(n)) = n
<1>1. Spaces(n) \in [1 .. n -> Printable]
  BY ScreenAssumption DEF Spaces
<1> QED
  BY <1>1 DEF Blended

LEMMA BelowTransitive ==
    ASSUME NEW s, NEW u, NEW v, SameBelow(s, u), SameBelow(u, v)
    PROVE  SameBelow(s, v)
  BY DEF SameBelow

\* The banner gives the cursor back.
LEMMA BannerBelow ==
    ASSUME NEW s \in AnyScreen, NEW left \in BOOLEAN, NEW right \in BOOLEAN
    PROVE  LET u == display_banner(s, left, right)
           IN  /\ u \in AnyScreen /\ SameBelow(s, u) /\ u.cursor = s.cursor
               /\ u = [cells |-> u.cells, cursor |-> s.cursor]
<1> DEFINE half == Width \div 2
<1>1. /\ half \in Nat /\ Width - half \in Nat /\ half + (Width - half) <= Width /\ half <= Width
      /\ LeftZone \in Nat /\ RightColumn \in Nat /\ RightZone \in Nat
      /\ LeftText \in Blended /\ RightText \in Blended
      /\ Len(LeftText) \in Nat /\ Len(RightText) \in Nat
      /\ Len(LeftText) <= LeftZone /\ LeftZone <= half
      /\ Len(RightText) <= RightZone /\ RightColumn + RightZone <= Width
  BY ConsoleAssumption, ScreenAssumption DEF Blended
<1> HIDE DEF half
<1>2. 0 + half <= Width /\ 0 + LeftZone <= Width /\ 0 + Len(LeftText) <= Width /\ 0 \in Nat
      /\ RightColumn + Len(RightText) <= Width
  BY <1>1, Dimensions
<1>3. ASSUME NEW u \in AnyScreen PROVE BannerLeft(u) \in AnyScreen /\ SameBelow(u, BannerLeft(u))
  <2> DEFINE a == TextAt(u, 0, Spaces(half))
             b == TextAt(a, 0, Spaces(LeftZone))
             c == TextAt(b, 0, LeftText)
  <2>1. a \in AnyScreen /\ SameBelow(u, a)
    BY <1>1, <1>2, SpacesBlended, TextAtBelow
  <2> HIDE DEF a
  <2>2. b \in AnyScreen /\ SameBelow(a, b)
    BY <1>1, <1>2, <2>1, SpacesBlended, TextAtBelow
  <2> HIDE DEF b
  <2>3. c \in AnyScreen /\ SameBelow(b, c)
    BY <1>1, <1>2, <2>2, TextAtBelow
  <2>4. BannerLeft(u) = c
    BY DEF BannerLeft, a, b, half
  <2> HIDE DEF c
  <2> QED
    BY <2>1, <2>2, <2>3, <2>4, BelowTransitive
<1>4. ASSUME NEW u \in AnyScreen PROVE BannerRight(u) \in AnyScreen /\ SameBelow(u, BannerRight(u))
  <2> DEFINE a == TextAt(u, half, Spaces(Width - half))
             b == TextAt(a, RightColumn, Spaces(RightZone))
             c == TextAt(b, RightColumn, RightText)
  <2>1. a \in AnyScreen /\ SameBelow(u, a)
    BY <1>1, SpacesBlended, TextAtBelow
  <2> HIDE DEF a
  <2>2. b \in AnyScreen /\ SameBelow(a, b)
    BY <1>1, <2>1, SpacesBlended, TextAtBelow
  <2> HIDE DEF b
  <2>3. c \in AnyScreen /\ SameBelow(b, c)
    BY <1>1, <1>2, <2>2, TextAtBelow
  <2>4. BannerRight(u) = c
    BY DEF BannerRight, a, b, half
  <2> HIDE DEF c
  <2> QED
    BY <2>1, <2>2, <2>3, <2>4, BelowTransitive
<1> DEFINE l == IF left THEN BannerLeft(s) ELSE s
           r == IF right THEN BannerRight(l) ELSE l
<1>5. l \in AnyScreen /\ SameBelow(s, l)
  BY <1>3 DEF SameBelow
<1> HIDE DEF l
<1>6. r \in AnyScreen /\ SameBelow(s, r)
  BY <1>4, <1>5, BelowTransitive
<1>7. display_banner(s, left, right) = MoveTo(r, Column(s), Row(s))
  BY DEF display_banner, l
<1> HIDE DEF r
<1>8. s.cursor \in 0 .. EndOfScreen /\ s.cursor \in Nat
  BY Dimensions DEF AnyScreen
<1>9. Position(Column(s), Row(s)) = s.cursor
  BY <1>8, Division DEF Position, Column, Row
<1>10. display_banner(s, left, right) = [cells |-> r.cells, cursor |-> s.cursor]
  BY <1>6, <1>7, <1>9 DEF MoveTo, AnyScreen
<1>11. r.cells \in [Cells -> Chars] /\ \A i \in Cells : i >= Width => r.cells[i] = s.cells[i]
  BY <1>6 DEF AnyScreen, SameBelow
<1> HIDE DEF display_banner
<1> QED
  BY <1>8, <1>10, <1>11 DEF AnyScreen, SameBelow

-----------------------------------------------------------------------------
(***************************************************************************)
(* The calls, a step at a time.                                            *)
(***************************************************************************)
Moving    == {"move", "index_high", "data_high", "index_low", "data_low"}
Rewinding == {"shift", "rewind_load", "rewind_store"}
Steps     == {"idle", "load", "store", "check"} \cup Moving \cup Rewinding

TypeOK ==
    /\ scr_tab \in [Cells -> Chars]
    /\ cursor_pos \in 0 .. EndOfScreen
    /\ crtc \in [index : {HIGH, LOW}, high : Nat, low : Nat]
    /\ pc \in Steps /\ after \in {"idle", "check"}
    /\ char \in Printable
    /\ loaded \in 0 .. EndOfScreen

\* Nothing is behind the screen, and the cursor leaves it only between its increment and its
\* rewinding, which no tick separates from the value that they have read.
Placed ==
    /\ \A i \in Cells : i >= EndOfScreen => scr_tab[i] = Blank
    /\ pc \in {"idle", "load", "store"} => cursor_pos < EndOfScreen
    /\ pc \in Moving /\ after = "idle" => cursor_pos < EndOfScreen
    /\ pc \in Rewinding => cursor_pos = EndOfScreen
    /\ pc \in {"store", "rewind_store"} => loaded = cursor_pos
    /\ pc \in {"load", "store"} => after = "check"
    /\ pc \in {"rewind_load", "rewind_store"} => after = "idle"
    /\ pc \in {"load", "store"} /\ cursor_pos >= Width => scr_tab[cursor_pos] = char

\* The registers, as far as cursor_move has come: a tick may have selected the low one, but
\* has then programmed both.
Registered ==
    /\ pc \in {"idle", "check"} => crtc = Programmed(cursor_pos)
    /\ pc = "data_high" => crtc.index = HIGH \/ crtc = Programmed(cursor_pos)
    /\ pc \in {"index_low", "data_low"} => crtc.high = Byte(HIGH, cursor_pos)
    /\ pc = "data_low" => crtc.index = LOW

ConsoleInv == TypeOK /\ Placed /\ Registered

LEMMA ProgrammedType ==
    ASSUME NEW p \in Nat
    PROVE  /\ Programmed(p) \in [index : {HIGH, LOW}, high : Nat, low : Nat]
           /\ Programmed(p).high = Byte(HIGH, p) /\ Programmed(p).index = LOW
           /\ \A b \in {HIGH, LOW} : Byte(b, p) \in Nat
<1>1. Base \in Nat \ {0}
  BY ConsoleAssumption
<1>2. p \div Base \in Nat /\ p % Base \in Nat
  BY <1>1
<1>3. \A b \in {HIGH, LOW} : Byte(b, p) \in Nat
  BY <1>2 DEF Byte
<1> QED
  BY <1>3 DEF Programmed, HIGH, LOW

LEMMA ScreenReady ==
    ASSUME TypeOK, Placed
    PROVE  /\ screen \in AnyScreen /\ screen.cells = scr_tab /\ screen.cursor = cursor_pos
           /\ cursor_pos < EndOfScreen => screen \in Ready
  BY Dimensions DEF TypeOK, Placed, screen, AnyScreen, Ready

LEMMA InitInv == Init => ConsoleInv
<1> SUFFICES ASSUME Init PROVE ConsoleInv
  OBVIOUS
<1>1. Blank \in Chars /\ Space \in Printable
  BY ScreenAssumption DEF Chars
<1>2. Programmed(0) \in [index : {HIGH, LOW}, high : Nat, low : Nat]
  BY ProgrammedType
<1>3. TypeOK
  BY <1>1, <1>2, Dimensions DEF Init, TypeOK, Steps
<1>4. Placed
  BY Dimensions DEF Init, Placed, Moving, Rewinding
<1>5. Registered
  BY DEF Init, Registered
<1> QED
  BY <1>3, <1>4, <1>5 DEF ConsoleInv

\* The steps that write the cursor, and those that write the screen.
LEMMA CursorSteps ==
    ASSUME ConsoleInv, cursor_move \/ move \/ increment \/ rewind
    PROVE  ConsoleInv'
<1> USE DEF ConsoleInv
<1>1. CASE cursor_move
  <2>1. PICK x \in 0 .. Width - 1, y \in 0 .. Height - 1 : cursor_pos' = Position(x, y)
    BY <1>1 DEF cursor_move
  <2>2. cursor_pos' \in 0 .. EndOfScreen /\ cursor_pos' < EndOfScreen
    <3>1. Width \in Nat \ {0} /\ Height \in Nat
      BY ScreenAssumption
    <3>2. y * Width \in Nat
      BY <3>1
    <3>3. Width * Height = y * Width + Width + (Height - 1 - y) * Width
          /\ (Height - 1 - y) * Width \in Nat
      BY <3>1
    <3> QED
      BY <2>1, <3>1, <3>2, <3>3 DEF Position, EndOfScreen
  <2>3. TypeOK'
    BY <1>1, <2>2 DEF cursor_move, TypeOK, Steps, Moving, Call
  <2>4. Placed'
    BY <1>1, <2>2 DEF cursor_move, Placed, Moving, Rewinding, Call
  <2>5. Registered'
    BY <1>1 DEF cursor_move, Registered, Call
  <2> QED
    BY <2>3, <2>4, <2>5
<1>2. CASE move
  <2>1. cursor_pos' = cursor_pos
    <3>1. screen.cursor = cursor_pos /\ cursor_pos \in Nat
      BY Dimensions DEF screen, TypeOK
    <3> QED
      BY <1>2, <3>1, Division DEF move, Position, Column, Row
  <2>2. TypeOK'
    BY <1>2, <2>1 DEF move, TypeOK, Steps, Moving
  <2>3. Placed'
    BY <1>2, <2>1 DEF move, Placed, Moving, Rewinding
  <2>4. Registered'
    BY <1>2 DEF move, Registered
  <2> QED
    BY <2>2, <2>3, <2>4
<1>3. CASE increment
  <2>1. CASE load("load", "store")
    <3>1. TypeOK'
      BY <1>3, <2>1 DEF load, TypeOK, Steps
    <3>2. Placed'
      BY <1>3, <2>1 DEF load, Placed, Moving, Rewinding
    <3>3. Registered'
      BY <1>3, <2>1 DEF load, Registered
    <3> QED
      BY <3>1, <3>2, <3>3
  <2>2. CASE store("store", loaded + 1)
    <3>1. cursor_pos' = cursor_pos + 1 /\ cursor_pos < EndOfScreen /\ cursor_pos' \in 0 .. EndOfScreen
      BY <2>2, Dimensions DEF store, Placed, TypeOK
    <3>2. TypeOK'
      BY <2>2, <3>1 DEF store, TypeOK, Steps, Moving
    <3>3. Placed'
      BY <2>2, <3>1 DEF store, Placed, Moving, Rewinding
    <3>4. Registered'
      BY <2>2 DEF store, Registered
    <3> QED
      BY <3>2, <3>3, <3>4
  <2> QED
    BY <1>3, <2>1, <2>2 DEF increment
<1>4. CASE rewind
  <2>1. CASE load("rewind_load", "rewind_store")
    <3>1. TypeOK'
      BY <2>1 DEF load, TypeOK, Steps, Rewinding
    <3>2. Placed'
      BY <2>1 DEF load, Placed, Moving, Rewinding
    <3>3. Registered'
      BY <2>1 DEF load, Registered
    <3> QED
      BY <3>1, <3>2, <3>3
  <2>2. CASE store("rewind_store", loaded - Width)
    <3>1. cursor_pos' = LastLine /\ LastLine \in 0 .. EndOfScreen /\ LastLine < EndOfScreen
      BY <2>2, Dimensions DEF store, Placed, Rewinding
    <3>2. TypeOK'
      BY <2>2, <3>1 DEF store, TypeOK, Steps, Moving
    <3>3. Placed'
      BY <2>2, <3>1 DEF store, Placed, Moving, Rewinding
    <3>4. Registered'
      BY <2>2 DEF store, Registered
    <3> QED
      BY <3>2, <3>3, <3>4
  <2> QED
    BY <1>4, <2>1, <2>2 DEF rewind
<1> QED
  BY <1>1, <1>2, <1>3, <1>4

LEMMA PortSteps ==
    ASSUME ConsoleInv, move_ports \/ check
    PROVE  ConsoleInv'
<1> USE DEF ConsoleInv
<1>1. cursor_pos \in Nat /\ \A b \in {HIGH, LOW} : Byte(b, cursor_pos) \in Nat
  <2>1. cursor_pos \in Nat
    BY Dimensions DEF TypeOK
  <2> QED
    BY <2>1, ProgrammedType
<1>2. Programmed(cursor_pos).high = Byte(HIGH, cursor_pos) /\ Programmed(cursor_pos).index = LOW
      /\ Programmed(cursor_pos).low = Byte(LOW, cursor_pos)
  BY DEF Programmed
<1>3. crtc = [index |-> crtc.index, high |-> crtc.high, low |-> crtc.low]
      /\ crtc.index \in {HIGH, LOW} /\ crtc.high \in Nat /\ crtc.low \in Nat /\ HIGH # LOW
  BY DEF TypeOK, HIGH, LOW
<1>4. CASE outb_index(HIGH, "index_high", "data_high")
  <2>1. crtc' = [crtc EXCEPT !.index = HIGH] /\ crtc'.index = HIGH
    BY <1>3, <1>4 DEF outb_index
  <2>2. TypeOK'
    BY <1>4, <2>1 DEF outb_index, TypeOK, Steps, Moving
  <2>3. Placed'
    BY <1>4 DEF outb_index, Placed, Moving, Rewinding
  <2>4. Registered'
    BY <1>4, <2>1 DEF outb_index, Registered
  <2> QED
    BY <2>2, <2>3, <2>4
<1>5. CASE outb_data(HIGH, "data_high", "index_low")
  <2>1. crtc' = [crtc EXCEPT ![crtc.index] = Byte(HIGH, cursor_pos)]
        /\ (crtc.index = HIGH \/ crtc = Programmed(cursor_pos))
    BY <1>5 DEF outb_data, Registered
  <2>2. crtc' \in [index : {HIGH, LOW}, high : Nat, low : Nat]
    BY <1>1, <1>3, <2>1 DEF HIGH, LOW
  <2>3. crtc'.high = Byte(HIGH, cursor_pos)
    <3>1. CASE crtc.index = HIGH
      BY <1>3, <2>1, <3>1 DEF HIGH
    <3>2. CASE crtc.index = LOW
      <4>1. crtc.high = Byte(HIGH, cursor_pos)
        BY <1>2, <1>3, <2>1, <3>2
      <4> QED
        BY <1>3, <2>1, <3>2, <4>1 DEF LOW
    <3> QED
      BY <1>3, <3>1, <3>2
  <2>4. TypeOK'
    BY <1>5, <2>2 DEF outb_data, TypeOK, Steps, Moving
  <2>5. Placed'
    BY <1>5 DEF outb_data, Placed, Moving, Rewinding
  <2>6. Registered'
    BY <1>5, <2>3 DEF outb_data, Registered
  <2> QED
    BY <2>4, <2>5, <2>6
<1>6. CASE outb_index(LOW, "index_low", "data_low")
  <2>1. crtc' = [crtc EXCEPT !.index = LOW] /\ crtc'.index = LOW /\ crtc'.high = crtc.high
    BY <1>3, <1>6 DEF outb_index
  <2>2. TypeOK'
    BY <1>6, <2>1 DEF outb_index, TypeOK, Steps, Moving
  <2>3. Placed'
    BY <1>6 DEF outb_index, Placed, Moving, Rewinding
  <2>4. Registered'
    BY <1>6, <2>1 DEF outb_index, Registered
  <2> QED
    BY <2>2, <2>3, <2>4
<1>7. CASE outb_data(LOW, "data_low", after)
  <2>1. crtc' = [crtc EXCEPT ![LOW] = Byte(LOW, cursor_pos)]
        /\ crtc.index = LOW /\ crtc.high = Byte(HIGH, cursor_pos)
    BY <1>7 DEF outb_data, Registered
  <2>2. crtc' = Programmed(cursor_pos)
    BY <1>3, <2>1 DEF Programmed, HIGH, LOW
  <2>3. crtc' \in [index : {HIGH, LOW}, high : Nat, low : Nat]
    BY <1>1, <2>2, ProgrammedType
  <2>4. TypeOK'
    BY <1>7, <2>3 DEF outb_data, TypeOK, Steps, Moving
  <2>5. Placed'
    BY <1>7 DEF outb_data, TypeOK, Placed, Moving, Rewinding
  <2>6. Registered'
    BY <1>7, <2>2 DEF outb_data, TypeOK, Registered
  <2> QED
    BY <2>4, <2>5, <2>6
<1>8. CASE check
  <2>1. cursor_pos >= EndOfScreen => cursor_pos = EndOfScreen
    BY Dimensions DEF TypeOK
  <2>2. ~ (cursor_pos >= EndOfScreen) => cursor_pos < EndOfScreen
    BY Dimensions DEF TypeOK
  <2>3. TypeOK'
    BY <1>8 DEF check, TypeOK, Steps, Rewinding
  <2>4. Placed'
    BY <1>8, <2>1, <2>2 DEF check, Placed, Moving, Rewinding
  <2>5. Registered'
    BY <1>8 DEF check, Registered
  <2> QED
    BY <2>3, <2>4, <2>5
<1> QED
  BY <1>4, <1>5, <1>6, <1>7, <1>8 DEF move_ports

LEMMA ScreenSteps ==
    ASSUME ConsoleInv, putchar \/ shift
    PROVE  ConsoleInv'
<1> USE DEF ConsoleInv
<1>1. CASE putchar
  <2>1. PICK c \in Printable : scr_tab' = [scr_tab EXCEPT ![cursor_pos] = c] /\ char' = c
    BY <1>1 DEF putchar
  <2>2. cursor_pos < EndOfScreen /\ cursor_pos \in Cells /\ c \in Chars
    BY <1>1, Dimensions DEF putchar, Call, Placed, TypeOK, Chars
  <2>3. /\ scr_tab' \in [Cells -> Chars]
        /\ scr_tab'[cursor_pos] = c
        /\ \A i \in Cells : i # cursor_pos => scr_tab'[i] = scr_tab[i]
    BY <2>1, <2>2 DEF TypeOK
  <2>4. \A i \in Cells : i >= EndOfScreen => scr_tab'[i] = Blank
    <3>1. \A i \in Cells : i >= EndOfScreen => i # cursor_pos
      BY <2>2, Dimensions DEF TypeOK
    <3> QED
      BY <2>3, <3>1 DEF Placed
  <2>5. TypeOK'
    BY <1>1, <2>1, <2>3 DEF putchar, TypeOK, Steps
  <2>6. Placed'
    BY <1>1, <2>1, <2>2, <2>3, <2>4 DEF putchar, Placed, Moving, Rewinding
  <2>7. Registered'
    BY <1>1 DEF putchar, Registered
  <2> QED
    BY <2>5, <2>6, <2>7
<1>2. CASE shift
  <2>1. scr_tab' = Shifted(scr_tab) /\ scr_tab \in [Cells -> Chars]
    BY <1>2 DEF shift, TypeOK
  <2>2. \A i \in Cells : i > EndOfScreen => scr_tab[i] = Blank
    BY Dimensions DEF Placed
  <2>3. /\ scr_tab' \in [Cells -> Chars]
        /\ \A i \in Cells : i > EndOfScreen => scr_tab'[i] = Blank
        /\ scr_tab'[EndOfScreen] = scr_tab[EndOfScreen]
    BY <2>1, <2>2, ShiftedCells
  <2>4. ASSUME NEW i \in Cells, i >= EndOfScreen PROVE scr_tab'[i] = Blank
    <3>1. i = EndOfScreen \/ i > EndOfScreen
      BY <2>4, Dimensions
    <3>2. scr_tab[EndOfScreen] = Blank
      BY Dimensions DEF Placed
    <3> QED
      BY <2>3, <3>1, <3>2
  <2>5. TypeOK'
    BY <1>2, <2>3 DEF shift, TypeOK, Steps, Rewinding
  <2>6. Placed'
    BY <1>2, <2>4 DEF shift, Placed, Moving, Rewinding
  <2>7. Registered'
    BY <1>2 DEF shift, Registered
  <2> QED
    BY <2>5, <2>6, <2>7
<1> QED
  BY <1>1, <1>2

LEMMA WriteSteps ==
    ASSUME ConsoleInv, sys_write
    PROVE  ConsoleInv'
<1> USE DEF ConsoleInv
<1>1. pc = "idle" /\ cursor_pos < EndOfScreen /\ screen \in Ready /\ crtc = Programmed(cursor_pos)
  BY ScreenReady DEF sys_write, Call, Placed, Registered
<1>2. PICK t \in Texts :
        LET s == console_putbytes(screen, t)
        IN  /\ scr_tab' = s.cells /\ cursor_pos' = s.cursor
            /\ crtc' = IF s.cursor = cursor_pos THEN crtc ELSE Programmed(s.cursor)
  BY DEF sys_write
<1> DEFINE s == console_putbytes(screen, t)
<1>3. s \in Ready
  BY <1>1, PrintReady, ConsoleAssumption DEF Strings
<1>4. /\ s.cells \in [Cells -> Chars] /\ s.cursor \in 0 .. EndOfScreen - 1
      /\ \A i \in Cells : i >= EndOfScreen => s.cells[i] = Blank
  BY <1>3 DEF Ready
<1>5. scr_tab' = s.cells /\ cursor_pos' = s.cursor /\ crtc' = Programmed(s.cursor)
  BY <1>1, <1>2
<1> HIDE DEF s
<1>6. crtc' \in [index : {HIGH, LOW}, high : Nat, low : Nat]
  <2>1. s.cursor \in Nat
    BY <1>4, Dimensions
  <2> QED
    BY <1>5, <2>1, ProgrammedType
<1>7. cursor_pos' \in 0 .. EndOfScreen /\ cursor_pos' < EndOfScreen
  BY <1>4, <1>5, Dimensions
<1>8. TypeOK'
  BY <1>4, <1>5, <1>6, <1>7 DEF sys_write, TypeOK
<1>9. Placed'
  BY <1>1, <1>4, <1>5, <1>7 DEF sys_write, Placed, Moving, Rewinding
<1>10. Registered'
  BY <1>1, <1>5 DEF sys_write, Registered
<1> QED
  BY <1>8, <1>9, <1>10

\* What a tick leaves: the cursor where it was, and both registers programmed.
LEMMA TickLeaves ==
    ASSUME TypeOK, Placed, timer_handler
    PROVE  /\ screen' \in AnyScreen /\ SameBelow(screen, screen')
           /\ cursor_pos' = cursor_pos /\ crtc' = Programmed(cursor_pos)
           /\ UNCHANGED <<pc, after, char, loaded, calls>>
<1>1. PICK update \in {<<FALSE, FALSE>>, <<TRUE, FALSE>>, <<TRUE, TRUE>>} :
        LET s == display_banner(screen, update[1], update[2])
        IN  scr_tab' = s.cells /\ cursor_pos' = s.cursor /\ crtc' = Programmed(s.cursor)
  BY DEF timer_handler
<1>2. update[1] \in BOOLEAN /\ update[2] \in BOOLEAN
  <2>1. ASSUME NEW a \in BOOLEAN, NEW b \in BOOLEAN, NEW u, u = <<a, b>>
        PROVE  u[1] \in BOOLEAN /\ u[2] \in BOOLEAN
    BY <2>1
  <2>2. PICK a \in BOOLEAN, b \in BOOLEAN : update = <<a, b>>
    <3>1. \/ update = <<FALSE, FALSE>> \/ update = <<TRUE, FALSE>> \/ update = <<TRUE, TRUE>>
      OBVIOUS
    <3>2. TRUE \in BOOLEAN /\ FALSE \in BOOLEAN
      OBVIOUS
    <3> QED
      BY <3>1, <3>2, Zenon
  <2> QED
    BY <2>1, <2>2
<1> DEFINE s == display_banner(screen, update[1], update[2])
<1>3. screen \in AnyScreen /\ screen.cursor = cursor_pos
  BY ScreenReady
<1>4. s \in AnyScreen /\ SameBelow(screen, s) /\ s.cursor = cursor_pos
      /\ s = [cells |-> s.cells, cursor |-> cursor_pos]
  BY <1>2, <1>3, BannerBelow
<1>5. screen' = [cells |-> s.cells, cursor |-> s.cursor]
  BY <1>1 DEF screen
<1>6. crtc' = Programmed(s.cursor) /\ cursor_pos' = s.cursor
  BY <1>1
<1> HIDE DEF s
<1> QED
  BY <1>4, <1>5, <1>6 DEF timer_handler

LEMMA TickSteps ==
    ASSUME ConsoleInv, timer_handler
    PROVE  ConsoleInv'
<1> USE DEF ConsoleInv
<1>1. /\ screen' \in AnyScreen /\ SameBelow(screen, screen')
      /\ cursor_pos' = cursor_pos /\ crtc' = Programmed(cursor_pos)
      /\ UNCHANGED <<pc, after, char, loaded, calls>>
  BY TickLeaves
<1>2. scr_tab' \in [Cells -> Chars] /\ \A i \in Cells : i >= Width => scr_tab'[i] = scr_tab[i]
  BY <1>1 DEF screen, AnyScreen, SameBelow
<1>3. cursor_pos \in Nat /\ Programmed(cursor_pos)' = Programmed(cursor_pos)
  BY <1>1, Dimensions DEF TypeOK, Programmed, Byte
<1>4. TypeOK'
  BY <1>1, <1>2, <1>3, ProgrammedType DEF TypeOK
<1>5. Placed'
  <2>1. \A i \in Cells : i >= EndOfScreen => scr_tab'[i] = Blank
    <3>1. \A i \in Cells : i >= EndOfScreen => i >= Width
      BY Dimensions
    <3> QED
      BY <1>2, <3>1 DEF Placed
  <2>2. cursor_pos \in Cells
    BY Dimensions DEF TypeOK
  <2> QED
    BY <1>1, <1>2, <2>1, <2>2 DEF Placed
<1>6. Registered'
  BY <1>1, <1>3, ProgrammedType DEF Registered
<1> QED
  BY <1>4, <1>5, <1>6

LEMMA NextInv == ConsoleInv /\ [Next]_vars => ConsoleInv'
<1>1. ASSUME ConsoleInv, UNCHANGED vars PROVE ConsoleInv'
  BY <1>1 DEF ConsoleInv, TypeOK, Placed, Registered, vars, Programmed, Byte
<1> QED
  BY <1>1, CursorSteps, PortSteps, ScreenSteps, WriteSteps, TickSteps DEF Next, Process

\* The invariant of the console and the timer.
LEMMA Invariant == Spec => []ConsoleInv
<1>1. Init => ConsoleInv
  BY InitInv
<1> QED
  BY <1>1, NextInv, PTL DEF Spec

\* Between two calls the blinking cursor is where the next character goes, whichever register a
\* tick has selected between the ports of cursor_move.
THEOREM CursorCorrect == Spec => []HardwareCursor
<1>1. ConsoleInv => HardwareCursor
  BY DEF ConsoleInv, Registered, HardwareCursor
<1> QED
  BY <1>1, Invariant, PTL

\* No character goes to the memory behind the screen, and the cursor of a process that has
\* finished its call is on it.
THEOREM ScreenCorrect == Spec => []StaysOnScreen
<1>1. ConsoleInv => StaysOnScreen
  BY DEF ConsoleInv, Placed, StaysOnScreen
<1> QED
  BY <1>1, Invariant, PTL

\* Only a tick, or printing at a cursor that stands on the first line, changes the banner: on a
\* screen of three lines or more, with texts that spare it.
THEOREM BannerCorrect ==
    ASSUME Height > 2, \A t \in Texts : Sparing(t)
    PROVE  Spec => BannerKept
<1>1. ASSUME ConsoleInv, [Next]_vars PROVE [SparesBanner]_vars
  <2> SUFFICES ASSUME Next, ~ timer_handler, ~ (cursor_pos < Width)
               PROVE  Line(scr_tab', 0) = Line(scr_tab, 0)
    BY <1>1 DEF SparesBanner
  <2> USE <1>1 DEF ConsoleInv
  <2>1. cursor_pos >= Width /\ cursor_pos \in 0 .. EndOfScreen /\ scr_tab \in [Cells -> Chars]
    BY Dimensions DEF TypeOK
  <2>2. SUFFICES \A i \in 0 .. Width - 1 : scr_tab'[i] = scr_tab[i]
    <3>1. \A x \in 1 .. Width : Position(x - 1, 0) \in 0 .. Width - 1
      BY Dimensions DEF Position
    <3> QED
      BY <2>2, <3>1 DEF Line
  <2>3. CASE UNCHANGED scr_tab
    BY <2>3
  <2>4. CASE putchar
    <3>1. PICK c \in Printable : scr_tab' = [scr_tab EXCEPT ![cursor_pos] = c]
      BY <2>4 DEF putchar
    <3>2. \A i \in 0 .. Width - 1 : i \in Cells /\ i # cursor_pos
      BY <2>1, Dimensions
    <3> QED
      BY <2>1, <3>1, <3>2
  <2>5. CASE shift
    <3>1. scr_tab' = Shifted(scr_tab)
      BY <2>5 DEF shift
    <3>2. \A i \in Cells : i > EndOfScreen => scr_tab[i] = Blank
      BY Dimensions DEF Placed
    <3> QED
      BY <2>1, <3>1, <3>2, ShiftedCells
  <2>6. CASE sys_write
    <3>1. screen \in Ready /\ screen.cells = scr_tab /\ screen.cursor = cursor_pos
      BY <2>6, ScreenReady DEF sys_write, Call, Placed
    <3>2. PICK t \in Texts : scr_tab' = console_putbytes(screen, t).cells
      BY <2>6 DEF sys_write
    <3>3. t \in Strings /\ Sparing(t)
      BY ConsoleAssumption DEF Strings
    <3>4. SameBanner(screen, console_putbytes(screen, t))
      BY <2>1, <3>1, <3>3, PrintSpares
    <3> QED
      BY <3>1, <3>2, <3>4 DEF SameBanner
  <2> QED
    BY <2>3, <2>4, <2>5, <2>6 DEF Next, Process, cursor_move, move, move_ports, outb_index, outb_data,
       increment, rewind, load, store, check
<1> QED
  BY <1>1, Invariant, PTL DEF Spec, BannerKept

-----------------------------------------------------------------------------
(***************************************************************************)
(* What the process sees.  The copies of Screen's operators that Display   *)
(* brings with it are Screen's.                                            *)
(***************************************************************************)
LEMMA SameScreens ==
    /\ Promised!Cells = Cells /\ Promised!EndOfScreen = EndOfScreen /\ Promised!LastLine = LastLine
    /\ Promised!Space = Space /\ Promised!Blank = Blank
  BY DEF Promised!Cells, Cells, Promised!EndOfScreen, EndOfScreen, Promised!LastLine, LastLine,
         Promised!Space, Space, Promised!Blank, Blank

LEMMA SamePut ==
    /\ \A s : Promised!Scrolled(s) = Scrolled(s)
    /\ \A s, c : Promised!Put(s, c) = Put(s, c)
<1>1. \A cells : Promised!Shifted(cells) = Shifted(cells)
  BY SameScreens DEF Promised!Shifted, Shifted
<1>2. \A s : Promised!Scrolled(s) = Scrolled(s)
  BY <1>1, SameScreens DEF Promised!Scrolled, Scrolled
<1> QED
  BY <1>2 DEF Promised!Put, Put

LEMMA SameTabbed == \A s : Promised!Tabbed(s) = Tabbed(s)
<1> HIDE DEF Put, Promised!Put
<1>1. \A s, c : Promised!Put(s, c) = Put(s, c)
  BY SamePut
<1> QED
  BY <1>1
     DEF Promised!Tabbed, Tabbed, Promised!FoldLeft, FoldLeft, Promised!MapThenFoldSet, MapThenFoldSet,
         Promised!TabStop, TabStop, Promised!Space, Space, Max, Promised!Max

LEMMA SameMove == \A s, x, y : Promised!MoveTo(s, x, y) = MoveTo(s, x, y)
  BY DEF Promised!MoveTo, MoveTo, Promised!Position, Position

LEMMA SamePutchar == \A s, c : Promised!console_putchar(s, c) = console_putchar(s, c)
<1> HIDE DEF Put, Promised!Put, Tabbed, Promised!Tabbed, Scrolled, Promised!Scrolled
<1> QED
  BY SameScreens, SamePut, SameTabbed, SameMove
     DEF Promised!console_putchar, console_putchar, Promised!Cleared, Cleared,
         Promised!Row, Row, NEWLINE, BACKSPACE, TAB, RETURN, FORMFEED, Promised!NEWLINE,
         Promised!BACKSPACE, Promised!TAB, Promised!RETURN, Promised!FORMFEED

LEMMA SamePrint == \A s, t : Promised!console_putbytes(s, t) = console_putbytes(s, t)
<1> HIDE DEF console_putchar, Promised!console_putchar
<1> QED
  BY SamePutchar
     DEF Promised!console_putbytes, console_putbytes, Promised!FoldLeft, FoldLeft,
         Promised!MapThenFoldSet, MapThenFoldSet, Max, Promised!Max

\* What the call that is executing still has to do, for each of its steps.
Finishes ==
    /\ pc \in {"load", "store"} => Done = Put(screen, char)
    /\ pc \in {"rewind_load", "rewind_store"}
           => Done = [cells |-> scr_tab, cursor |-> cursor_pos - Width]
    /\ pc \notin {"load", "store", "rewind_load", "rewind_store"}
           => Done = IF cursor_pos >= EndOfScreen
                     THEN [cells |-> Shifted(scr_tab), cursor |-> cursor_pos - Width]
                     ELSE [cells |-> scr_tab, cursor |-> cursor_pos]

LEMMA DoneIs == ConsoleInv => Finishes
<1> SUFFICES ASSUME ConsoleInv PROVE Finishes
  OBVIOUS
<1> USE DEF ConsoleInv
<1>1. cursor_pos \in 0 .. EndOfScreen /\ cursor_pos \in Int /\ pc \in Steps /\ after \in {"idle", "check"}
  BY Dimensions DEF TypeOK
<1>2. pc \in {"load", "store"} => Done = Put(screen, char)
  BY DEF Done
<1>3. pc \in {"rewind_load", "rewind_store"}
          => Done = [cells |-> scr_tab, cursor |-> cursor_pos - Width]
  BY DEF Done, screen
<1>4. ASSUME pc \notin {"load", "store", "rewind_load", "rewind_store"}
      PROVE  Done = IF cursor_pos >= EndOfScreen
                    THEN [cells |-> Shifted(scr_tab), cursor |-> cursor_pos - Width]
                    ELSE [cells |-> scr_tab, cursor |-> cursor_pos]
  <2>1. screen = [cells |-> scr_tab, cursor |-> cursor_pos]
    BY DEF screen
  <2>2. Scrolled(screen) = IF cursor_pos >= EndOfScreen
                           THEN [cells |-> Shifted(scr_tab), cursor |-> cursor_pos - Width]
                           ELSE [cells |-> scr_tab, cursor |-> cursor_pos]
    BY <1>1, <2>1, ScrolledIs
  <2>3. Done = IF after = "check" \/ pc \in {"check", "shift"} THEN Scrolled(screen) ELSE screen
    BY <1>4 DEF Done
  <2>4. ~ (after = "check" \/ pc \in {"check", "shift"}) => cursor_pos < EndOfScreen
    BY <1>1, <1>4 DEF Placed, Steps, Rewinding
  <2> HIDE DEF Scrolled
  <2> QED
    BY <1>1, <2>1, <2>2, <2>3, <2>4, Dimensions
<1> QED
  BY <1>2, <1>3, <1>4 DEF Finishes

LEMMA DoneReady == ASSUME ConsoleInv PROVE Done \in Ready
<1> USE DEF ConsoleInv
<1>1. /\ cursor_pos \in 0 .. EndOfScreen /\ scr_tab \in [Cells -> Chars] /\ char \in Chars
      /\ \A i \in Cells : i >= EndOfScreen => scr_tab[i] = Blank
  BY DEF TypeOK, Placed, Chars
<1>2. CASE pc \in {"load", "store"}
  BY <1>1, <1>2, DoneIs, ScreenReady, PutReady DEF Placed, Finishes
<1>3. CASE pc \in {"rewind_load", "rewind_store"}
  <2>1. cursor_pos = EndOfScreen
    BY <1>3 DEF Placed, Rewinding
  <2> QED
    BY <1>1, <1>3, <2>1, DoneIs, Dimensions DEF Ready, Finishes
<1>4. CASE pc \notin {"load", "store", "rewind_load", "rewind_store"}
  <2>1. CASE cursor_pos < EndOfScreen
    BY <1>1, <1>4, <2>1, DoneIs, Dimensions DEF Ready, Finishes
  <2>2. CASE cursor_pos = EndOfScreen
    <3>1. /\ Shifted(scr_tab) \in [Cells -> Chars]
          /\ \A i \in Cells : i >= EndOfScreen => Shifted(scr_tab)[i] = Blank
      <4>1. \A i \in Cells : i > EndOfScreen => scr_tab[i] = Blank
        BY <1>1, Dimensions
      <4>2. EndOfScreen \in Cells
        BY Dimensions
      <4> HIDE DEF Shifted
      <4> QED
        BY <1>1, <4>1, <4>2, ShiftedCells, Dimensions
    <3> HIDE DEF Shifted
    <3> QED
      BY <1>4, <2>2, <3>1, DoneIs, Dimensions DEF Ready, Finishes
  <2> QED
    BY <1>1, <2>1, <2>2, Dimensions
<1> QED
  BY <1>2, <1>3, <1>4

\* Display's screen, with nothing on the first line, is like the one that the process sees.
LEMMA ShownAlike == ASSUME ConsoleInv PROVE Promised!Shown \in Ready /\ Alike(Done, Promised!Shown)
<1>1. /\ Done.cells \in [Cells -> Chars] /\ Done.cursor \in 0 .. EndOfScreen - 1
      /\ \A i \in Width .. EndOfScreen - 1 : i \in Cells
  BY DoneReady, Dimensions DEF Ready
<1>2. Below(Done.cells) = [i \in Width .. EndOfScreen - 1 |-> Done.cells[i]]
  BY DEF Below
<1>3. Promised!Shown = [cells  |-> [i \in Cells |-> IF i \in Width .. EndOfScreen - 1
                                                    THEN Done.cells[i] ELSE Blank],
                        cursor |-> Done.cursor]
  <2> HIDE DEF Done, Below
  <2> QED
    BY <1>2, SameScreens DEF Promised!Shown
<1>4. Blank \in Chars
  BY DEF Chars
<1> HIDE DEF Done
<1>5. Promised!Shown \in Ready
  <2>1. \A i \in Cells : i >= EndOfScreen => i \notin Width .. EndOfScreen - 1
    BY Dimensions
  <2> QED
    BY <1>1, <1>3, <1>4, <2>1 DEF Ready
<1> QED
  BY <1>1, <1>3, <1>5 DEF Alike

LEMMA BelowAlike ==
    ASSUME NEW s, NEW u, Alike(s, u) PROVE Below(s.cells) = Below(u.cells) /\ s.cursor = u.cursor
  BY DEF Alike, Below

\* Each step of the console and of the timer is one of Display's, or none: of a call of several
\* steps, the first is the one that Display sees.
Hidden == Alike(Done, Done')
Seen ==
    \/ \E x \in 0 .. Width - 1, y \in 0 .. Height - 1 : Alike(Done', MoveTo(Promised!Shown, x, y))
    \/ \E c \in Printable : Alike(Done', console_putchar(Promised!Shown, c))
    \/ \E t \in Texts : Alike(Done', console_putbytes(Promised!Shown, t))

LEMMA AlikeTransitive ==
    ASSUME NEW s, NEW u, NEW v, Alike(s, u), Alike(u, v) PROVE Alike(s, v)
  BY DEF Alike

LEMMA CallsSeen ==
    ASSUME ConsoleInv, ConsoleInv', cursor_move \/ putchar \/ sys_write
    PROVE  Seen
<1> USE DEF ConsoleInv
<1>1. /\ pc = "idle" /\ cursor_pos < EndOfScreen /\ cursor_pos \in 0 .. EndOfScreen
      /\ scr_tab \in [Cells -> Chars] /\ cursor_pos \in Cells
  BY Dimensions DEF cursor_move, putchar, sys_write, Call, Placed, TypeOK
<1>2. screen = [cells |-> scr_tab, cursor |-> cursor_pos] /\ screen \in Ready
  BY <1>1, ScreenReady DEF screen
<1>3. Done = screen /\ Promised!Shown \in Ready /\ Alike(screen, Promised!Shown)
  <2>1. Done = screen
    BY <1>1, <1>2, DoneIs, Dimensions DEF Finishes
  <2> QED
    BY <2>1, ShownAlike
<1>4. ASSUME cursor_move PROVE Seen
  <2>1. PICK x \in 0 .. Width - 1, y \in 0 .. Height - 1 : cursor_pos' = Position(x, y)
    BY <1>4 DEF cursor_move
  <2>2. scr_tab' = scr_tab /\ pc' = "index_high" /\ after' = "idle"
    BY <1>4 DEF cursor_move
  <2>3. Done' = [cells |-> scr_tab, cursor |-> Position(x, y)]
    BY <2>1, <2>2 DEF Done, screen
  <2>4. MoveTo(Promised!Shown, x, y).cursor = Position(x, y)
        /\ MoveTo(Promised!Shown, x, y).cells = Promised!Shown.cells
    BY <1>3 DEF MoveTo, Ready
  <2>5. Alike(Done', MoveTo(Promised!Shown, x, y))
    BY <1>2, <1>3, <2>3, <2>4 DEF Alike
  <2> QED
    BY <2>5 DEF Seen
<1>5. ASSUME putchar PROVE Seen
  <2>1. PICK c \in Printable : scr_tab' = [scr_tab EXCEPT ![cursor_pos] = c] /\ char' = c
    BY <1>5 DEF putchar
  <2>2. cursor_pos' = cursor_pos /\ pc' = "load" /\ c \in Chars
    BY <1>5 DEF putchar, Chars
  <2>3. screen' = [cells |-> [scr_tab EXCEPT ![cursor_pos] = c], cursor |-> cursor_pos]
    BY <2>1, <2>2 DEF screen
  <2>4. Done' = Put(screen', c)
    BY <2>1, <2>2 DEF Done
  <2>5. [[scr_tab EXCEPT ![cursor_pos] = c] EXCEPT ![cursor_pos] = c] = [scr_tab EXCEPT ![cursor_pos] = c]
    BY <1>1
  <2>6. Put(screen', c) = Put(screen, c)
    <3> HIDE DEF Scrolled
    <3> QED
      BY <1>2, <2>3, <2>5 DEF Put
  <2>7. Alike(Put(screen, c), console_putchar(Promised!Shown, c))
    <3> HIDE DEF Put
    <3> QED
      BY <1>2, <1>3, <2>2, PutAlike, PutcharIs
  <2> QED
    BY <2>4, <2>6, <2>7 DEF Seen
<1>6. ASSUME sys_write PROVE Seen
  <2>1. PICK t \in Texts :
          scr_tab' = console_putbytes(screen, t).cells /\ cursor_pos' = console_putbytes(screen, t).cursor
    BY <1>6 DEF sys_write
  <2>2. t \in Strings
    BY ConsoleAssumption DEF Strings
  <2> HIDE DEF console_putbytes
  <2>3. console_putbytes(screen, t) \in Ready
    BY <1>2, <2>2, PrintReady
  <2>4. pc' = "idle" /\ cursor_pos' < EndOfScreen /\ cursor_pos' \in Nat
    BY <1>1, <1>6, <2>1, <2>3, Dimensions DEF sys_write, Ready
  <2>5. screen' = console_putbytes(screen, t)
    BY <2>1, <2>3 DEF screen, Ready
  <2>6. Scrolled(screen') = screen'
    BY <2>4, Dimensions DEF Scrolled, screen
  <2>7. Done' = screen'
    BY <2>4, <2>6 DEF Done
  <2>8. Alike(console_putbytes(screen, t), console_putbytes(Promised!Shown, t))
    BY <1>2, <1>3, <2>2, PrintAlike
  <2> QED
    BY <2>5, <2>7, <2>8 DEF Seen
<1> QED
  BY <1>4, <1>5, <1>6

\* Two screens that are alike scroll alike.
LEMMA ShiftedAlike ==
    ASSUME NEW a \in [Cells -> Chars], NEW b \in [Cells -> Chars],
           \A i \in Width .. EndOfScreen - 1 : a[i] = b[i]
    PROVE  \A i \in Width .. EndOfScreen - 1 : Shifted(a)[i] = Shifted(b)[i]
<1>1. /\ \A i \in Width .. EndOfScreen - 1 : i \in Cells
      /\ \A i \in Width .. LastLine - 1 : i + Width \in Width .. EndOfScreen - 1
  BY Dimensions
<1> QED
  BY <1>1, Dimensions DEF Shifted

LEMMA StepsHidden ==
    ASSUME ConsoleInv, ConsoleInv', move \/ move_ports \/ increment \/ check \/ shift \/ rewind
    PROVE  Hidden
<1>0. Finishes'
  BY DoneIs, PTL
<1> USE DEF ConsoleInv
<1> DEFINE Passed(p, cells) == IF p >= EndOfScreen
                               THEN [cells |-> Shifted(cells), cursor |-> p - Width]
                               ELSE [cells |-> cells, cursor |-> p]
           Plain(step) == step \notin {"load", "store", "rewind_load", "rewind_store"}
<1>1. /\ pc \in {"load", "store"} => Done = Put(screen, char)
      /\ pc \in {"rewind_load", "rewind_store"}
             => Done = [cells |-> scr_tab, cursor |-> cursor_pos - Width]
      /\ Plain(pc) => Done = Passed(cursor_pos, scr_tab)
  BY DoneIs DEF Finishes
<1>2. /\ pc' \in {"load", "store"} => Done' = Put(screen', char')
      /\ pc' \in {"rewind_load", "rewind_store"}
             => Done' = [cells |-> scr_tab', cursor |-> cursor_pos' - Width]
      /\ Plain(pc') => Done' = Passed(cursor_pos', scr_tab')
  BY <1>0 DEF Finishes
<1>3. cursor_pos \in 0 .. EndOfScreen /\ cursor_pos \in Nat /\ scr_tab \in [Cells -> Chars]
      /\ after \in {"idle", "check"}
  BY Dimensions DEF TypeOK
<1>4. Done' = Done => Hidden
  BY DEF Hidden, Alike
<1>5. ASSUME move PROVE Hidden
  <2>1. pc = "move" /\ pc' = "index_high" /\ scr_tab' = scr_tab /\ cursor_pos' = Position(Column(screen), Row(screen))
    BY <1>5 DEF move
  <2>2. cursor_pos' = cursor_pos
    BY <1>3, <2>1, Division DEF Position, Column, Row, screen
  <2> QED
    BY <1>1, <1>2, <1>4, <2>1, <2>2
<1>6. ASSUME move_ports PROVE Hidden
  <2>1. /\ Plain(pc) /\ Plain(pc')
        /\ scr_tab' = scr_tab /\ cursor_pos' = cursor_pos
    BY <1>3, <1>6 DEF move_ports, outb_index, outb_data
  <2> QED
    BY <1>1, <1>2, <1>4, <2>1
<1>7. ASSUME increment PROVE Hidden
  <2>1. CASE load("load", "store")
    BY <1>1, <1>2, <1>4, <2>1 DEF load, screen
  <2>2. CASE store("store", loaded + 1)
    <3>1. /\ pc = "store" /\ pc' = "move" /\ scr_tab' = scr_tab
          /\ cursor_pos' = cursor_pos + 1 /\ cursor_pos < EndOfScreen
          /\ cursor_pos >= Width => scr_tab[cursor_pos] = char
      BY <2>2 DEF store, Placed
    <3>2. Done = Put(screen, char) /\ Done' = Passed(cursor_pos + 1, scr_tab)
      BY <1>1, <1>2, <3>1
    <3>3. screen \in Ready /\ screen.cells = scr_tab /\ screen.cursor = cursor_pos /\ char \in Chars
      BY <3>1, ScreenReady DEF TypeOK, Chars
    <3> DEFINE put == [scr_tab EXCEPT ![cursor_pos] = char]
    <3>4. Put(screen, char) = Passed(cursor_pos + 1, put)
      <4>1. cursor_pos + 1 \in Int
        BY <1>3
      <4>2. Put(screen, char) = Scrolled([cells |-> put, cursor |-> cursor_pos + 1])
        BY <3>3 DEF Put
      <4> HIDE DEF put
      <4> QED
        BY <4>1, <4>2, ScrolledIs
    <3>5. put \in [Cells -> Chars] /\ \A i \in Width .. EndOfScreen - 1 : put[i] = scr_tab[i]
      BY <1>3, <3>1, <3>3, Dimensions
    <3> HIDE DEF put
    <3>6. CASE cursor_pos + 1 >= EndOfScreen
      <4>1. /\ Done = [cells |-> Shifted(put), cursor |-> (cursor_pos + 1) - Width]
            /\ Done' = [cells |-> Shifted(scr_tab), cursor |-> (cursor_pos + 1) - Width]
        BY <3>2, <3>4, <3>6
      <4>2. \A i \in Width .. EndOfScreen - 1 : Shifted(put)[i] = Shifted(scr_tab)[i]
        BY <1>3, <3>5, ShiftedAlike
      <4> HIDE DEF Shifted
      <4> QED
        BY <4>1, <4>2 DEF Hidden, Alike
    <3>7. CASE ~ (cursor_pos + 1 >= EndOfScreen)
      <4>1. /\ Done = [cells |-> put, cursor |-> cursor_pos + 1]
            /\ Done' = [cells |-> scr_tab, cursor |-> cursor_pos + 1]
        BY <3>2, <3>4, <3>7
      <4> QED
        BY <3>5, <4>1 DEF Hidden, Alike
    <3> QED
      BY <3>6, <3>7
  <2> QED
    BY <1>7, <2>1, <2>2 DEF increment
<1>8. ASSUME check PROVE Hidden
  <2>1. Plain(pc) /\ Plain(pc') /\ scr_tab' = scr_tab /\ cursor_pos' = cursor_pos
    BY <1>8 DEF check
  <2> QED
    BY <1>1, <1>2, <1>4, <2>1
<1>9. ASSUME shift PROVE Hidden
  <2>1. /\ pc = "shift" /\ pc' = "rewind_load"
        /\ scr_tab' = Shifted(scr_tab) /\ cursor_pos' = cursor_pos /\ cursor_pos = EndOfScreen
    BY <1>9 DEF shift, Placed, Rewinding
  <2> HIDE DEF Shifted
  <2> QED
    BY <1>1, <1>2, <1>4, <2>1, Dimensions
<1>10. ASSUME rewind PROVE Hidden
  <2>1. CASE load("rewind_load", "rewind_store")
    BY <1>1, <1>2, <1>4, <2>1 DEF load
  <2>2. CASE store("rewind_store", loaded - Width)
    <3>1. /\ pc = "rewind_store" /\ pc' = "move" /\ scr_tab' = scr_tab
          /\ cursor_pos' = cursor_pos - Width /\ cursor_pos = EndOfScreen
      BY <2>2 DEF store, Placed, Rewinding
    <3>2. ~ (cursor_pos - Width >= EndOfScreen)
      BY <3>1, Dimensions
    <3> QED
      BY <1>1, <1>2, <1>4, <3>1, <3>2
  <2> QED
    BY <1>10, <2>1, <2>2 DEF rewind
<1> QED
  BY <1>5, <1>6, <1>7, <1>8, <1>9, <1>10

LEMMA TickHidden ==
    ASSUME ConsoleInv, ConsoleInv', timer_handler
    PROVE  Hidden
<1>0. Finishes'
  BY DoneIs, PTL
<1> USE DEF ConsoleInv
<1> DEFINE Passed(p, cells) == IF p >= EndOfScreen
                               THEN [cells |-> Shifted(cells), cursor |-> p - Width]
                               ELSE [cells |-> cells, cursor |-> p]
           Plain(step) == step \notin {"load", "store", "rewind_load", "rewind_store"}
<1>1. /\ pc \in {"load", "store"} => Done = Put(screen, char)
      /\ pc \in {"rewind_load", "rewind_store"}
             => Done = [cells |-> scr_tab, cursor |-> cursor_pos - Width]
      /\ Plain(pc) => Done = Passed(cursor_pos, scr_tab)
  BY DoneIs DEF Finishes
<1>2. /\ pc' \in {"load", "store"} => Done' = Put(screen', char')
      /\ pc' \in {"rewind_load", "rewind_store"}
             => Done' = [cells |-> scr_tab', cursor |-> cursor_pos' - Width]
      /\ Plain(pc') => Done' = Passed(cursor_pos', scr_tab')
  BY <1>0 DEF Finishes
<1>3. /\ screen' \in AnyScreen /\ SameBelow(screen, screen')
      /\ cursor_pos' = cursor_pos /\ pc' = pc /\ char' = char
  BY TickLeaves
<1>4. /\ screen.cells = scr_tab /\ screen.cursor = cursor_pos
      /\ screen'.cells = scr_tab' /\ screen'.cursor = cursor_pos'
  BY DEF screen
<1>5. /\ scr_tab \in [Cells -> Chars] /\ scr_tab' \in [Cells -> Chars]
      /\ \A i \in Width .. EndOfScreen - 1 : scr_tab[i] = scr_tab'[i]
  <2>1. \A i \in Width .. EndOfScreen - 1 : i \in Cells /\ i >= Width
    BY Dimensions
  <2> QED
    BY <1>3, <1>4, <2>1 DEF SameBelow, TypeOK
<1>6. CASE pc \in {"load", "store"}
  <2>1. screen \in Ready /\ char \in Chars
    BY <1>6, ScreenReady DEF Placed, TypeOK, Chars
  <2>2. screen' \in Ready
    <3>1. ConsoleInv' => (cursor_pos' < EndOfScreen => screen' \in Ready)
      BY Dimensions DEF TypeOK, Placed, screen, Ready
    <3>2. cursor_pos < EndOfScreen
      BY <1>6 DEF Placed
    <3> QED
      BY <1>3, <3>1, <3>2
  <2>3. Alike(screen, screen')
    BY <1>3, <1>4, <1>5 DEF Alike
  <2>4. Alike(Put(screen, char), Put(screen', char))
    BY <2>1, <2>2, <2>3, PutAlike
  <2> HIDE DEF Put
  <2> QED
    BY <1>1, <1>2, <1>3, <1>6, <2>4 DEF Hidden
<1>7. CASE pc \in {"rewind_load", "rewind_store"}
  BY <1>1, <1>2, <1>3, <1>5, <1>7 DEF Hidden, Alike
<1>8. CASE Plain(pc)
  <2>1. Done = Passed(cursor_pos, scr_tab) /\ Done' = Passed(cursor_pos, scr_tab')
    BY <1>1, <1>2, <1>3, <1>8
  <2>2. \A i \in Width .. EndOfScreen - 1 : Shifted(scr_tab)[i] = Shifted(scr_tab')[i]
    BY <1>5, ShiftedAlike
  <2> HIDE DEF Shifted
  <2> QED
    BY <1>5, <2>1, <2>2 DEF Hidden, Alike
<1> QED
  BY <1>6, <1>7, <1>8

\* What a process prints below the first line, and where its next character goes, do not depend
\* on when the timer interrupts it: every call of console.c takes effect as one step of Display.
THEOREM ConsoleImplementsDisplay == Spec => ImplementsDisplay
<1>1. Init => Promised!Init
  <2> SUFFICES ASSUME Init PROVE Promised!Init
    OBVIOUS
  <2>1. scr_tab = [i \in Cells |-> Blank] /\ cursor_pos = 0 /\ pc = "idle"
    BY DEF Init
  <2>2. Done = [cells |-> scr_tab, cursor |-> cursor_pos]
    BY <2>1, InitInv, DoneIs, Dimensions DEF Finishes
  <2>3. Below(Done.cells) = [i \in Width .. EndOfScreen - 1 |-> Blank]
    <3>1. \A i \in Width .. EndOfScreen - 1 : i \in Cells
      BY Dimensions
    <3> QED
      BY <2>1, <2>2, <3>1 DEF Below
  <2> HIDE DEF Done, Below
  <2> QED
    BY <2>1, <2>2, <2>3, SameScreens DEF Promised!Init
<1>2. ASSUME ConsoleInv, ConsoleInv', [Next]_vars
      PROVE  [Promised!Next]_(Promised!display)
  <2>1. ASSUME Hidden PROVE UNCHANGED Promised!display
    <3>1. Below(Done.cells) = Below(Done'.cells) /\ Done.cursor = Done'.cursor
      BY <2>1, BelowAlike DEF Hidden
    <3> HIDE DEF Done, Below
    <3> QED
      BY <3>1 DEF Promised!display
  <2>2. ASSUME Seen PROVE Promised!Next
    <3>1. ASSUME NEW u, Alike(Done', u) PROVE Promised!Becomes(u)
      <4>1. Below(Done'.cells) = Below(u.cells) /\ Done'.cursor = u.cursor
        BY <3>1, BelowAlike
      <4>2. Promised!Below(u.cells) = Below(u.cells)
        BY SameScreens DEF Promised!Below, Below
      <4> HIDE DEF Done, Below
      <4> QED
        BY <4>1, <4>2 DEF Promised!Becomes
    <3> HIDE DEF Done, console_putchar, console_putbytes
    <3>2. ASSUME NEW x \in 0 .. Width - 1, NEW y \in 0 .. Height - 1,
                 Alike(Done', MoveTo(Promised!Shown, x, y))
          PROVE  Promised!Next
      BY <3>1, <3>2, SameMove DEF Promised!Next, Promised!Move
    <3>3. ASSUME NEW c \in Printable, Alike(Done', console_putchar(Promised!Shown, c))
          PROVE  Promised!Next
      BY <3>1, <3>3, SamePutchar DEF Promised!Next, Promised!PutChar
    <3>4. ASSUME NEW t \in Texts, Alike(Done', console_putbytes(Promised!Shown, t))
          PROVE  Promised!Next
      BY <3>1, <3>4, SamePrint DEF Promised!Next, Promised!Write
    <3> QED
      BY <2>2, <3>2, <3>3, <3>4 DEF Seen
  <2>3. ASSUME UNCHANGED vars PROVE Hidden
    <3>1. Done' = Done
      BY <2>3 DEF vars, Done, screen
    <3> QED
      BY <3>1 DEF Hidden, Alike
  <2> QED
    BY <1>2, <2>1, <2>2, <2>3, CallsSeen, StepsHidden, TickHidden DEF Next, Process
<1> QED
  BY <1>1, <1>2, Invariant, PTL DEF Spec, ImplementsDisplay, Promised!Spec

=============================================================================
