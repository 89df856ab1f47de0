--------------------------- MODULE Keyboard_proofs --------------------------
(***************************************************************************)
(* What the keyboard promises whatever is typed, for buffers of any size:  *)
(* the E0 flag is about the next byte, and nothing is left behind once the *)
(* interrupt has been masked.                                              *)
(***************************************************************************)
EXTENDS Keyboard, TLAPS

\* The bytes a keyboard can have sent, whatever was read of them: after each E0 the byte that
\* it announces.
Announced(w) ==
    /\ w # <<>> => w[Len(w)] # E0
    /\ \A i \in 2 .. Len(w) : w[i] \in Seconds <=> w[i - 1] = E0

WireInv ==
    /\ wire \in Seq(Scancodes)
    /\ Announced(wire)
    /\ e0_prefix \in BOOLEAN
    /\ PrefixInStep

\* A stroke is sent after what waits in the controller.
LEMMA TypeStep ==
    ASSUME WireInv, NEW stroke \in Strokes, type(stroke)
    PROVE  WireInv'
<1>1. stroke \in Seq(Scancodes) /\ stroke # <<>> /\ Announced(stroke) /\ stroke[1] \notin Seconds
  BY StrokesAssumption DEF Announced
<1>2. wire \in Seq(Scancodes) /\ Announced(wire) /\ wire' = wire \o stroke /\ e0_prefix' = e0_prefix
  BY DEF WireInv, type, hvars
<1>3. wire' \in Seq(Scancodes) /\ Len(wire') = Len(wire) + Len(stroke) /\ Len(stroke) > 0 /\ wire' # <<>>
  BY <1>1, <1>2
<1>4. Announced(wire')
  <2>1. wire'[Len(wire')] = stroke[Len(stroke)]
    BY <1>1, <1>2, <1>3
  <2>2. ASSUME NEW i \in 2 .. Len(wire') PROVE wire'[i] \in Seconds <=> wire'[i - 1] = E0
    <3>1. CASE i <= Len(wire)
      BY <3>1, <1>1, <1>2 DEF Announced
    <3>2. CASE i = Len(wire) + 1
      <4>1. wire'[i] = stroke[1] /\ wire'[i - 1] = wire[Len(wire)] /\ wire # <<>>
        BY <3>2, <2>2, <1>1, <1>2, <1>3
      <4> QED
        BY <4>1, <1>1, <1>2 DEF Announced
    <3>3. CASE i > Len(wire) + 1
      <4>1. i - Len(wire) \in 2 .. Len(stroke)
        BY <3>3, <2>2, <1>1, <1>2, <1>3
      <4>2. wire'[i] = stroke[i - Len(wire)] /\ wire'[i - 1] = stroke[(i - Len(wire)) - 1]
        BY <3>3, <2>2, <1>1, <1>2, <1>3
      <4> QED
        BY <4>1, <4>2, <1>1 DEF Announced
    <3> QED
      BY <3>1, <3>2, <3>3, <1>2, <2>2
  <2> QED
    BY <2>1, <2>2, <1>1 DEF Announced
<1>5. Head(wire') = IF wire = <<>> THEN stroke[1] ELSE Head(wire)
  BY <1>1, <1>2, <1>3
<1> QED
  BY <1>1, <1>2, <1>3, <1>4, <1>5 DEF WireInv, PrefixInStep

\* The handler takes the first byte; what it remembers is about the second.
LEMMA HandlerStep ==
    ASSUME WireInv, keyboard_handler
    PROVE  WireInv'
<1> DEFINE s == Head(wire)
<1>1. wire \in Seq(Scancodes) /\ wire # <<>> /\ Announced(wire) /\ wire' = Tail(wire)
  BY DEF WireInv, keyboard_handler
<1>2. /\ wire' \in Seq(Scancodes) /\ Len(wire') = Len(wire) - 1 /\ Len(wire) > 0
      /\ \A i \in 1 .. Len(wire') : wire'[i] = wire[i + 1]
      /\ s = wire[1]
  BY <1>1
<1>3. Announced(wire')
  BY <1>1, <1>2 DEF Announced
<1>4. wire' # <<>> => Head(wire') = wire[2] /\ (wire[2] \in Seconds <=> s = E0)
  BY <1>1, <1>2 DEF Announced
<1>5. s = E0 => wire' # <<>>
  <2>1. CASE Len(wire) = 1
    BY <2>1, <1>1, <1>2 DEF Announced
  <2>2. CASE Len(wire) > 1
    <3>1. Len(wire') > 0
      BY <2>2, <1>2
    <3> QED
      BY <3>1
  <2> QED
    BY <2>1, <2>2, <1>2
<1>6. e0_prefix' = (s = E0)
  <2>1. CASE prefix_byte(s)
    BY <2>1 DEF prefix_byte
  <2>2. CASE second_byte(s)
    BY <2>2 DEF second_byte
  <2>3. CASE modifier_byte(s)
    BY <2>3, StrokesAssumption DEF modifier_byte, E0, SHIFT, UNSHIFT, RELEASE, WireInv
  <2>4. CASE key_byte(s)
    <3>1. s # E0
      BY <2>4, StrokesAssumption DEF key_byte
    <3>2. e0_prefix = FALSE /\ e0_prefix' = e0_prefix
      BY <2>4 DEF key_byte, WireInv
    <3> QED
      BY <3>1, <3>2
  <2> QED
    BY <2>1, <2>2, <2>3, <2>4 DEF keyboard_handler
<1> QED
  BY <1>2, <1>3, <1>4, <1>5, <1>6 DEF WireInv, PrefixInStep

\* In every behaviour, with the interrupt masked and unmasked at any time between two bytes,
\* the flag that keyboard_handler keeps is set exactly when the next byte is a second one.
THEOREM PrefixCorrect == Spec => []PrefixInStep
<1>1. Init => WireInv
  <2> SUFFICES ASSUME Init PROVE WireInv
    OBVIOUS
  <2>1. wire = <<>> /\ Len(wire) = 0 /\ wire \in Seq(Scancodes) /\ e0_prefix = FALSE
    BY DEF Init
  <2>2. Announced(wire)
    BY <2>1 DEF Announced
  <2>3. PrefixInStep
    BY <2>1 DEF PrefixInStep
  <2> QED
    BY <2>1, <2>2, <2>3 DEF WireInv
<1>2. WireInv /\ [Next]_vars => WireInv'
  <2> SUFFICES ASSUME WireInv, [Next]_vars PROVE WireInv'
    OBVIOUS
  <2>1. ASSUME NEW stroke \in Strokes, type(stroke) PROVE WireInv'
    BY <2>1, TypeStep
  <2>2. CASE keyboard_handler
    BY <2>2, HandlerStep
  <2>3. ASSUME UNCHANGED <<wire, e0_prefix>> PROVE WireInv'
    BY <2>3 DEF WireInv, Announced, PrefixInStep
  <2>4. CASE Reader
    BY <2>4, <2>3 DEF Reader, clear_head, clear_tail, unmask, mask, kgetch_empty, kgetch_read,
                      kgetch_advance, Reading
  <2>5. CASE \E f \in Calls : enter(f)
    BY <2>5, <2>3 DEF enter, Reading
  <2>6. CASE UNCHANGED vars
    BY <2>6, <2>3 DEF vars, hvars
  <2> QED
    BY <2>1, <2>2, <2>4, <2>5, <2>6 DEF Next
<1>3. WireInv => PrefixInStep
  BY DEF WireInv
<1> QED
  BY <1>1, <1>2, <1>3, PTL DEF Spec

-----------------------------------------------------------------------------
LEMMA IndicesInRange ==
    /\ 0 \in 0 .. Size - 1 /\ 0 \in Cells /\ Size - 1 < Bytes
    /\ \A i \in Int : (i + 1) % Size \in 0 .. Size - 1 /\ (i + 1) % Bytes \in Cells
    /\ 0 .. Size - 1 \subseteq Cells
<1>1. Bytes \in Nat /\ Bytes >= Size
  <2>1. Size \in Nat /\ Size >= 2 /\ CellBytes \in Nat /\ CellBytes >= 1
    BY KeyboardAssumption
  <2>2. Size * CellBytes >= Size * 1 /\ Size * CellBytes \in Nat
    BY <2>1
  <2> QED
    BY <2>1, <2>2 DEF Bytes
<1> QED
  BY <1>1, KeyboardAssumption DEF Cells

\* A call that still reads has a character to return.
TypeInv ==
    /\ TypeOK
    /\ pc \in {"open", "opening", "unmask", "poll", "advance"} => left >= 1

\* In every behaviour each index stays in what the array and the memory behind it are, each
\* cell holds a character or what it held at first, and the controller's bytes fit.
THEOREM TypeCorrect == Spec => []TypeOK
<1>1. Init => TypeInv
  <2> SUFFICES ASSUME Init PROVE TypeInv
    OBVIOUS
  <2>1. wire = <<>> /\ Len(wire) = 0 /\ wire \in Seq(Scancodes)
    BY DEF Init
  <2>2. buffer \in [Cells -> Chars \cup {NOKEY}]
    BY DEF Init
  <2>3. {shift_down, e0_prefix, masked} \subseteq BOOLEAN /\ {c, ret} \subseteq Chars \cup {NOKEY}
    BY DEF Init
  <2>4. left \in 0 .. ReadSize /\ WireMax \in Nat
    BY KeyboardAssumption DEF Init
  <2> QED
    BY <2>1, <2>2, <2>3, <2>4, IndicesInRange DEF Init, TypeOK, TypeInv, Calls
<1>2. TypeInv /\ [Next]_vars => TypeInv'
  <2> SUFFICES ASSUME TypeInv, [Next]_vars PROVE TypeInv'
    OBVIOUS
  <2> USE DEF TypeInv
  <2>1. ASSUME NEW stroke \in Strokes, type(stroke) PROVE TypeInv'
    <3>1. wire' = wire \o stroke /\ stroke \in Seq(Scancodes) /\ Len(wire) + Len(stroke) <= WireMax
      BY <2>1, StrokesAssumption DEF type
    <3>2. wire' \in Seq(Scancodes) /\ Len(wire') <= WireMax
      BY <3>1 DEF TypeOK
    <3> QED
      BY <2>1, <3>2 DEF TypeOK, type, hvars, rvars
  <2>2. CASE keyboard_handler
    <3>1. wire \in Seq(Scancodes) /\ wire # <<>> /\ wire' = Tail(wire)
      BY <2>2 DEF TypeOK, keyboard_handler
    <3>2. wire' \in Seq(Scancodes) /\ Len(wire') <= WireMax
      BY <3>1, KeyboardAssumption DEF TypeOK
    <3>3. /\ buffer' \in [Cells -> Chars \cup {NOKEY}] /\ buffer_tail' \in Cells
          /\ {shift_down', e0_prefix'} \subseteq BOOLEAN
      <4>1. CASE prefix_byte(Head(wire)) \/ modifier_byte(Head(wire))
        BY <4>1 DEF TypeOK, prefix_byte, modifier_byte
      <4>2. CASE second_byte(Head(wire))
        <5>1. e0_prefix' = FALSE /\ shift_down' = shift_down
          BY <4>2 DEF second_byte
        <5>2. CASE Head(wire) = ARROW
          <6>1. /\ buffer' = [buffer EXCEPT ![buffer_tail] = <<ARROW>>]
                /\ buffer_tail' = (buffer_tail + 1) % Bytes
            BY <5>2, <4>2 DEF second_byte
          <6>2. <<ARROW>> \in Chars /\ buffer_tail \in Int
            BY DEF TypeOK, Chars, Cells
          <6> QED
            BY <5>1, <6>1, <6>2, IndicesInRange DEF TypeOK
        <5>3. CASE Head(wire) # ARROW
          BY <5>1, <5>3, <4>2 DEF TypeOK, second_byte
        <5> QED
          BY <5>2, <5>3
      <4>3. CASE key_byte(Head(wire))
        BY <4>3, IndicesInRange DEF TypeOK, key_byte, Chars, next_tail, Cells
      <4> QED
        BY <2>2, <4>1, <4>2, <4>3 DEF keyboard_handler
    <3> QED
      BY <2>2, <3>2, <3>3 DEF TypeOK, keyboard_handler, rvars
  <2>3. ASSUME NEW f \in Calls, enter(f) PROVE TypeInv'
    <3>1. pc' \in {"poll", "mask", "open"}
      BY <2>3, Zenon DEF enter
    <3>2. left' \in 1 .. ReadSize /\ call' \in Calls
      <4>1. left' = IF f = "read" THEN ReadSize ELSE 1
        BY <2>3, Zenon DEF enter
      <4>2. call' = f
        BY <2>3, Zenon DEF enter
      <4> QED
        BY <4>1, <4>2, KeyboardAssumption
    <3>3. UNCHANGED <<buffer_head, masked, c, ret, buffer, buffer_tail, shift_down, e0_prefix, wire>>
      BY <2>3, Zenon DEF enter, Reading
    <3> QED
      BY <3>1, <3>2, <3>3 DEF TypeOK
  <2>4. CASE clear_head
    BY <2>4, IndicesInRange DEF TypeOK, clear_head, Reading
  <2>5. CASE clear_tail
    BY <2>5, IndicesInRange DEF TypeOK, clear_tail
  <2>6. CASE unmask
    BY <2>6 DEF TypeOK, unmask, Reading
  <2>7. CASE mask
    BY <2>7 DEF TypeOK, mask, Reading
  <2>8. CASE kgetch_empty
    BY <2>8 DEF TypeOK, kgetch_empty, Reading
  <2>9. CASE kgetch_read
    <3>1. buffer_head \in Cells
      BY IndicesInRange DEF TypeOK
    <3> QED
      BY <2>9, <3>1 DEF TypeOK, kgetch_read, Reading
  <2>10. CASE kgetch_advance
    <3>1. buffer_head' \in 0 .. Size - 1
      BY <2>10, IndicesInRange DEF TypeOK, kgetch_advance
    <3>2. left \in 1 .. ReadSize /\ left' = Remaining /\ Remaining \in {left, left - 1}
      <4>1. left \in 1 .. ReadSize
        BY <2>10, KeyboardAssumption DEF TypeOK, kgetch_advance
      <4>2. left' = Remaining
        BY <2>10 DEF kgetch_advance
      <4>3. Remaining \in {left, left - 1}
        BY DEF Remaining
      <4> QED
        BY <4>1, <4>2, <4>3
    <3>3. /\ pc' \in {"ready", "poll", "mask"} /\ (pc' = "poll" => left' > 0)
          /\ ret' = c /\ UNCHANGED <<masked, call, c>> /\ Reading
      BY <2>10, <3>2 DEF kgetch_advance
    <3>4. left' \in 0 .. ReadSize /\ (pc' = "poll" => left' >= 1)
      BY <3>2, <3>3, KeyboardAssumption
    <3>5. UNCHANGED <<buffer, buffer_tail, shift_down, e0_prefix, wire, masked, call, c>>
      BY <3>3 DEF Reading
    <3> HIDE DEF TypeInv
    <3>6. TypeOK /\ ret' = c
      BY <3>3 DEF TypeInv
    <3>7. TypeOK'
      BY <3>1, <3>3, <3>4, <3>5, <3>6 DEF TypeOK
    <3> QED
      BY <3>3, <3>4, <3>7 DEF TypeInv
  <2>11. CASE UNCHANGED vars
    BY <2>11 DEF TypeOK, vars, hvars, rvars
  <2> QED
    BY <2>1, <2>2, <2>3, <2>4, <2>5, <2>6, <2>7, <2>8, <2>9, <2>10, <2>11 DEF Next, Reader
<1>3. TypeInv => TypeOK
  BY DEF TypeInv
<1> QED
  BY <1>1, <1>2, <1>3, PTL DEF Spec

-----------------------------------------------------------------------------
\* QuietWhenMasked with what leads to it: mask_keyboard clears the buffer behind the mask.
QuietInv ==
    /\ pc \in {"close", "closing"} => masked
    /\ pc = "closing" => buffer_head = 0
    /\ QuietWhenMasked

\* In every behaviour, once mask_keyboard, getchar or read has returned no interrupt comes
\* and the buffer is empty.
THEOREM QuietCorrect == Spec => []QuietWhenMasked
<1>1. Init => QuietInv
  BY DEF Init, QuietInv, QuietWhenMasked, is_buffer_empty
<1>2. QuietInv /\ [Next]_vars => QuietInv'
  <2> SUFFICES ASSUME QuietInv, [Next]_vars PROVE QuietInv'
    OBVIOUS
  <2> USE DEF QuietInv, QuietWhenMasked, is_buffer_empty
  <2>1. ASSUME NEW stroke \in Strokes, type(stroke) PROVE QuietInv'
    BY <2>1 DEF type, hvars, rvars
  <2>2. CASE keyboard_handler
    BY <2>2 DEF keyboard_handler, rvars
  <2>3. ASSUME NEW f \in Calls, enter(f) PROVE QuietInv'
    BY <2>3 DEF enter, Reading
  <2>4. CASE clear_head
    BY <2>4 DEF clear_head, Reading
  <2>5. CASE clear_tail
    BY <2>5 DEF clear_tail
  <2>6. CASE unmask
    BY <2>6 DEF unmask, Reading
  <2>7. CASE mask
    BY <2>7 DEF mask, Reading
  <2>8. CASE kgetch_empty \/ kgetch_read
    BY <2>8 DEF kgetch_empty, kgetch_read, Reading
  <2>9. CASE kgetch_advance
    BY <2>9 DEF kgetch_advance, Reading
  <2>10. CASE UNCHANGED vars
    BY <2>10 DEF vars, hvars, rvars
  <2> QED
    BY <2>1, <2>2, <2>3, <2>4, <2>5, <2>6, <2>7, <2>8, <2>9, <2>10 DEF Next, Reader
<1>3. QuietInv => QuietWhenMasked
  BY DEF QuietInv
<1> QED
  BY <1>1, <1>2, <1>3, PTL DEF Spec

-----------------------------------------------------------------------------
(***************************************************************************)
(* The ring is a queue.  Arrows that find the buffer full, or the end of   *)
(* the array, are left out: see ArrowsFit.                                 *)
(***************************************************************************)
LEMMA Wraps ==
    ASSUME NEW x \in Int, 0 - Size < x, x < 2 * Size
    PROVE  x % Size = IF x < 0 THEN x + Size ELSE IF x < Size THEN x ELSE x - Size
<1>1. Size \in Nat /\ Size > 0
  BY KeyboardAssumption
<1>2. CASE x < 0
  <2>1. x % Size = x + Size
    BY <1>1, <1>2, SMT
  <2> QED
    BY <2>1, <1>2
<1>3. CASE 0 <= x /\ x < Size
  BY <1>1, <1>3
<1>4. CASE Size <= x
  <2>1. x % Size = x - Size
    BY <1>1, <1>4, SMT
  <2> QED
    BY <2>1, <1>4, <1>1
<1> QED
  BY <1>1, <1>2, <1>3, <1>4

\* Contents, of any array and indices.
Ring(b, h, t) == [i \in 1 .. (t - h) % Size |-> b[(h + i - 1) % Size]]

Arrays == [Cells -> Chars \cup {NOKEY}]

LEMMA RingType ==
    ASSUME NEW b \in Arrays, NEW h \in 0 .. Size - 1, NEW t \in 0 .. Size - 1
    PROVE  /\ (t - h) % Size \in 0 .. Size - 1
           /\ Ring(b, h, t) \in Seq(Chars \cup {NOKEY})
           /\ Len(Ring(b, h, t)) = (t - h) % Size
           /\ (t - h) % Size = 0 <=> t = h
<1>1. Size \in Nat /\ Size > 0
  BY KeyboardAssumption
<1>2. (t - h) % Size \in 0 .. Size - 1 /\ ((t - h) % Size = 0 <=> t = h)
  BY <1>1, Wraps
<1>3. \A i \in 1 .. (t - h) % Size : (h + i - 1) % Size \in Cells
  BY <1>1, <1>2, Wraps, IndicesInRange
<1>4. Ring(b, h, t) \in [1 .. (t - h) % Size -> Chars \cup {NOKEY}]
  BY <1>3 DEF Ring, Arrays
<1> QED
  BY <1>2, <1>4

LEMMA RingEmpty == ASSUME NEW b \in Arrays PROVE Ring(b, 0, 0) = <<>>
<1>1. 0 \in 0 .. Size - 1
  BY KeyboardAssumption
<1>2. Ring(b, 0, 0) \in Seq(Chars \cup {NOKEY}) /\ Len(Ring(b, 0, 0)) = 0
  BY <1>1, RingType
<1>3. ASSUME NEW q \in Seq(Chars \cup {NOKEY}), Len(q) = 0 PROVE q = <<>>
  BY <1>3
<1> QED
  BY <1>2, <1>3

LEMMA SequenceAsFunction ==
    ASSUME NEW S, NEW s \in Seq(S)
    PROVE  s = [i \in 1 .. Len(s) |-> s[i]]
  OBVIOUS

\* A value put at the tail comes last.
LEMMA RingPut ==
    ASSUME NEW b \in Arrays, NEW h \in 0 .. Size - 1, NEW t \in 0 .. Size - 1,
           NEW v \in Chars, (t + 1) % Size # h
    PROVE  /\ Len(Ring(b, h, t)) < Size - 1
           /\ Ring([b EXCEPT ![t] = v], h, (t + 1) % Size) = Append(Ring(b, h, t), v)
<1> DEFINE n == (t - h) % Size
           u == (t + 1) % Size
           d == [b EXCEPT ![t] = v]
<1>1. Size \in Nat /\ Size > 0
  BY KeyboardAssumption
<1>2. t + 1 < 2 * Size /\ u = IF t + 1 < Size THEN t + 1 ELSE 0
  BY <1>1, Wraps
<1>3. n = IF t - h < 0 THEN t - h + Size ELSE t - h
  BY <1>1, Wraps
<1>4. u \in 0 .. Size - 1
  BY <1>1, <1>2
<1>5. (u - h) % Size = IF u - h < 0 THEN u - h + Size ELSE u - h
  BY <1>1, <1>4, Wraps
<1>6. (u - h) % Size = n + 1 /\ n \in 0 .. Size - 2
  <2> HIDE DEF n, u
  <2>1. u # h
    BY DEF u
  <2> QED
    BY <1>1, <1>2, <1>3, <1>5, <2>1
<1>7. Ring(b, h, t) \in Seq(Chars \cup {NOKEY}) /\ Len(Ring(b, h, t)) = n
  BY RingType
<1>8. \A i \in 1 .. n + 1 : (h + i - 1) % Size = IF h + i - 1 < Size THEN h + i - 1 ELSE h + i - 1 - Size
  BY <1>1, <1>6, Wraps
<1>9. /\ (h + (n + 1) - 1) % Size = t
      /\ \A i \in 1 .. n : (h + i - 1) % Size # t /\ (h + i - 1) % Size \in Cells
  <2> HIDE DEF n
  <2>1. (h + (n + 1) - 1) % Size = t
    BY <1>1, <1>3, <1>6, <1>8
  <2>2. ASSUME NEW i \in 1 .. n PROVE (h + i - 1) % Size # t /\ (h + i - 1) % Size \in Cells
    <3>1. (h + i - 1) % Size = IF h + i - 1 < Size THEN h + i - 1 ELSE h + i - 1 - Size
      <4>1. n \in Nat
        BY <1>6
      <4>2. i \in 1 .. n + 1
        BY <4>1
      <4> QED
        BY <4>2, <1>8
    <3> DEFINE k == (h + i - 1) % Size
    <3> HIDE DEF k
    <3>2. k = IF h + i - 1 < Size THEN h + i - 1 ELSE h + i - 1 - Size
      BY <3>1 DEF k
    <3>3. k \in 0 .. Size - 1 /\ k # t
      <4>1. n \in Nat /\ n <= Size - 2 /\ i \in Nat /\ 1 <= i /\ i <= n
        BY <1>1, <1>6
      <4> QED
        BY <1>1, <1>3, <3>2, <4>1
    <3> QED
      BY <3>3, IndicesInRange DEF k
  <2> QED
    BY <2>1, <2>2
<1>10. t \in Cells /\ d \in [Cells -> Chars \cup {NOKEY}]
  BY IndicesInRange DEF Arrays
<1>11. ASSUME NEW i \in 1 .. n + 1
       PROVE  d[(h + i - 1) % Size] = Append(Ring(b, h, t), v)[i]
  <2>1. CASE i = n + 1
    <3>1. d[t] = v
      BY <1>10 DEF Arrays
    <3> HIDE DEF n, d
    <3> QED
      BY <2>1, <3>1, <1>6, <1>7, <1>9
  <2>2. CASE i \in 1 .. n
    <3>1. d[(h + i - 1) % Size] = b[(h + i - 1) % Size]
      BY <1>9, <2>2 DEF Arrays
    <3>2. Ring(b, h, t)[i] = b[(h + i - 1) % Size]
      BY <2>2 DEF Ring
    <3> HIDE DEF n, d
    <3>3. Append(Ring(b, h, t), v)[i] = Ring(b, h, t)[i]
      BY <2>2, <1>6, <1>7
    <3> QED
      BY <3>1, <3>2, <3>3
  <2>3. n \in Nat
    BY <1>6
  <2>4. i = n + 1 \/ i \in 1 .. n
    <3> HIDE DEF n
    <3> QED
      BY <2>3
  <2> QED
    BY <2>1, <2>2, <2>4
<1>12. Ring(d, h, u) = [i \in 1 .. n + 1 |-> d[(h + i - 1) % Size]]
  BY <1>6 DEF Ring
<1>13. Append(Ring(b, h, t), v) = [i \in 1 .. n + 1 |-> Append(Ring(b, h, t), v)[i]]
  <2>1. n \in Nat
    BY <1>6
  <2> HIDE DEF n
  <2>2. Append(Ring(b, h, t), v) \in Seq(Chars \cup {NOKEY}) /\ Len(Append(Ring(b, h, t), v)) = n + 1
    BY <1>7, <2>1
  <2> QED
    BY <2>2, SequenceAsFunction
<1>14. Ring(d, h, u) = Append(Ring(b, h, t), v)
  <2> HIDE DEF n, d, u
  <2> QED
    BY <1>11, <1>12, <1>13, Zenon
<1>15. Len(Ring(b, h, t)) < Size - 1
  <2> HIDE DEF n
  <2> QED
    BY <1>1, <1>6, <1>7
<1> QED
  BY <1>14, <1>15

\* The value at the head is the first; without it the ring begins at the next cell.
LEMMA RingGet ==
    ASSUME NEW b \in Arrays, NEW h \in 0 .. Size - 1, NEW t \in 0 .. Size - 1, h # t
    PROVE  /\ Ring(b, h, t) # <<>>
           /\ Head(Ring(b, h, t)) = b[h]
           /\ Ring(b, (h + 1) % Size, t) = Tail(Ring(b, h, t))
<1> DEFINE n == (t - h) % Size
           g == (h + 1) % Size
           q == Ring(b, h, t)
<1>1. Size \in Nat /\ Size > 0
  BY KeyboardAssumption
<1>2. q \in Seq(Chars \cup {NOKEY}) /\ Len(q) = n /\ n \in 1 .. Size - 1
  <2>1. q \in Seq(Chars \cup {NOKEY}) /\ Len(q) = n /\ n \in 0 .. Size - 1 /\ n # 0
    BY RingType
  <2> HIDE DEF n, q
  <2> QED
    BY <2>1
<1>3. g = IF h + 1 < Size THEN h + 1 ELSE 0
  BY <1>1, Wraps
<1>4. n = IF t - h < 0 THEN t - h + Size ELSE t - h
  BY <1>1, Wraps
<1>5. g \in 0 .. Size - 1
  BY <1>1, <1>3
<1>6. (t - g) % Size = n - 1
  <2>1. (t - g) % Size = IF t - g < 0 THEN t - g + Size ELSE t - g
    BY <1>1, <1>5, Wraps
  <2> HIDE DEF n, g
  <2> QED
    BY <2>1, <1>1, <1>2, <1>3, <1>4
<1>7. q[1] = b[h]
  <2>1. (h + 1 - 1) % Size = h
    BY <1>1, Wraps
  <2>2. 1 \in 1 .. n
    <3> HIDE DEF n
    <3> QED
      BY <1>2
  <2> QED
    BY <2>1, <2>2 DEF Ring
<1>8. ASSUME NEW i \in 1 .. n - 1 PROVE Tail(q)[i] = b[(g + i - 1) % Size]
  <2>1. i + 1 \in 1 .. n
    <3> HIDE DEF n
    <3> QED
      BY <1>2
  <2>2. q[i + 1] = b[(h + (i + 1) - 1) % Size]
    BY <2>1 DEF Ring
  <2> HIDE DEF q, n, g
  <2>3. Tail(q)[i] = q[i + 1]
    BY <1>2
  <2>4. (h + (i + 1) - 1) % Size = (g + i - 1) % Size
    <3>1. i \in 1 .. Size - 2
      BY <1>2, <1>1
    <3>2. (h + (i + 1) - 1) % Size = IF h + i < Size THEN h + i ELSE h + i - Size
      BY <1>1, <3>1, Wraps
    <3>3. (g + i - 1) % Size = IF g + i - 1 < Size THEN g + i - 1 ELSE g + i - 1 - Size
      BY <1>1, <1>5, <3>1, Wraps
    <3> QED
      BY <1>1, <1>3, <3>1, <3>2, <3>3
  <2> QED
    BY <2>2, <2>3, <2>4
<1>9. Ring(b, g, t) = [i \in 1 .. n - 1 |-> b[(g + i - 1) % Size]]
  BY <1>6 DEF Ring
<1> HIDE DEF q, n, g
<1>10. Tail(q) = [i \in 1 .. n - 1 |-> Tail(q)[i]]
  <2>1. Tail(q) \in Seq(Chars \cup {NOKEY}) /\ Len(Tail(q)) = n - 1
    BY <1>2
  <2> QED
    BY <2>1, SequenceAsFunction
<1>11. Ring(b, g, t) = Tail(q)
  BY <1>8, <1>9, <1>10, Zenon
<1> QED
  BY <1>2, <1>7, <1>11 DEF q, g

\* What the ring's indices are between the steps of a reader: the head is at the start of the
\* array between the two assignments of a clear, and the cell that kgetch has read stays as it
\* is, still the first, until kgetch moves the head.
FifoInv ==
    /\ TypeOK
    /\ buffer_tail \in 0 .. Size - 1
    /\ pc \in {"opening", "closing"} => buffer_head = 0
    /\ pc = "advance" => buffer_head # buffer_tail /\ c = buffer[buffer_head]

Queue == IF pc \in {"opening", "closing"} THEN <<>> ELSE Ring(buffer, buffer_head, buffer_tail)

\* The handler stores at the tail or leaves the ring as it is.
HandlerStores ==
    \/ UNCHANGED <<buffer, buffer_tail>>
    \/ \E v \in Chars :
          /\ (buffer_tail + 1) % Size # buffer_head
          /\ buffer' = [buffer EXCEPT ![buffer_tail] = v]
          /\ buffer_tail' = (buffer_tail + 1) % Size

LEMMA Stores ==
    ASSUME FifoInv, keyboard_handler, ArrowsFit
    PROVE  HandlerStores
<1> DEFINE s == Head(wire)
<1>1. CASE prefix_byte(s) \/ modifier_byte(s)
  BY <1>1 DEF prefix_byte, modifier_byte, HandlerStores
<1>2. CASE second_byte(s)
  <2>1. CASE s # ARROW
    BY <1>2, <2>1 DEF second_byte, HandlerStores
  <2>2. CASE s = ARROW
    <3>1. buffer' = [buffer EXCEPT ![buffer_tail] = <<ARROW>>] /\ buffer_tail' = (buffer_tail + 1) % Bytes
      BY <1>2, <2>2 DEF second_byte
    <3>2. buffer_tail < Size - 1 /\ (buffer_tail + 1) % Size # buffer_head
      BY <1>2, <2>2 DEF ArrowsFit, BufferFull, next_tail, second_byte
    <3>3. buffer_tail \in Nat /\ Size \in Nat /\ Bytes \in Nat /\ Size <= Bytes
      <4>1. Size \in Nat /\ CellBytes \in Nat /\ CellBytes >= 1
        BY KeyboardAssumption
      <4>2. Size * CellBytes >= Size * 1 /\ Size * CellBytes \in Nat
        BY <4>1
      <4>3. buffer_tail \in Nat
        BY <4>1 DEF FifoInv
      <4> QED
        BY <4>1, <4>2, <4>3 DEF Bytes
    <3>4. (buffer_tail + 1) % Bytes = buffer_tail + 1 /\ (buffer_tail + 1) % Size = buffer_tail + 1
      BY <3>2, <3>3
    <3>5. <<ARROW>> \in Chars
      BY DEF Chars
    <3> QED
      BY <3>1, <3>2, <3>4, <3>5 DEF HandlerStores
  <2> QED
    BY <2>1, <2>2
<1>3. CASE key_byte(s)
  <2>1. CASE BufferFull
    BY <1>3, <2>1 DEF key_byte, HandlerStores
  <2>2. CASE ~ BufferFull
    <3>1. <<s, shift_down>> \in Chars
      BY <1>3 DEF key_byte, Chars, FifoInv, TypeOK
    <3>2. /\ (buffer_tail + 1) % Size # buffer_head
          /\ buffer' = [buffer EXCEPT ![buffer_tail] = <<s, shift_down>>]
          /\ buffer_tail' = (buffer_tail + 1) % Size
      BY <1>3, <2>2 DEF key_byte, BufferFull, next_tail
    <3> QED
      BY <3>1, <3>2 DEF HandlerStores
  <2> QED
    BY <2>1, <2>2
<1> QED
  BY <1>1, <1>2, <1>3 DEF keyboard_handler

\* The indices and the cell read stay as FifoInv says.
LEMMA FifoNext ==
    ASSUME FifoInv, TypeOK', Next /\ ArrowsFit
    PROVE  FifoInv'
<1> USE DEF FifoInv
<1>1. ASSUME UNCHANGED <<buffer, buffer_tail, buffer_head, c, pc>> PROVE FifoInv'
  BY <1>1
<1>2. ASSUME NEW stroke \in Strokes, type(stroke) PROVE FifoInv'
  BY <1>1, <1>2 DEF type, hvars, rvars
<1>3. ASSUME NEW f \in Calls, enter(f) PROVE FifoInv'
  <2>1. pc' \in {"poll", "mask", "open"}
    BY <1>3, Zenon DEF enter
  <2>2. buffer_tail' = buffer_tail
    BY <1>3 DEF enter, Reading
  <2> QED
    BY <2>1, <2>2
<1>4. CASE keyboard_handler
  <2>1. UNCHANGED <<buffer_head, pc, c>>
    BY <1>4 DEF keyboard_handler, rvars
  <2>2. HandlerStores
    BY <1>4, Stores
  <2>3. CASE UNCHANGED <<buffer, buffer_tail>>
    BY <1>1, <2>1, <2>3
  <2>4. ASSUME NEW v \in Chars, (buffer_tail + 1) % Size # buffer_head,
               buffer' = [buffer EXCEPT ![buffer_tail] = v],
               buffer_tail' = (buffer_tail + 1) % Size
        PROVE  FifoInv'
    <3>1. buffer_tail' \in 0 .. Size - 1
      BY <2>4, IndicesInRange
    <3>2. buffer_head # buffer_tail => buffer'[buffer_head] = buffer[buffer_head]
      BY <2>4, IndicesInRange DEF TypeOK
    <3> QED
      BY <2>1, <2>4, <3>1, <3>2
  <2> QED
    BY <2>2, <2>3, <2>4 DEF HandlerStores
<1>5. CASE clear_head
  BY <1>5 DEF clear_head, Reading
<1>6. CASE clear_tail
  BY <1>6, IndicesInRange DEF clear_tail
<1>7. CASE unmask \/ mask \/ kgetch_empty
  BY <1>7 DEF unmask, mask, kgetch_empty, Reading
<1>8. CASE kgetch_read
  BY <1>8 DEF kgetch_read, Reading, is_buffer_empty
<1>9. CASE kgetch_advance
  BY <1>9 DEF kgetch_advance, Reading
<1> QED
  BY <1>2, <1>3, <1>4, <1>5, <1>6, <1>7, <1>8, <1>9 DEF Next, Reader

\* Each step is a step of the queue, or leaves it as it is.
LEMMA FifoStep ==
    ASSUME FifoInv, FifoInv', Next /\ ArrowsFit
    PROVE  [F!FNext]_(F!fvars)
<1> DEFINE clearing == pc \in {"opening", "closing"}
<1>1. /\ F!fvars = <<Queue, ret, clearing>>
      /\ \A v : F!Put(v) <=> /\ Len(Queue) < Size - 1 /\ ~ clearing
                             /\ Queue' = Append(Queue, v) /\ ret' = ret /\ clearing' = clearing
  BY DEF F!fvars, F!Put, F!HasRoom, Queue, Contents, Ring
<1>2. /\ F!Get <=> /\ ~ clearing /\ Queue # <<>>
                   /\ ret' = Head(Queue) /\ Queue' = Tail(Queue) /\ clearing' = clearing
      /\ F!GetNone <=> /\ ~ clearing /\ Queue = <<>>
                       /\ ret' = NOKEY /\ Queue' = Queue /\ clearing' = clearing
  BY DEF F!Get, F!GetNone, Queue, Contents, Ring
<1>3. /\ F!Clear <=> ~ clearing /\ Queue' = <<>> /\ clearing' = TRUE /\ ret' = ret
      /\ F!Cleared <=> clearing /\ Queue' = <<>> /\ clearing' = FALSE /\ ret' = ret
  BY DEF F!Clear, F!Cleared, Queue, Contents, Ring
<1>4. /\ buffer \in Arrays /\ buffer_head \in 0 .. Size - 1 /\ buffer_tail \in 0 .. Size - 1
  BY DEF FifoInv, TypeOK, Arrays
<1>5. ASSUME UNCHANGED <<Queue, ret, clearing>> PROVE [F!FNext]_(F!fvars)
  BY <1>5 DEF F!fvars, Queue, Contents, Ring
<1>6. ASSUME UNCHANGED <<buffer, buffer_head, buffer_tail, ret>>, ~ clearing, ~ clearing'
      PROVE [F!FNext]_(F!fvars)
  BY <1>5, <1>6 DEF Queue
<1>7. ASSUME NEW stroke \in Strokes, type(stroke) PROVE [F!FNext]_(F!fvars)
  BY <1>5, <1>7 DEF type, hvars, rvars, Queue
<1>8. ASSUME NEW f \in Calls, enter(f) PROVE [F!FNext]_(F!fvars)
  <2>1. pc' \in {"poll", "mask", "open"} /\ pc = "ready"
    BY <1>8, Zenon DEF enter
  <2>2. UNCHANGED <<buffer, buffer_head, buffer_tail, ret>>
    BY <1>8 DEF enter, Reading
  <2> QED
    BY <1>6, <2>1, <2>2
<1>9. CASE keyboard_handler
  <2>1. UNCHANGED <<buffer_head, pc, ret>>
    BY <1>9 DEF keyboard_handler, rvars
  <2>2. HandlerStores
    BY <1>9, Stores
  <2>3. CASE UNCHANGED <<buffer, buffer_tail>> \/ clearing
    BY <1>5, <2>1, <2>3 DEF Queue
  <2>4. ASSUME ~ clearing,
               NEW v \in Chars, (buffer_tail + 1) % Size # buffer_head,
               buffer' = [buffer EXCEPT ![buffer_tail] = v],
               buffer_tail' = (buffer_tail + 1) % Size
        PROVE  [F!FNext]_(F!fvars)
    <3>1. Len(Queue) < Size - 1 /\ Queue' = Append(Queue, v)
      BY <1>4, <2>1, <2>4, RingPut DEF Queue
    <3>2. F!Put(v)
      BY <1>1, <2>1, <2>4, <3>1
    <3> QED
      BY <2>4, <3>2 DEF F!FNext
  <2> QED
    BY <2>2, <2>3, <2>4 DEF HandlerStores
<1>10. CASE clear_head
  <2>1. F!Clear
    BY <1>3, <1>10 DEF clear_head, Queue
  <2> QED
    BY <2>1 DEF F!FNext
<1>11. CASE clear_tail
  <2>1. buffer_head = 0 /\ buffer_head' = 0 /\ buffer_tail' = 0 /\ buffer' = buffer /\ ~ clearing' /\ clearing
    BY <1>11 DEF clear_tail, FifoInv
  <2>2. Queue' = <<>>
    <3>1. Ring(buffer, 0, 0) = <<>>
      BY <1>4, RingEmpty
    <3> QED
      BY <2>1, <3>1 DEF Queue
  <2>3. F!Cleared
    BY <1>3, <1>11, <2>1, <2>2 DEF clear_tail
  <2> QED
    BY <2>3 DEF F!FNext
<1>12. CASE unmask \/ mask \/ kgetch_read
  BY <1>6, <1>12 DEF unmask, mask, kgetch_read, Reading
<1>13. CASE kgetch_empty
  <2>1. Queue = <<>> /\ ~ clearing /\ Queue' = Queue /\ ~ clearing' /\ ret' = NOKEY
    <3>1. Len(Ring(buffer, buffer_head, buffer_tail)) = 0
          /\ Ring(buffer, buffer_head, buffer_tail) \in Seq(Chars \cup {NOKEY})
      BY <1>4, <1>13, RingType DEF kgetch_empty, is_buffer_empty
    <3> QED
      BY <1>13, <3>1 DEF kgetch_empty, Reading, Queue
  <2>2. F!GetNone
    BY <1>2, <2>1
  <2> QED
    BY <2>2 DEF F!FNext
<1>14. CASE kgetch_advance
  <2>1. /\ ~ clearing /\ ~ clearing' /\ buffer' = buffer /\ buffer_tail' = buffer_tail
        /\ buffer_head' = (buffer_head + 1) % Size /\ ret' = c
        /\ buffer_head # buffer_tail /\ c = buffer[buffer_head]
    BY <1>14 DEF kgetch_advance, Reading, FifoInv
  <2>2. Queue # <<>> /\ ret' = Head(Queue) /\ Queue' = Tail(Queue)
    BY <1>4, <2>1, RingGet DEF Queue
  <2>3. F!Get
    BY <1>2, <2>1, <2>2
  <2> QED
    BY <2>3 DEF F!FNext
<1> QED
  BY <1>7, <1>8, <1>9, <1>10, <1>11, <1>12, <1>13, <1>14 DEF Next, Reader

\* For a buffer of any size, however the steps of a reader and the interrupts interleave, the
\* ring is a FIFO queue of one cell less, as long as arrows arrive while they fit.
THEOREM FifoImplemented == FittingSpec => ImplementsFifo
<1>1. FittingSpec => Spec
  BY PTL DEF FittingSpec, Spec
<1>2. Init /\ TypeOK => FifoInv
  BY IndicesInRange DEF Init, FifoInv
<1>3. FifoInv /\ TypeOK' /\ [Next /\ ArrowsFit]_vars => FifoInv'
  <2>1. FifoInv /\ TypeOK' /\ UNCHANGED vars => FifoInv'
    BY DEF FifoInv, vars, hvars, rvars
  <2> QED
    BY <2>1, FifoNext
<1>4. Init => F!FInit
  <2> SUFFICES ASSUME Init PROVE F!FInit
    OBVIOUS
  <2>1. buffer \in Arrays
    BY DEF Init, Arrays
  <2>2. Ring(buffer, 0, 0) = <<>>
    BY <2>1, RingEmpty
  <2>3. Contents = Ring(buffer, 0, 0)
    BY DEF Contents, Ring, Init
  <2> QED
    BY <2>2, <2>3 DEF Init, F!FInit
<1>5. FifoInv /\ FifoInv' /\ [Next /\ ArrowsFit]_vars => [F!FNext]_(F!fvars)
  <2>1. UNCHANGED vars => UNCHANGED F!fvars
    BY DEF vars, hvars, rvars, F!fvars, Contents
  <2> QED
    BY <2>1, FifoStep
<1> QED
  BY <1>1, <1>2, <1>3, <1>4, <1>5, TypeCorrect, PTL DEF FittingSpec, ImplementsFifo, F!FSpec
=============================================================================
