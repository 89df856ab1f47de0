------------------------------ MODULE Numbers -------------------------------
(***************************************************************************)
(* Numbers in and out: the conversions of lib/doprnt.c and the end of      *)
(* lib/sprintf.c, lib/strtol.c, strtoul.c and atoi.c, and the long         *)
(* division of lib/div64.c.                                                *)
(*                                                                         *)
(* A text is the sequence of its characters' codes, without its NUL.  A    *)
(* conversion of a format is the record of its flags; how the format's     *)
(* text is read is left out.                                               *)
(***************************************************************************)
EXTENDS Integers, SequencesExt, FiniteSetsExt

CONSTANT WordBits       \* bits of an int and of a long (32)

ASSUME NumbersAssumption == WordBits \in Nat /\ WordBits >= 2

Words == 0 .. 2^WordBits - 1
Ints  == -(2^(WordBits - 1)) .. 2^(WordBits - 1) - 1

Unsigned(n) == n % 2^WordBits
Signed(n)   == LET u == Unsigned(n) IN IF u \in Ints THEN u ELSE u - 2^WordBits

BLANK == 32
PLUS  == 43
MINUS == 45
ZERO  == 48
UPPER_A == 65
UPPER_X == 88
LOWER_A == 97
LOWER_X == 120
Spaces == {BLANK} \cup 9 .. 13

Fill(c, n) == [i \in 1 .. Max({n, 0}) |-> c]

-----------------------------------------------------------------------------
(***************************************************************************)
(* Out.  A conversion has: conv, the letter; altfmt (#), ladjust (-),      *)
(* plus_sign (+, blank or 0 for none), padc, length and prec (-1 for none).*)
(***************************************************************************)
Digit(d) == IF d < 10 THEN ZERO + d ELSE LOWER_A + d - 10

digits(u, base) ==
    LET of[v \in Words] == IF v < base THEN <<Digit(v)>>
                           ELSE Append(of[v \div base], Digit(v % base))
    IN  of[u]

\* What is left of the width for padding.
Room(c, number, sign, prefix) ==
    c.length - Len(number) - Len(sign) - Len(prefix) - Max({c.prec - Len(number), 0})

print_num(c, base, sign, u) ==
    LET number == digits(u, base)
        prefix == CASE u = 0 \/ ~c.altfmt -> <<>>
                    [] base = 8  -> <<ZERO>>
                    [] base = 16 -> <<ZERO, LOWER_X>>
                    [] OTHER     -> <<>>
        room   == Room(c, number, sign, prefix)
    IN  (IF c.padc = BLANK /\ ~c.ladjust THEN Fill(BLANK, room) ELSE <<>>)
            \o sign \o prefix \o Fill(ZERO, c.prec - Len(number))
            \o (IF c.padc = ZERO THEN Fill(ZERO, room) ELSE <<>>)
            \o number
            \o (IF c.padc = BLANK /\ c.ladjust THEN Fill(BLANK, room) ELSE <<>>)

\* -n of the least int is itself, which is right once it is unsigned.
print_signed(c, base, n) ==
    IF n >= 0 THEN print_num(c, base, IF c.plus_sign = 0 THEN <<>> ELSE <<c.plus_sign>>, n)
    ELSE print_num(c, base, <<MINUS>>, Unsigned(-n))

Base(conv) == CASE conv \in {"o", "O"} -> 8
                [] conv \in {"d", "i", "D", "u", "U"} -> 10
                [] conv \in {"p", "x", "X", "z", "Z"} -> 16

\* What _doprnt puts for a conversion and its argument, a word.
doprnt_number(c, u) ==
    CASE c.conv \in {"d", "i", "D", "z", "Z"} -> print_signed(c, Base(c.conv), Signed(u))
      [] c.conv = "p" ->
            <<ZERO, LOWER_X>> \o print_num([c EXCEPT !.padc = ZERO, !.length = 8], 16, <<>>, u)
      [] OTHER -> print_num(c, Base(c.conv), <<>>, u)

\* The character over the precision is counted, although it is not put.
doprnt_string(c, text) ==
    LET shown   == IF c.prec = -1 THEN text ELSE SubSeq(text, 1, Min({c.prec, Len(text)}))
        counted == IF Len(shown) < Len(text) THEN Len(shown) + 1 ELSE Len(shown)
    IN  (IF c.ladjust THEN <<>> ELSE Fill(BLANK, c.length - Len(shown)))
            \o shown
            \o (IF c.ladjust THEN Fill(BLANK, c.length - counted) ELSE <<>>)

\* The memory with a text printed at s.  savechar drops what is beyond size; the NUL that
\* vsnprintf then writes is not counted in it.
vsnprintf(m, s, size, text) ==
    LET q == Min({size, Len(text)})
    IN  [i \in DOMAIN m |-> IF i \in s .. s + q - 1 THEN text[i - s + 1]
                            ELSE IF i = s + q THEN 0 ELSE m[i]]

-----------------------------------------------------------------------------
(***************************************************************************)
(* In.                                                                     *)
(***************************************************************************)
At(text, i) == IF i <= Len(text) THEN text[i] ELSE 0

isdigit(c) == c \in ZERO .. ZERO + 9
isspace(c) == c \in Spaces

\* The value of a character as a digit; bases are less than 37.
Value(c) == CASE isdigit(c) -> c - ZERO
              [] c \in LOWER_A .. LOWER_A + 25 -> c - LOWER_A + 10
              [] c \in UPPER_A .. UPPER_A + 25 -> c - UPPER_A + 10
              [] OTHER -> 37

SkipSpaces(text) == Min({i \in 1 .. Len(text) + 1 : ~isspace(At(text, i))})

HasPrefix(text, i, base) ==
    base \in {0, 16} /\ At(text, i) = ZERO /\ At(text, i + 1) \in {LOWER_X, UPPER_X}

Radix(text, i, base) ==
    CASE HasPrefix(text, i, base) -> 16
      [] base # 0 -> base
      [] At(text, i) = ZERO -> 8
      [] OTHER -> 10

\* The number from i on, modulo the word, and where it ends.
ReadDigits(text, i, base) ==
    LET radix == Radix(text, i, base)
        first == IF HasPrefix(text, i, base) THEN i + 2 ELSE i
        end   == Min({j \in first .. Max({Len(text), first - 1}) + 1 :
                         Value(At(text, j)) >= radix})
    IN  [value |-> FoldLeft(LAMBDA v, c : Unsigned(v * radix + Value(c)), 0,
                            SubSeq(text, first, end - 1)),
         out   |-> end]

strtoul(text, base) == ReadDigits(text, SkipSpaces(text), base)

\* A plus sign is recognised, but p stays on it.
strtol(text, base) ==
    LET p == SkipSpaces(text)
        negative == At(text, p) = MINUS
        read == ReadDigits(text, IF negative THEN p + 1 ELSE p, base)
    IN  [read EXCEPT !.value = Signed(IF negative THEN -@ ELSE @)]

\* base is the weight of the first digit, and an int: it wraps in a long text, and then every
\* weight after it is wrong.  Divisions round towards 0.
Tenth(n) == IF n >= 0 THEN n \div 10 ELSE -((-n) \div 10)

atoi(text) ==
    LET step(s, c) == [res  |-> Signed(s.res + (c - ZERO) * s.base), base |-> Tenth(s.base)]
        weight == FoldLeft(LAMBDA w, c : Signed(w * 10), 1, Tail(text))
    IN  IF \E i \in DOMAIN text : ~isdigit(text[i]) THEN -1
        ELSE FoldLeft(step, [res |-> 0, base |-> weight], text).res

-----------------------------------------------------------------------------
(***************************************************************************)
(* A double word divided by one, with the processor's division of a double *)
(* word by a word.  Dividing by 0, or a quotient of more than a word, is   *)
(* its exception 0.                                                        *)
(***************************************************************************)
Low(x)  == x % 2^WordBits
High(x) == x \div 2^WordBits

\* The number of bits of n, n > 0.
Bits(n) == Min({l \in 1 .. WordBits : n < 2^l})

\* Mutant: the quotient of the shifted numbers is taken as it is.
Corrected_Never(x, y, q) == q

\* The quotient of the shifted numbers is never too great, and is counted up.
Corrected(x, y, q) ==
    LET count[k \in q .. 2^WordBits] == IF x - y * k >= y THEN count[k + 1] ELSE k
    IN  count[q]

Overflow == -1

do_div64(x, y) ==
    LET l  == Bits(High(y))
        y0 == Low(y \div 2^l) + 1
        x_ == x \div 2^l
        q  == IF Low(y0) = 0 THEN Overflow ELSE Corrected(x, y, x_ \div y0)
    IN  CASE High(y) > 0 -> [quotient |-> q, rem |-> IF q = Overflow THEN 0 ELSE x - y * q]
          [] High(y) = 0 /\ High(x) < Low(y) ->
                [quotient |-> x \div Low(y), rem |-> x % Low(y)]
          [] Low(y) > 0 /\ High(x) >= Low(y) ->
                LET x2 == High(x) % Low(y)
                    low == x2 * 2^WordBits + Low(x)
                IN  [quotient |-> (High(x) \div Low(y)) * 2^WordBits + low \div Low(y),
                     rem |-> low % Low(y)]
          [] y = 0 -> [quotient |-> 0, rem |-> x]
=============================================================================
