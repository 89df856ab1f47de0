------------------------------ MODULE Library -------------------------------
(***************************************************************************)
(* A program's calls of the library's functions that only compute, lib/    *)
(* string.c and the conversions of numbers: each is one step that leaves   *)
(* in `call` what was asked and what came back.                            *)
(*                                                                         *)
(* The memory of a call holds a string at 0 and another one at Second,     *)
(* with something that is no NUL behind them.                              *)
(***************************************************************************)
EXTENDS Strings, Numbers

CONSTANTS
    Firsts, Seconds,        \* the strings at 0 and at Second
    Second, Bytes,          \* where the second is; bytes of the memory
    Formats,                \* the conversions of numbers
    Arguments,              \* the words converted
    Dividends, Divisors     \* double words

ASSUME LibraryAssumption ==
    /\ {Second, Bytes} \subseteq Nat
    /\ \A a \in Firsts : Len(a) < Second /\ NUL \notin ToSet(a)
    /\ \A b \in Seconds : Second + Len(b) < Bytes /\ NUL \notin ToSet(b)
    /\ Arguments \subseteq Words
    /\ Dividends \cup Divisors \subseteq 0 .. 4^WordBits - 1

VARIABLE call

JUNK == 9

\* The memory with the string a at 0 and b at Second.
Holding(a, b) ==
    [i \in 0 .. Bytes - 1 |->
        LET s == IF i < Second THEN a \o <<NUL>> ELSE b \o <<NUL>>
            k == IF i < Second THEN i + 1 ELSE i - Second + 1
        IN  IF k <= Len(s) THEN s[k] ELSE JUNK]

\* The string at an address.
Read(m, s) == [i \in 1 .. strlen(m, s) |-> m[s + i - 1]]

NoCall == [fn |-> "none"]

LibraryInit == call = NoCall

Returned(fn, a, b, n, ret) ==
    call' = [fn |-> fn, a |-> a, b |-> b, n |-> n, ret |-> ret]

Wrote(fn, a, b, n, mem, ret) ==
    call' = [fn |-> fn, a |-> a, b |-> b, n |-> n, mem |-> mem, ret |-> ret]

search(a, b) ==
    LET m == Holding(a, b)
    IN  \/ Returned("memmem", a, b, 0, memmem(m, 0, Len(a), Second, Len(b)))
        \/ Returned("strstr", a, b, 0, strstr(m, 0, Second))
        \/ Returned("strspn", a, b, 0, strspn(m, 0, Second))
        \/ Returned("strcspn", a, b, 0, strcspn(m, 0, Second))
        \/ Returned("strpbrk", a, b, 0, strpbrk(m, 0, Second))
        \/ Returned("strcmp", a, b, 0, strcmp(m, 0, Second))
        \/ \E n \in 0 .. 2 : Returned("strncmp", a, b, n, strncmp(m, 0, Second, n))
        \/ \E c \in ToSet(b) \cup {NUL} : Returned("memrchr", a, b, c, memrchr(m, 0, c, Second))
        \/ \E c \in ToSet(b) : Returned("strrchr", a, b, c, strrchr(m, 0, c))

\* Between any two places of the memory.
move(a, b) ==
    \E dst, src \in 0 .. Second - 2, n \in 1 .. Bytes - Second :
        Wrote("memmove", a, b, <<dst, src, n>>, memmove(Holding(a, b), dst, src, n), dst)

write(a, b) ==
    LET m == Holding(a, b)
    IN  \/ /\ Len(a) + Len(b) < Second
           /\ Wrote("strcat", a, b, 0, strcat(m, 0, Second), 0)
        \/ \E n \in 0 .. Second - 1 - Len(a) :
               Wrote("strncat", a, b, n, strncat(m, 0, Second, n), 0)
        \/ \E n \in 0 .. Second :
               LET r == strlcat(m, 0, Second, n) IN Wrote("strlcat", a, b, n, r.mem, r.ret)
        \/ \E n \in 0 .. Bytes - Second :
               \/ Wrote("strncpy", a, b, n, strncpy(m, 0, Second, n), 0)
               \/ Wrote("memswap", a, b, n, memswap(m, 0, Second, n), 0)
               \/ LET r == memccpy(m, 0, Second, NUL, n)
                  IN  Wrote("memccpy", a, b, n, r.mem, r.ret)

\* A text cut into tokens: the first call names it, the others NULL.
first_token(a, b) ==
    LET r == strtok(Holding(a, b), NULL, 0, Second)
    IN  call' = [fn |-> "strtok", a |-> a, b |-> b, mem |-> r.mem, holder |-> r.rest,
                 tokens |-> <<r.ret>>]

next_token ==
    /\ call.fn = "strtok" /\ Last(call.tokens) # NULL
    /\ LET r == strtok(call.mem, call.holder, NULL, Second)
       IN  call' = [call EXCEPT !.mem = r.mem, !.holder = r.rest, !.tokens = Append(@, r.ret)]

convert == \E c \in Formats, u \in Arguments :
    /\ c.conv # "s"
    /\ call' = [fn |-> "doprnt", format |-> c, word |-> u, text |-> doprnt_number(c, u)]

\* snprintf of a text, into an array at Second.
print_text == \E c \in Formats, a \in Firsts, size \in 0 .. Bytes - Second - 1 :
    /\ c.conv = "s"
    /\ call' = [fn |-> "snprintf", format |-> c, a |-> a, size |-> size,
                mem |-> vsnprintf(Holding(a, <<>>), Second, size, doprnt_string(c, a))]

divide == \E x \in Dividends, y \in Divisors :
    call' = [fn |-> "do_div64", x |-> x, y |-> y, ret |-> do_div64(x, y)]

compute ==
    \/ /\ call = NoCall
       /\ \/ \E a \in Firsts, b \in Seconds : \/ search(a, b) \/ move(a, b) \/ write(a, b)
                                              \/ first_token(a, b)
          \/ convert
          \/ print_text
          \/ divide
    \/ next_token

-----------------------------------------------------------------------------
(***************************************************************************)
(* What the calls promise.                                                 *)
(***************************************************************************)
Prefix(s, n) == SubSeq(s, 1, Min({n, Len(s)}))

\* The places of a where b stands, from 0.
Places(a, b) == {i \in 0 .. Len(a) - Len(b) : SubSeq(a, i + 1, i + Len(b)) = b}

\* The length of the longest prefix of a of characters in a set.
Span(a, set) == Max({k \in 0 .. Len(a) : ToSet(SubSeq(a, 1, k)) \subseteq set})

Sign(n) == CASE n < 0 -> -1 [] n = 0 -> 0 [] n > 0 -> 1

\* The order of the dictionary.
Order(a, b) ==
    CASE a = b -> 0
      [] \E k \in 0 .. Min({Len(a), Len(b)}) :
             /\ Prefix(a, k) = Prefix(b, k)
             /\ \/ k = Len(a) /\ k < Len(b)
                \/ k < Min({Len(a), Len(b)}) /\ a[k + 1] < b[k + 1] -> -1
      [] OTHER -> 1

Finds ==
    LET a == call.a
        b == call.b
        others == (ToSet(a) \cup {JUNK}) \ ToSet(b)
    IN  CASE call.fn \in {"memmem", "strstr"} ->
                call.ret = IF b = <<>> \/ Places(a, b) = {} THEN NULL ELSE Min(Places(a, b))
          [] call.fn = "strspn"  -> call.ret = Span(a, ToSet(b))
          [] call.fn = "strcspn" -> call.ret = Span(a, others)
          [] call.fn = "strpbrk" ->
                call.ret = IF ToSet(a) \cap ToSet(b) = {} THEN NULL ELSE Span(a, others)
          [] call.fn = "strcmp"  -> Sign(call.ret) = Order(a, b)
          [] call.fn = "strncmp" ->
                Sign(call.ret) = Order(Prefix(a, call.n), Prefix(b, call.n))
          [] call.fn \in {"memrchr", "strrchr"} ->
                LET text == IF call.fn = "strrchr" THEN a ELSE Append(a, NUL)
                IN  IF call.n \in ToSet(text)
                    THEN /\ text[call.ret + 1] = call.n
                         /\ call.n \notin ToSet(SubSeq(text, call.ret + 2, Len(text)))
                    ELSE call.ret = NULL
          [] OTHER -> TRUE

\* The bytes of the memory outside a range are as before.
Spared(dst, n) == \A i \in (0 .. Bytes - 1) \ (dst .. dst + n - 1) :
                      call.mem[i] = Holding(call.a, call.b)[i]

Copies ==
    LET a == call.a
        b == call.b
        n == call.n
        before == Holding(a, b)
    IN  CASE call.fn = "memmove" ->
                /\ \A i \in 0 .. n[3] - 1 : call.mem[n[1] + i] = before[n[2] + i]
                /\ Spared(n[1], n[3])
          [] call.fn = "strcat"  -> Read(call.mem, 0) = a \o b /\ Spared(Len(a), Len(b) + 1)
          [] call.fn = "strncat" ->
                /\ Read(call.mem, 0) = a \o Prefix(b, n)
                /\ Spared(Len(a), Min({n, Len(b)}) + 1)
          [] call.fn = "strlcat" ->
                /\ call.ret = Min({Len(a), n}) + Len(b)
                /\ Read(call.mem, 0) = IF Len(a) < n THEN Prefix(a \o b, n - 1) ELSE a
                /\ Spared(0, n)
          [] call.fn = "strncpy" ->
                /\ [i \in 1 .. n |-> call.mem[i - 1]] = Prefix(b \o Fill(NUL, n), n)
                /\ Spared(0, n)
          [] call.fn = "memswap" ->
                /\ \A i \in 0 .. n - 1 : /\ call.mem[i] = before[Second + i]
                                         /\ call.mem[Second + i] = before[i]
                /\ \A i \in n .. Second - 1 : call.mem[i] = before[i]
          [] call.fn = "memccpy" ->
                /\ call.ret = IF n > Len(b) THEN Len(b) + 1 ELSE NULL
                /\ [i \in 1 .. Min({n, Len(b) + 1}) |-> call.mem[i - 1]]
                       = Prefix(Append(b, NUL), n)
                /\ Spared(0, Min({n, Len(b) + 1}))
          [] OTHER -> TRUE

\* The tokens are the pieces of the text between the delimiters, each of which has become a NUL.
Cuts ==
    call.fn = "strtok" =>
        LET ends   == {i \in 1 .. Len(call.a) : call.a[i] \in ToSet(call.b)}
            starts == {0} \cup ends
            found  == ToSet(call.tokens) \ {NULL}
        IN  /\ found = {s \in starts : call.holder = NULL \/ s < call.holder}
            /\ NULL \in ToSet(call.tokens) => found = starts
            /\ \A s \in found :
                   LET end == Min({e \in ends \cup {Len(call.a) + 1} : e > s})
                   IN  Read(call.mem, s) = SubSeq(call.a, s + 1, end - 1)
            /\ \A i \in 1 .. Len(call.a) :
                   call.mem[i - 1] # call.a[i] => i \in ends /\ call.mem[i - 1] = NUL

\* A text in its width, cut to its precision and to the array; one that the precision cuts and
\* that is set to the left is a blank short.  The NUL stands behind it, and that is one byte
\* behind the array when the text fills it; no other byte changes.
Fits ==
    call.fn = "snprintf" =>
        LET c      == call.format
            shown  == IF c.prec = -1 THEN call.a ELSE Prefix(call.a, c.prec)
            short  == IF c.ladjust /\ shown # call.a THEN 1 ELSE 0
            blanks == Fill(BLANK, c.length - Len(shown) - short)
            text   == Prefix(IF c.ladjust THEN shown \o blanks ELSE blanks \o shown, call.size)
        IN  \A i \in 0 .. Bytes - 1 :
                call.mem[i] = IF i \in Second .. Second + Len(text)
                              THEN Append(text, NUL)[i - Second + 1]
                              ELSE Holding(call.a, <<>>)[i]

\* Each function on strings returns what its name says and writes only where it should: a
\* search finds the first place however the needle repeats itself, a block that is moved onto
\* itself arrives whole, no copy passes its bound, and tokens are all that was between the
\* delimiters.  snprintf is excepted: its NUL passes the bound when the text fills it (Fits).
StringsAnswer == Finds /\ Copies /\ Cuts /\ Fits

\* The number that is in a text, but for a plus sign, which strtol does not skip, and for %#p,
\* which puts its prefix twice.
ReadsBack ==
    LET c == call.format
        n == Signed(call.word)
        signed == c.conv \in {"d", "z"}
        bare  == doprnt_number([c EXCEPT !.length = 0], call.word)
    IN  /\ \/ signed /\ n >= 0 /\ c.plus_sign = PLUS
           \/ c.conv = "p" /\ c.altfmt
           \/ IF signed THEN strtol(call.text, Base(c.conv)).value = n
              ELSE strtoul(call.text, Base(c.conv)).value = call.word
        /\ (c.altfmt /\ c.conv = "x") \/ (~c.altfmt /\ c.conv = "p") => strtoul(call.text, 0).value = call.word
        /\ c.conv # "p" => Len(call.text) = Max({c.length, Len(bare)})
        /\ (\A i \in DOMAIN call.text : isdigit(call.text[i])) /\ Base(c.conv) = 10
                /\ 10^(Len(call.text) - 1) \in Ints
             => atoi(call.text) = Signed(call.word)

Divided ==
    LET x == call.x
        y == call.y
        r == call.ret
    IN  IF r.quotient = Overflow
        THEN \E l \in 1 .. WordBits : y \div 2^l = 2^WordBits - 1
        ELSE /\ r.rem \in 0 .. y - 1
             /\ x = r.quotient * y + r.rem

\* A number that printf has put is read as the same number again, in its width, whatever the
\* flags, down to the least int; and a double word is divided exactly, unless the divisor starts
\* with a word of ones, where y0 + 1 is 0.
NumbersExact ==
    /\ call.fn = "doprnt" => ReadsBack
    /\ call.fn = "do_div64" => Divided
=============================================================================
