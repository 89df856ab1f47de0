------------------------------ MODULE Strings -------------------------------
(***************************************************************************)
(* lib/string.c: the functions on strings and blocks of memory.            *)
(*                                                                         *)
(* A memory is a function from addresses to the values of bytes; a         *)
(* function that writes returns the memory after it, one that searches     *)
(* returns an address or NULL.                                             *)
(***************************************************************************)
EXTENDS Integers, SequencesExt, FiniteSetsExt

NUL  == 0       \* the byte that ends a string
NULL == -1      \* the null pointer

\* The address of the first, or of the last, of the bytes that a loop from s on stops at.
FirstOf(s, found) == IF found = {} THEN NULL ELSE s + Min(found)
LastOf(s, found)  == IF found = {} THEN NULL ELSE s + Max(found)

-----------------------------------------------------------------------------
(***************************************************************************)
(* What only reads.                                                        *)
(***************************************************************************)
strlen(m, s) == Min({i \in 0 .. Max(DOMAIN m) - s : m[s + i] = NUL})

strnlen(m, s, maxlen) == Min({i \in 0 .. maxlen : i = maxlen \/ m[s + i] = NUL})

memchr(m, s, c, n)  == FirstOf(s, {i \in 0 .. n - 1 : m[s + i] = c})
memrchr(m, s, c, n) == LastOf(s, {i \in 0 .. n - 1 : m[s + i] = c})

strchr(m, s, c)  == FirstOf(s, {i \in 0 .. strlen(m, s) : m[s + i] = c})
\* The NUL is not among the characters that strrchr looks at.
strrchr(m, s, c) == LastOf(s, {i \in 0 .. strlen(m, s) - 1 : m[s + i] = c})

\* The difference of the first bytes that differ; 0 behind `ends`, the places not looked beyond.
Difference(m, s1, s2, n, ends) ==
    LET differ == {i \in 0 .. n - 1 : m[s1 + i] # m[s2 + i]}
    IN  IF differ = {} \/ \E i \in ends : i < Min(differ)
        THEN 0
        ELSE m[s1 + Min(differ)] - m[s2 + Min(differ)]

memcmp(m, s1, s2, n)  == Difference(m, s1, s2, n, {})
strncmp(m, s1, s2, n) == Difference(m, s1, s2, n, {i \in 0 .. n - 1 : m[s1 + i] = NUL})
strcmp(m, s1, s2)     == strncmp(m, s1, s2, strlen(m, s1) + 1)

\* matchmap has `parity` for the NUL, so that a span ends at the string's end in both uses.
xspn(m, s, map, parity) ==
    LET matches(c) == IF c = NUL THEN parity = 1
                      ELSE \E i \in 0 .. strlen(m, map) - 1 : m[map + i] = c
    IN  Min({i \in 0 .. strlen(m, s) : matches(m[s + i]) = (parity = 1)})

strspn(m, s, accept)  == xspn(m, s, accept, 0)
strcspn(m, s, reject) == xspn(m, s, reject, 1)
strpbrk(m, s, accept) ==
    LET ss == s + xspn(m, s, accept, 1) IN IF m[ss] = NUL THEN NULL ELSE ss

\* Mutant: the two steps after a mismatch and after a partial match are exchanged.
Skips_Exchanged(alike) == IF alike THEN [mismatch |-> 1, match |-> 2]
                          ELSE [mismatch |-> 2, match |-> 1]

\* How far to go on when the needle's second byte differs, and when it does not.
Skips(alike) == IF alike THEN [mismatch |-> 2, match |-> 1]
                ELSE [mismatch |-> 1, match |-> 2]

memmem(m, y, n, x, len) ==
    LET skip == Skips(m[x] = m[x + 1])
        from[j \in 0 .. n + 2] ==
            CASE j > n - len -> NULL
              [] m[x + 1] # m[y + j + 1] -> from[j + skip.mismatch]
              [] memcmp(m, x + 2, y + j + 2, len - 2) = 0 /\ m[x] = m[y + j] -> y + j
              [] OTHER -> from[j + skip.match]
    IN  CASE len > n \/ len = 0 \/ n = 0 -> NULL
          [] len = 1 -> memchr(m, y, m[x], n)
          [] OTHER   -> from[0]

strstr(m, haystack, needle) ==
    memmem(m, haystack, strlen(m, haystack), needle, strlen(m, needle))

-----------------------------------------------------------------------------
(***************************************************************************)
(* What writes.  The bytes are copied one by one, in the order of the      *)
(* offsets given.                                                          *)
(***************************************************************************)
Copied(m, dst, src, offsets) ==
    FoldLeft(LAMBDA mm, i : [mm EXCEPT ![dst + i] = mm[src + i]], m, offsets)

Forwards(n)  == [i \in 1 .. n |-> i - 1]
Backwards(n) == Reverse(Forwards(n))

memcpy(m, dst, src, n) == Copied(m, dst, src, Forwards(n))

memmove(m, dst, src, n) ==
    Copied(m, dst, src, IF dst < src THEN Forwards(n) ELSE Backwards(n))

memset(m, dst, c, n) == [a \in DOMAIN m |-> IF a \in dst .. dst + n - 1 THEN c ELSE m[a]]

memccpy(m, dst, src, c, n) ==
    LET found == {i \in 1 .. n : m[src + i - 1] = c}
    IN  [mem |-> memcpy(m, dst, src, IF found = {} THEN n ELSE Min(found)),
         ret |-> FirstOf(dst, found)]

memswap(m, m1, m2, n) ==
    FoldLeft(LAMBDA mm, i : [mm EXCEPT ![m1 + i] = mm[m2 + i], ![m2 + i] = mm[m1 + i]],
             m, Forwards(n))

strcpy(m, dst, src) == memcpy(m, dst, src, strlen(m, src) + 1)
strcat(m, dst, src) == strcpy(m, strchr(m, dst, NUL), src)

\* The rest of the n bytes is filled with NULs; there is none when src is as long.
strncpy(m, dst, src, n) ==
    LET q == Min({n, strlen(m, src) + 1})
    IN  memset(memcpy(m, dst, src, q), dst + q, NUL, n - q)

\* The NUL is written behind the n characters, and is not one of them.
strncat(m, dst, src, n) ==
    LET q == strchr(m, dst, NUL)
        k == strnlen(m, src, n)
    IN  [memcpy(m, q, src, k) EXCEPT ![q + k] = NUL]

strlcat(m, dst, src, size) ==
    LET bytes == strnlen(m, dst, size)
        room  == size - bytes - 1
        k     == Min({room, strlen(m, src)})
    IN  [ret |-> bytes + strlen(m, src),
         mem |-> IF bytes = size THEN m
                 ELSE [memcpy(m, dst + bytes, src, k) EXCEPT ![dst + bytes + k] = NUL]]

-----------------------------------------------------------------------------
(***************************************************************************)
(* Tokens: what is left is in *stringp, for strtok in a static variable.   *)
(***************************************************************************)
strsep(m, string, delim) ==
    LET e == IF string = NULL THEN NULL ELSE strpbrk(m, string, delim)
    IN  [ret  |-> string,
         mem  |-> IF e = NULL THEN m ELSE [m EXCEPT ![e] = NUL],
         rest |-> IF e = NULL THEN NULL ELSE e + 1]

strtok(m, holder, s, delim) == strsep(m, IF s = NULL THEN holder ELSE s, delim)
=============================================================================
