--------------------------- MODULE Recursion_proofs -------------------------
(***************************************************************************)
(* Lemmas that the proofs about the components share: least and greatest   *)
(* elements, recursion over 0 .. N, and the folds of the library.  Each    *)
(* rests on the well-founded order of the naturals; what is iterated is a  *)
(* function, never an operator.                                            *)
(***************************************************************************)
EXTENDS Integers, WellFoundedInduction, TLAPS

Lowest(S)  == CHOOSE x \in S : \A y \in S : x <= y
Highest(S) == CHOOSE x \in S : \A y \in S : x >= y

\* The order of the library's theorem, expanded.
LEMMA NatLess == OpToRel(<, Nat) = {ss \in Nat \X Nat : ss[1] < ss[2]}
  BY DEF OpToRel

\* Every non-empty set of naturals has a least element.
LEMMA LeastExists ==
  ASSUME NEW S \in SUBSET Nat, S # {}
  PROVE  \E x \in S : \A y \in S : x <= y
<1> DEFINE R == OpToRel(<, Nat)
<1>1. IsWellFoundedOn(R, Nat)
  BY NatLessThanWellFounded
<1> HIDE DEF R
<1>2. PICK x \in S : \A y \in S : ~ (<<y, x>> \in R)
  BY <1>1, WFMin
<1>3. R = {ss \in Nat \X Nat : ss[1] < ss[2]}
  BY NatLess DEF R
<1>4. ASSUME NEW y \in S PROVE x <= y
  <2>1. <<y, x>> \in Nat \X Nat /\ ~ (<<y, x>> \in {ss \in Nat \X Nat : ss[1] < ss[2]})
    BY <1>2, <1>3
  <2>2. ~ (y < x)
    BY <2>1
  <2> QED BY <2>2, SMT
<1> QED BY <1>4

\* What Lowest chooses is in the set and below its other elements.
LEMMA LowestProperty ==
    ASSUME NEW S \in SUBSET Nat, S # {}
    PROVE  Lowest(S) \in S /\ \A y \in S : Lowest(S) <= y
  BY LeastExists DEF Lowest

\* A non-empty set of numbers up to N has a greatest element.
LEMMA GreatestExists ==
    ASSUME NEW N \in Nat, NEW S \in SUBSET (1 .. N), S # {}
    PROVE  \E i \in S : \A j \in S : j <= i
<1> DEFINE Below == {k \in 0 .. N : N - k \in S}
           k == Lowest(Below)
<1>1. \A i \in S : i \in 1 .. N /\ N - i \in 0 .. N /\ N - (N - i) = i
  OBVIOUS
<1>2. Below \in SUBSET Nat
  OBVIOUS
<1>3. \A i \in S : N - i \in Below
  BY <1>1
<1>4. k \in Below /\ \A m \in Below : k <= m
  <2> HIDE DEF Below
  <2>1. Below # {}
    BY <1>3
  <2> QED
    BY <1>2, <2>1, LowestProperty
<1>5. k \in 0 .. N /\ N - k \in S
  BY <1>4
<1> HIDE DEF Below, k
<1>6. ASSUME NEW j \in S PROVE j <= N - k
  <2>1. k <= N - j
    BY <1>3, <1>4
  <2> QED
    BY <1>1, <1>5, <2>1
<1> QED
  BY <1>5, <1>6

\* What holds at 0, and next to where it holds, holds up to N.
LEMMA UpTo ==
    ASSUME NEW N \in Nat, NEW T, 0 \in T,
           \A n \in 1 .. N : n - 1 \in T => n \in T
    PROVE  0 .. N \subseteq T
<1> SUFFICES ASSUME (0 .. N) \ T # {} PROVE FALSE
  OBVIOUS
<1> DEFINE x == Lowest((0 .. N) \ T)
<1>1. x \in (0 .. N) \ T /\ \A y \in (0 .. N) \ T : x <= y
  <2>1. (0 .. N) \ T \in SUBSET Nat
    OBVIOUS
  <2> QED
    BY <2>1, LowestProperty
<1> HIDE DEF x
<1>2. x \in 1 .. N /\ x - 1 \in 0 .. N /\ ~ (x <= x - 1)
  BY <1>1
<1>3. x - 1 \in T
  BY <1>1, <1>2
<1> QED
  BY <1>1, <1>2, <1>3

\* g is a at 0, and goes on as F says.
Follows(g, a, F, N) == g[0] = a /\ \A n \in 1 .. N : g[n] = F[n][g[n - 1]]

\* A recursion over 0 .. N has a solution.
LEMMA RecursionExists ==
    ASSUME NEW N \in Nat, NEW S, NEW a \in S, NEW F \in [1 .. N -> [S -> S]]
    PROVE  \E g \in [0 .. N -> S] : Follows(g, a, F, N)
<1> USE DEF Follows
<1> DEFINE Solves(g, m) == Follows(g, a, F, m)
           T == {m \in 0 .. N : \E g \in [0 .. m -> S] : Solves(g, m)}
<1>1. 0 \in T
  <2> DEFINE g == [n \in 0 .. 0 |-> a]
  <2>1. g \in [0 .. 0 -> S] /\ Solves(g, 0)
    OBVIOUS
  <2> HIDE DEF g, Solves, Follows
  <2> QED
    BY <2>1
<1>2. ASSUME NEW m \in 1 .. N, m - 1 \in T PROVE m \in T
  <2>1. PICK h \in [0 .. m - 1 -> S] : Solves(h, m - 1)
    BY <1>2
  <2> DEFINE g == [n \in 0 .. m |-> IF n = m THEN F[m][h[m - 1]] ELSE h[n]]
  <2>2. m - 1 \in 0 .. m - 1 /\ h[m - 1] \in S /\ F[m] \in [S -> S]
    BY <2>1
  <2>3. F[m][h[m - 1]] \in S
    BY <2>2
  <2>4. \A n \in 0 .. m : n # m => n \in 0 .. m - 1
    OBVIOUS
  <2>5. g \in [0 .. m -> S]
    BY <2>1, <2>3, <2>4
  <2>6. g[m] = F[m][h[m - 1]] /\ \A n \in 0 .. m - 1 : g[n] = h[n]
    BY <1>2
  <2> HIDE DEF g
  <2>7. g[0] = a
    BY <1>2, <2>1, <2>6
  <2>8. ASSUME NEW n \in 1 .. m PROVE g[n] = F[n][g[n - 1]]
    <3>1. n - 1 \in 0 .. m - 1 /\ g[n - 1] = h[n - 1]
      BY <1>2, <2>6
    <3>2. CASE n = m
      BY <2>6, <3>1, <3>2
    <3>3. CASE n # m
      <4>1. n \in 1 .. m - 1
        BY <3>3
      <4> QED
        BY <2>1, <2>6, <3>1, <4>1
    <3> QED
      BY <3>2, <3>3
  <2>9. Solves(g, m) /\ m \in 0 .. N
    BY <2>7, <2>8
  <2> HIDE DEF Solves, Follows
  <2> QED
    BY <2>5, <2>9
<1> HIDE DEF T, Follows
<1>3. 0 .. N \subseteq T
  BY <1>1, <1>2, UpTo
<1> QED
  BY <1>3 DEF T
(***************************************************************************)
(* Folds.  The library's FoldLeft of n items is the value at 1 .. n of a   *)
(* function on the subsets of 1 .. n, each of which is reached by its      *)
(* greatest element.                                                       *)
(***************************************************************************)
LEMMA HighestProperty ==
    ASSUME NEW n \in Nat, NEW d \in SUBSET (1 .. n), d # {}
    PROVE  /\ Highest(d) \in d /\ \A x \in d : x <= Highest(d)
           /\ d \ {Highest(d)} \in SUBSET (1 .. Highest(d) - 1)
<1>1. PICK i \in d : \A j \in d : j <= i
  BY GreatestExists
<1>2. Highest(d) \in d /\ \A x \in d : Highest(d) >= x
  <2>1. \A j \in d : i >= j
    BY <1>1
  <2> QED
    BY <2>1 DEF Highest
<1>3. \A x \in d : x \in 1 .. n /\ x <= Highest(d)
  BY <1>2
<1>4. ASSUME NEW x \in d \ {Highest(d)} PROVE x \in 1 .. Highest(d) - 1
  <2>1. x \in 1 .. n /\ x <= Highest(d) /\ x # Highest(d) /\ Highest(d) \in 1 .. n
    <3>1. x \in d /\ Highest(d) \in d
      BY <1>2
    <3> QED
      BY <1>3, <3>1
  <2> QED
    BY <2>1
<1> QED
  BY <1>2, <1>3, <1>4

\* The greatest of 1 .. k.
LEMMA HighestUpTo ==
    ASSUME NEW k \in Nat \ {0}
    PROVE  Highest(1 .. k) = k /\ (1 .. k) \ {Highest(1 .. k)} = 1 .. k - 1
<1>1. Highest(1 .. k) \in 1 .. k /\ \A x \in 1 .. k : x <= Highest(1 .. k)
  BY HighestProperty, k \in 1 .. k
<1>2. Highest(1 .. k) = k
  BY <1>1
<1>3. (1 .. k) \ {k} = 1 .. k - 1
  OBVIOUS
<1> QED
  BY <1>2, <1>3

\* iter folds the items 1 .. n, where that of number i acts on S as F[i].
Folds(iter, a, F, n, S) ==
    /\ iter[{}] = a
    /\ \A d \in SUBSET (1 .. n) :
          d # {} /\ iter[d \ {Highest(d)}] \in S
              => iter[d] = F[Highest(d)][iter[d \ {Highest(d)}]]

\* There is such a function.
LEMMA FoldExists ==
    ASSUME NEW n \in Nat, NEW S, NEW a \in S, NEW F \in [1 .. n -> [S -> S]]
    PROVE  \E iter \in [SUBSET (1 .. n) -> S] : Folds(iter, a, F, n, S)
<1> DEFINE D == SUBSET (1 .. n)
           Step(g) == [d \in D |-> IF d = {} THEN a ELSE F[Highest(d)][g[d \ {Highest(d)}]]]
           I == [D -> S]
           first == [d \in D |-> a]
           steps == [m \in 1 .. n |-> [g \in I |-> Step(g)]]
<1>1. \A d \in D : d # {} => Highest(d) \in 1 .. n /\ d \ {Highest(d)} \in D
  <2> TAKE d \in D
  <2> QED
    BY HighestProperty
<1>2. ASSUME NEW g \in I PROVE Step(g) \in I
  <2>1. ASSUME NEW d \in D, d # {} PROVE F[Highest(d)][g[d \ {Highest(d)}]] \in S
    <3> HIDE DEF D
    <3> QED
      BY <1>1, <2>1
  <2> QED
    BY <2>1
<1> HIDE DEF D
<1>3. first \in I
  OBVIOUS
<1>4. steps \in [1 .. n -> [I -> I]]
  <2> HIDE DEF Step, I
  <2> QED
    BY <1>2
<1>5. PICK g \in [0 .. n -> I] : Follows(g, first, steps, n)
  <2> HIDE DEF I, first, steps
  <2> QED
    BY <1>3, <1>4, RecursionExists
<1>6. g[0] = first /\ \A m \in 1 .. n : g[m] = Step(g[m - 1])
  <2>1. \A m \in 1 .. n : m - 1 \in 0 .. n /\ g[m - 1] \in I
    BY <1>5
  <2>2. \A m \in 1 .. n : \A u \in I : steps[m][u] = Step(u)
    <3> HIDE DEF Step, I
    <3> QED
      OBVIOUS
  <2> HIDE DEF steps, Step, first, I
  <2> QED
    BY <1>5, <2>1, <2>2 DEF Follows
<1>7. {} \in D
  BY DEF D
<1>8. \A m \in 0 .. n : g[m] \in I /\ g[m][{}] = a
  <2>1. \A m \in 0 .. n : m = 0 \/ m \in 1 .. n
    OBVIOUS
  <2>2. \A m \in 1 .. n : Step(g[m - 1])[{}] = a
    BY <1>7
  <2>3. first[{}] = a
    BY <1>7
  <2> HIDE DEF Step, first, I
  <2> QED
    BY <1>5, <1>6, <2>1, <2>2, <2>3
<1>9. \A m \in 1 .. n : \A d \in D :
         d # {} => g[m][d] = F[Highest(d)][g[m - 1][d \ {Highest(d)}]]
  <2>1. ASSUME NEW u, NEW d \in D, d # {}
        PROVE  Step(u)[d] = F[Highest(d)][u[d \ {Highest(d)}]]
    BY <2>1
  <2> HIDE DEF Step
  <2>2. ASSUME NEW m \in 1 .. n, NEW d \in D, d # {}
        PROVE  g[m][d] = F[Highest(d)][g[m - 1][d \ {Highest(d)}]]
    <3>1. g[m] = Step(g[m - 1])
      BY <1>6
    <3>2. Step(g[m - 1])[d] = F[Highest(d)][g[m - 1][d \ {Highest(d)}]]
      BY <2>1, <2>2
    <3> QED
      BY <3>1, <3>2
  <2> QED
    BY <2>2
<1> HIDE DEF first, steps, Step, I
<1> DEFINE Settled == {m \in 0 .. n : m = n \/ \A d \in SUBSET (1 .. m) : g[m][d] = g[m + 1][d]}
<1>10. 0 \in Settled
  <2>1. ASSUME NEW d \in SUBSET (1 .. 0), n # 0 PROVE g[0][d] = g[0 + 1][d]
    <3>1. d = {} /\ 0 \in 0 .. n /\ 0 + 1 \in 0 .. n
      BY <2>1
    <3> QED
      BY <1>8, <3>1
  <2> QED
    BY <2>1
<1>11. ASSUME NEW m \in 1 .. n, m - 1 \in Settled PROVE m \in Settled
  <2>1. ASSUME NEW d \in SUBSET (1 .. m), m # n PROVE g[m][d] = g[m + 1][d]
    <3>1. m \in 0 .. n /\ m + 1 \in 1 .. n /\ m + 1 \in 0 .. n /\ m - 1 # n /\ (m - 1) + 1 = m
          /\ (m + 1) - 1 = m
      BY <2>1
    <3>2. CASE d = {}
      BY <1>8, <3>1, <3>2
    <3>3. CASE d # {}
      <4> DEFINE x == Highest(d)
                 e == d \ {x}
      <4>1. d \in D
        BY DEF D
      <4>2. x \in 1 .. m /\ e \in SUBSET (1 .. x - 1)
        <5>1. m \in Nat
          OBVIOUS
        <5> QED
          BY <3>3, <5>1, HighestProperty
      <4> HIDE DEF x
      <4>3. e \in SUBSET (1 .. m - 1)
        <5>1. \A y \in 1 .. x - 1 : y \in 1 .. m - 1
          BY <4>2
        <5> QED
          BY <4>2, <5>1
      <4> HIDE DEF e
      <4>4. g[m - 1][e] = g[m][e]
        <5>1. \A u \in SUBSET (1 .. m - 1) : g[m - 1][u] = g[(m - 1) + 1][u]
          BY <1>11, <3>1
        <5> QED
          BY <3>1, <4>3, <5>1
      <4>5. g[m][d] = F[x][g[m - 1][e]]
        BY <1>9, <3>3, <4>1 DEF x, e
      <4>6. g[m + 1][d] = F[x][g[m][e]]
        <5>1. g[m + 1][d] = F[x][g[(m + 1) - 1][e]]
          BY <1>9, <3>1, <3>3, <4>1 DEF x, e
        <5> QED
          BY <3>1, <5>1
      <4> QED
        BY <4>4, <4>5, <4>6
    <3> QED
      BY <3>2, <3>3
  <2> QED
    BY <2>1
<1> HIDE DEF Settled
<1>12. 0 .. n \subseteq Settled
  BY <1>10, <1>11, UpTo
<1>13. ASSUME NEW d \in D, d # {} PROVE g[n][d] = F[Highest(d)][g[n][d \ {Highest(d)}]]
  <2>1. Highest(d) \in 1 .. n /\ d \ {Highest(d)} \in SUBSET (1 .. Highest(d) - 1)
    BY <1>13, HighestProperty DEF D
  <2>2. n \in 1 .. n /\ n - 1 \in 0 .. n /\ n - 1 # n /\ (n - 1) + 1 = n
    BY <2>1
  <2>3. d \ {Highest(d)} \in SUBSET (1 .. n - 1)
    <3>1. \A y \in 1 .. Highest(d) - 1 : y \in 1 .. n - 1
      BY <2>1
    <3> QED
      BY <2>1, <3>1
  <2>4. \A u \in SUBSET (1 .. n - 1) : g[n - 1][u] = g[(n - 1) + 1][u]
    BY <1>12, <2>2 DEF Settled
  <2>5. g[n - 1][d \ {Highest(d)}] = g[n][d \ {Highest(d)}]
    BY <2>2, <2>3, <2>4
  <2> QED
    BY <1>9, <1>13, <2>2, <2>5
<1>14. g[n] \in [D -> S] /\ Folds(g[n], a, F, n, S)
  <2>1. n \in 0 .. n
    OBVIOUS
  <2> QED
    BY <1>8, <1>13, <2>1 DEF Folds, D, I
<1> QED
  BY <1>14 DEF D

\* What such a function has at 1 .. n is reached item by item.
LEMMA FoldSteps ==
    ASSUME NEW n \in Nat, NEW S, NEW a \in S, NEW F \in [1 .. n -> [S -> S]],
           NEW iter, Folds(iter, a, F, n, S)
    PROVE  \E h \in [0 .. n -> S] : Follows(h, a, F, n) /\ h[n] = iter[1 .. n]
<1> DEFINE T == {k \in 0 .. n : iter[1 .. k] \in S}
<1>1. iter[1 .. 0] = a
  <2>1. 1 .. 0 = {}
    OBVIOUS
  <2> QED
    BY <2>1 DEF Folds
<1>2. ASSUME NEW k \in 1 .. n, iter[1 .. k - 1] \in S
      PROVE  iter[1 .. k] = F[k][iter[1 .. k - 1]]
  <2>1. Highest(1 .. k) = k /\ (1 .. k) \ {Highest(1 .. k)} = 1 .. k - 1
    BY HighestUpTo
  <2>2. 1 .. k \in SUBSET (1 .. n) /\ 1 .. k # {}
    <3>1. k \in 1 .. k /\ \A x \in 1 .. k : x \in 1 .. n
      OBVIOUS
    <3> QED
      BY <3>1
  <2> QED
    BY <1>2, <2>1, <2>2 DEF Folds
<1>3. 0 .. n \subseteq T
  <2>1. 0 \in T
    BY <1>1
  <2>2. ASSUME NEW k \in 1 .. n, k - 1 \in T PROVE k \in T
    <3>1. iter[1 .. k - 1] \in S /\ F[k] \in [S -> S]
      BY <2>2
    <3> QED
      BY <1>2, <3>1
  <2> HIDE DEF T
  <2> QED
    BY <2>1, <2>2, UpTo
<1> DEFINE h == [k \in 0 .. n |-> iter[1 .. k]]
<1>4. h \in [0 .. n -> S]
  BY <1>3
<1>5. h[0] = a /\ h[n] = iter[1 .. n]
  BY <1>1
<1>6. ASSUME NEW k \in 1 .. n PROVE h[k] = F[k][h[k - 1]]
  <2>1. k - 1 \in 0 .. n /\ k \in 0 .. n
    OBVIOUS
  <2>2. h[k - 1] = iter[1 .. k - 1] /\ h[k] = iter[1 .. k]
    BY <2>1
  <2>3. iter[1 .. k - 1] \in S
    BY <1>3, <2>1
  <2> QED
    BY <1>2, <2>2, <2>3
<1> HIDE DEF h
<1>7. Follows(h, a, F, n)
  BY <1>5, <1>6 DEF Follows
<1> QED
  BY <1>4, <1>5, <1>7

=============================================================================
