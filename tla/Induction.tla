----------------------------- MODULE Induction -----------------------------
(***************************************************************************)
(* Induction over the natural numbers, and over a sequence that the        *)
(* community modules fold from the left.                                   *)
(*                                                                         *)
(* What is proved by induction, and what a fold does at each element, are  *)
(* constants here: a module that needs the facts for an operator of its    *)
(* own instantiates this one with it.                                      *)
(***************************************************************************)
EXTENDS Integers, SequencesExt, SequenceTheorems, WellFoundedInduction,
        NaturalsInduction, TLAPS

CONSTANTS
  P(_),      \* what is proved of every number
  Op(_,_,_)  \* what a fold makes of what it has so far (the second argument)
             \* and an element; the first is what the fold depends on besides

-----------------------------------------------------------------------------
(* The numbers.                                                            *)

\* A set of naturals that is not empty has a least member.
LEMMA LeastMember ==
  ASSUME NEW S, S \subseteq Nat, S # {}
  PROVE  \E x \in S : \A y \in S : x <= y
<1> DEFINE R == OpToRel(<, Nat)
<1>1. IsWellFoundedOn(R, Nat)
  BY NatLessThanWellFounded
<1>2. \A x, y \in Nat : y < x => <<y, x>> \in R
  BY DEF OpToRel
<1> HIDE DEF R
<1>3. PICK x \in S : \A y \in S : ~(<<y, x>> \in R)
  BY <1>1, WFMin
<1>4. \A y \in S : ~(y < x)
  BY <1>2, <1>3
<1>5. \A y \in S : x <= y
  BY <1>4, SMT
<1> QED
  BY <1>5

\* What holds of 0, and of a number's successor when it holds of the number,
\* holds of every number.
THEOREM NatInduct ==
  ASSUME P(0), \A n \in Nat : P(n) => P(n + 1)
  PROVE  \A n \in Nat : P(n)
<1> DEFINE Bad == {n \in Nat : ~P(n)}
<1> SUFFICES ASSUME Bad # {} PROVE FALSE
  OBVIOUS
<1>1. PICK m \in Bad : \A n \in Bad : m <= n
  BY LeastMember
<1>2. m # 0
  BY <1>1
<1>3. m - 1 \in Nat /\ ~(m <= m - 1) /\ (m - 1) + 1 = m
  BY <1>1, <1>2
<1>4. P(m - 1)
  BY <1>1, <1>3
<1> QED
  BY <1>1, <1>3, <1>4

\* The same for a set of numbers.
THEOREM NatInductIn ==
  ASSUME NEW G, 0 \in G, \A n \in Nat : n \in G => n + 1 \in G
  PROVE  Nat \subseteq G
<1> DEFINE Bad == {n \in Nat : n \notin G}
<1> SUFFICES ASSUME Bad # {} PROVE FALSE
  OBVIOUS
<1>1. PICK m \in Bad : \A n \in Bad : m <= n
  BY LeastMember
<1>2. m # 0
  BY <1>1
<1>3. m - 1 \in Nat /\ ~(m <= m - 1) /\ (m - 1) + 1 = m
  BY <1>1, <1>2
<1>4. m - 1 \in G
  BY <1>1, <1>3
<1> QED
  BY <1>1, <1>3, <1>4

\* g is what a recursive definition says, up to n.
Recurses(g, k, base, n) ==
  g = [i \in 0 .. n |-> IF i = 0 THEN base ELSE Op(k, g[i - 1], i)]

LEMMA RecursesTo ==
  ASSUME NEW k, NEW base PROVE \A n \in Nat : \E g : Recurses(g, k, base, n)
<1> DEFINE G == {n \in Nat : \E g : Recurses(g, k, base, n)}
<1>1. 0 \in G
  <2> DEFINE g == [i \in 0 .. 0 |-> base]
  <2>1. \A i \in 0 .. 0 : i = 0
    OBVIOUS
  <2>2. Recurses(g, k, base, 0)
    BY <2>1 DEF Recurses
  <2> QED
    BY <2>2
<1>2. ASSUME NEW n \in Nat, n \in G PROVE n + 1 \in G
  <2> DEFINE m == n + 1
  <2>1. PICK g : Recurses(g, k, base, n)
    BY <1>2
  <2> DEFINE h == [i \in 0 .. m |-> IF i = m THEN Op(k, g[m - 1], m) ELSE g[i]]
  <2>2. m \in Nat /\ m # 0 /\ m - 1 = n /\ m - 1 # m /\ m - 1 \in 0 .. m
    OBVIOUS
  <2>3. ASSUME NEW i \in 0 .. m
        PROVE  h[i] = IF i = 0 THEN base ELSE Op(k, h[i - 1], i)
    <3>1. CASE i = m
      <4>1. h[i] = Op(k, g[m - 1], m) /\ h[m - 1] = g[m - 1] /\ i # 0
        <5> HIDE DEF m
        <5> QED
          BY <2>2, <3>1
      <4> HIDE DEF h, m
      <4> QED
        BY <3>1, <4>1, Zenon
    <3>2. CASE i # m
      <4>1. i \in 0 .. n /\ (i # 0 => i - 1 \in 0 .. m /\ i - 1 # m)
        BY <2>2, <3>2
      <4>2. g[i] = IF i = 0 THEN base ELSE Op(k, g[i - 1], i)
        BY <2>1, <4>1, Zenon DEF Recurses
      <4>3. h[i] = g[i] /\ (i # 0 => h[i - 1] = g[i - 1])
        <5> HIDE DEF m
        <5> QED
          BY <3>2, <4>1
      <4> HIDE DEF h, m
      <4> QED
        BY <4>2, <4>3, Zenon
    <3> QED
      BY <3>1, <3>2
  <2>4. h = [i \in 0 .. m |-> h[i]]
    OBVIOUS
  <2>5. m \in Nat
    BY <2>2
  <2> HIDE DEF h, m
  <2>6. Recurses(h, k, base, m)
    BY <2>3, <2>4, Zenon DEF Recurses
  <2>7. m \in G
    BY <2>5, <2>6
  <2> QED
    BY <2>7 DEF m
<1>3. \A n \in Nat : n \in G => n + 1 \in G
  BY <1>2
<1> HIDE DEF G
<1>4. Nat \subseteq G
  BY <1>1, <1>3, NatInductIn
<1> QED
  BY <1>4 DEF G

\* However far each goes, they agree.
LEMMA RecursesAlike ==
  ASSUME NEW k, NEW base, NEW g, NEW h, NEW n \in Nat, NEW m \in Nat, n <= m,
         Recurses(g, k, base, n), Recurses(h, k, base, m)
  PROVE  g[n] = h[n]
<1> DEFINE G == {i \in Nat : i <= n => g[i] = h[i]}
<1>0. ASSUME NEW i \in 0 .. n
      PROVE  /\ g[i] = IF i = 0 THEN base ELSE Op(k, g[i - 1], i)
             /\ h[i] = IF i = 0 THEN base ELSE Op(k, h[i - 1], i)
  <2>1. i \in 0 .. m
    OBVIOUS
  <2> QED
    BY <2>1, Zenon DEF Recurses
<1>1. 0 \in G
  <2>1. 0 \in 0 .. n
    OBVIOUS
  <2>2. g[0] = base /\ h[0] = base
    BY <1>0, <2>1, Zenon
  <2> QED
    BY <2>2
<1>2. ASSUME NEW i \in Nat, i \in G PROVE i + 1 \in G
  <2> DEFINE j == i + 1
  <2>1. j \in Nat /\ j # 0 /\ j - 1 = i /\ (j <= n => j \in 0 .. n /\ i <= n)
    OBVIOUS
  <2> HIDE DEF j
  <2>2. j <= n => g[j] = h[j]
    <3> SUFFICES ASSUME j <= n PROVE g[j] = h[j]
      OBVIOUS
    <3>1. g[j] = Op(k, g[i], j) /\ h[j] = Op(k, h[i], j)
      <4>1. /\ g[j] = IF j = 0 THEN base ELSE Op(k, g[j - 1], j)
            /\ h[j] = IF j = 0 THEN base ELSE Op(k, h[j - 1], j)
        BY <1>0, <2>1, Zenon
      <4> QED
        BY <2>1, <4>1, Zenon
    <3>2. g[i] = h[i]
      BY <1>2, <2>1
    <3> QED
      BY <3>1, <3>2, Zenon
  <2>3. j \in G
    BY <2>1, <2>2
  <2> QED
    BY <2>3 DEF j
<1>3. \A i \in Nat : i \in G => i + 1 \in G
  BY <1>2
<1> HIDE DEF G
<1>4. n \in G
  BY <1>1, <1>3, NatInductIn
<1> QED
  BY <1>4 DEF G

\* f is what is defined by recursion over the naturals: there is such a
\* function, and it does what the definition says.
Recursive(f, k, base) ==
  /\ f = [n \in Nat |-> f[n]]
  /\ \A n \in Nat : f[n] = IF n = 0 THEN base ELSE Op(k, f[n - 1], n)

\* What a function defined by recursion begins with.
THEOREM RecursionSays ==
  ASSUME NEW f, NEW k, NEW base, Recursive(f, k, base)
  PROVE  /\ f = [n \in Nat |-> f[n]]
         /\ f[0] = base
  BY DEF Recursive

\* And what it is at any other number.
THEOREM RecursionStep ==
  ASSUME NEW f, NEW k, NEW base, Recursive(f, k, base), NEW n \in Nat, n # 0
  PROVE  f[n] = Op(k, f[n - 1], n)
  BY Zenon DEF Recursive

\* There is one, so that CHOOSE, by which TLA+ defines it, yields it.
THEOREM RecursionExists ==
  ASSUME NEW k, NEW base PROVE \E f : Recursive(f, k, base)
<1> DEFINE part == [n \in Nat |-> CHOOSE g : Recurses(g, k, base, n)]
           f == [n \in Nat |-> part[n][n]]
<1>1. \A n \in Nat : Recurses(part[n], k, base, n)
  BY RecursesTo, Zenon
<1>2. \A n \in Nat : f[n] = part[n][n]
  OBVIOUS
<1>3. f = [n \in Nat |-> f[n]]
  OBVIOUS
<1> HIDE DEF f, part
<1>4. ASSUME NEW n \in Nat
      PROVE  f[n] = IF n = 0 THEN base ELSE Op(k, f[n - 1], n)
  <2>1. part[n][n] = IF n = 0 THEN base ELSE Op(k, part[n][n - 1], n)
    <3>1. n \in 0 .. n
      OBVIOUS
    <3> QED
      BY <1>1, <3>1, Zenon DEF Recurses
  <2>2. ASSUME n # 0 PROVE f[n - 1] = part[n][n - 1]
    <3> DEFINE m == n - 1
    <3>1. m \in Nat /\ m <= n
      BY <2>2
    <3> HIDE DEF m
    <3>2. Recurses(part[m], k, base, m) /\ Recurses(part[n], k, base, n)
      BY <1>1, <3>1
    <3>4. part[m][m] = part[n][m]
      <4> DEFINE g == part[m]
                 h == part[n]
      <4>1. Recurses(g, k, base, m) /\ Recurses(h, k, base, n)
        BY <3>2
      <4> HIDE DEF g, h
      <4>2. g[m] = h[m]
        BY <3>1, <4>1, RecursesAlike
      <4> QED
        BY <4>2 DEF g, h
    <3>3. f[m] = part[n][m]
      BY <1>2, <3>1, <3>4
    <3> QED
      BY <3>3 DEF m
  <2> QED
    BY <1>2, <2>1, <2>2, Zenon
<1> QED
  BY <1>3, <1>4, Zenon DEF Recursive

\* A finite set of numbers has a largest member, which Max finds.
LEMMA MaxOf ==
  ASSUME NEW n \in Nat, NEW S, S \subseteq 1 .. n, S # {}
  PROVE  Max(S) \in S /\ \A y \in S : Max(S) >= y
<1> DEFINE Left == {n - y : y \in S}
<1>0. \A y \in S : y \in Int /\ y <= n
  OBVIOUS
<1>1. Left \subseteq Nat /\ Left # {}
  <2>1. ASSUME NEW y \in S PROVE n - y \in Nat
    BY <1>0
  <2> QED
    BY <2>1, Zenon
<1>2. PICK l \in Left : \A m \in Left : l <= m
  <2> HIDE DEF Left
  <2> QED
    BY <1>1, LeastMember
<1>3. PICK x \in S : l = n - x
  BY <1>2
<1>4. \A y \in S : x >= y
  <2> SUFFICES ASSUME NEW y \in S PROVE x >= y
    OBVIOUS
  <2>1. n - x <= n - y
    BY <1>2, <1>3
  <2>2. x \in Int /\ y \in Int
    BY <1>0, <1>3
  <2> QED
    BY <2>1, <2>2
<1> QED
  BY <1>3, <1>4 DEF Max

-----------------------------------------------------------------------------
(* The sequences.                                                          *)

\* A sequence that is not empty is a shorter one and its last element.
LEMMA FrontAndLast ==
  ASSUME NEW S, NEW s \in Seq(S), NEW n \in Nat, Len(s) = n + 1
  PROVE  /\ SubSeq(s, 1, n) \in Seq(S) /\ Len(SubSeq(s, 1, n)) = n
         /\ s[n + 1] \in S
         /\ s = SubSeq(s, 1, n) \o <<s[n + 1]>>
<1> DEFINE m == n + 1
<1>1. m \in 1 .. Len(s) /\ Len(s) = m /\ 1 \in 1 .. Len(s) /\ m \in 1 .. m /\ m - 1 = n
      /\ m \in Int /\ n \in Int
  OBVIOUS
<1>2. \A i \in 1 .. n : s[i] \in S
  <2>1. \A i \in 1 .. n : i \in 1 .. Len(s)
    BY <1>1
  <2> QED
    BY <2>1, ElementOfSeq
<1>3. s[m] \in S
  BY <1>1, ElementOfSeq
<1>4. SubSeq(s, 1, n) \in Seq(S) /\ Len(SubSeq(s, 1, n)) = IF 1 <= n THEN n - 1 + 1 ELSE 0
  BY <1>1, <1>2, SubSeqProperties
<1>5. SubSeq(s, 1, m) = SubSeq(s, 1, n) \o <<s[m]>>
  <2> HIDE DEF m
  <2>1. m \in 1 .. Len(s)
    BY <1>1
  <2>2. 1 \in 1 .. Len(s) /\ m \in 1 .. Len(s) /\ m - 1 = n
    BY <1>1
  <2>3. SubSeq(s, 1, m) = SubSeq(s, 1, m - 1) \o <<s[m]>>
    BY <2>2, SubSeqRecursiveSecond
  <2> QED
    BY <2>2, <2>3
<1>6. SubSeq(s, 1, m) = s
  BY <1>1, SubSeqFull
<1> QED
  BY <1>3, <1>4, <1>5, <1>6

\* What holds of the empty sequence, and of a longer one when it holds of the
\* sequence before, holds of every sequence.
THEOREM SeqInduct ==
  ASSUME NEW S, NEW G,
         <<>> \in G, \A s \in Seq(S), e \in S : s \in G => s \o <<e>> \in G
  PROVE  \A s \in Seq(S) : s \in G
<1> DEFINE Bad == {n \in Nat : \E s \in Seq(S) : Len(s) = n /\ s \notin G}
<1>1. SUFFICES ASSUME Bad # {} PROVE FALSE
  <2>1. \A s \in Seq(S) : Len(s) \in Nat
    BY LenProperties
  <2> QED
    BY <2>1, Zenon
<1>2. PICK m \in Bad : \A n \in Bad : m <= n
  <2>1. Bad \subseteq Nat
    OBVIOUS
  <2> HIDE DEF Bad
  <2> QED
    BY <1>1, <2>1, LeastMember
<1>3. PICK s \in Seq(S) : Len(s) = m /\ s \notin G
  BY <1>2
<1>4. m \in Nat /\ m # 0
  <2>1. m \in Nat
    BY <1>2
  <2>2. s # <<>>
    BY <1>3
  <2> QED
    BY <1>3, <2>1, <2>2, EmptySeq
<1> DEFINE n == m - 1
<1>5. n \in Nat /\ Len(s) = n + 1 /\ ~(m <= n)
  BY <1>3, <1>4
<1>6. n \notin Bad
  <2> HIDE DEF Bad, n
  <2> QED
    BY <1>2, <1>5
<1> HIDE DEF n
<1> DEFINE f == SubSeq(s, 1, n)
           e == s[n + 1]
<1>7. f \in Seq(S) /\ Len(f) = n /\ e \in S /\ s = f \o <<e>>
  BY <1>5, FrontAndLast
<1> HIDE DEF f, e
<1>8. f \in G
  BY <1>5, <1>6, <1>7
<1> QED
  BY <1>3, <1>7, <1>8, Zenon

-----------------------------------------------------------------------------
(* Folds.                                                                  *)

\* The fold of s from the left, beginning with base.
Folded(k, base, s) == FoldLeft(LAMBDA a, e : Op(k, a, e), base, s)

\* g is the function that the fold of s computes, up to place n.
Body(g, k, base, s, t) ==
  IF t = {} THEN base ELSE Op(k, g[t \ {Max(t)}], s[Max(t)])
Folds(g, k, base, s, n) == g = [t \in SUBSET (1 .. n) |-> Body(g, k, base, s, t)]

\* There is such a function: a set of places with n + 1 in it comes after the
\* same set without it.
LEMMA FoldGoesOn ==
  ASSUME NEW n \in Nat, NEW k, NEW base, NEW s, NEW g,
         Folds(g, k, base, s, n)
  PROVE  \E h : Folds(h, k, base, s, n + 1)
<1> DEFINE m == n + 1
           h == [t \in SUBSET (1 .. m) |->
                   IF m \in t THEN Op(k, g[t \ {m}], s[m]) ELSE g[t]]
<1>1. ASSUME NEW t \in SUBSET (1 .. m)
      PROVE  h[t] = Body(h, k, base, s, t)
  <2>1. CASE m \in t
    <3>1. t # {} /\ m \in Nat /\ t \ {m} \in SUBSET (1 .. n)
      BY <2>1
    <3>2. Max(t) = m
      <4>1. Max(t) \in t /\ Max(t) >= m
        BY <2>1, <3>1, MaxOf
      <4>2. Max(t) \in Int /\ Max(t) <= m
        <5>1. Max(t) \in 1 .. m
          BY <4>1
        <5> QED
          BY <5>1
      <4> HIDE DEF m
      <4> QED
        BY <3>1, <4>1, <4>2
    <3>3. t \ {m} \in SUBSET (1 .. m) /\ m \notin t \ {m}
      BY <3>1
    <3>4. h[t \ {m}] = g[t \ {m}]
      BY <3>3
    <3>5. h[t] = Op(k, g[t \ {m}], s[m])
      BY <2>1
    <3> HIDE DEF h, m
    <3> QED
      BY <3>1, <3>2, <3>4, <3>5, Zenon DEF Body
  <2>2. CASE m \notin t
    <3>1. t \in SUBSET (1 .. n)
      BY <2>2
    <3>2. h[t] = Body(g, k, base, s, t)
      BY <2>2, <3>1 DEF Folds
    <3>3. CASE t = {}
      BY <3>2, <3>3 DEF Body
    <3>4. CASE t # {}
      <4>1. Max(t) \in t
        BY <3>1, <3>4, MaxOf
      <4>2. t \ {Max(t)} \in SUBSET (1 .. m) /\ m \notin t \ {Max(t)}
        BY <2>2
      <4>3. h[t \ {Max(t)}] = g[t \ {Max(t)}]
        BY <4>2
      <4> HIDE DEF h, m
      <4> QED
        BY <3>2, <3>4, <4>3, Zenon DEF Body
    <3> QED
      BY <3>3, <3>4
  <2> QED
    BY <2>1, <2>2
<1>2. Folds(h, k, base, s, m)
  <2>1. h = [t \in SUBSET (1 .. m) |-> h[t]]
    OBVIOUS
  <2> HIDE DEF h, m
  <2> QED
    BY <1>1, <2>1, Zenon DEF Folds
<1> QED
  BY <1>2

LEMMA FoldExists ==
  ASSUME NEW k, NEW base, NEW s
  PROVE  \A n \in Nat : \E g : Folds(g, k, base, s, n)
<1> DEFINE Bad == {n \in Nat : ~ \E g : Folds(g, k, base, s, n)}
<1> SUFFICES ASSUME Bad # {} PROVE FALSE
  OBVIOUS
<1>1. PICK m \in Bad : \A n \in Bad : m <= n
  <2> HIDE DEF Folds
  <2> QED
    BY LeastMember
<1>2. CASE m = 0
  <2> DEFINE g == [t \in SUBSET (1 .. 0) |-> base]
  <2>1. \A t \in SUBSET (1 .. 0) : t = {}
    OBVIOUS
  <2>2. Folds(g, k, base, s, 0)
    BY <2>1 DEF Folds, Body
  <2> QED
    BY <1>1, <1>2, <2>2, Zenon
<1>3. CASE m # 0
  <2>1. m - 1 \in Nat /\ ~(m <= m - 1) /\ (m - 1) + 1 = m
    BY <1>1, <1>3
  <2>2. PICK g : Folds(g, k, base, s, m - 1)
    BY <1>1, <2>1
  <2>3. \E h : Folds(h, k, base, s, m)
    BY <2>1, <2>2, FoldGoesOn
  <2> QED
    BY <1>1, <2>3
<1> QED
  BY <1>2, <1>3

\* What it computes for a prefix depends on the prefix only.
LEMMA FoldPrefix ==
  ASSUME NEW k, NEW base, NEW s, NEW t, NEW g, NEW h, NEW n \in Nat, NEW m \in Nat,
         Folds(g, k, base, s, n), Folds(h, k, base, t, m)
  PROVE  \A i \in Nat :
           i <= n /\ i <= m /\ (\A j \in 1 .. i : s[j] = t[j]) => g[1 .. i] = h[1 .. i]
<1> DEFINE Bad == {i \in Nat : /\ i <= n /\ i <= m /\ \A j \in 1 .. i : s[j] = t[j]
                               /\ g[1 .. i] # h[1 .. i]}
<1> SUFFICES ASSUME Bad # {} PROVE FALSE
  OBVIOUS
<1>1. PICK i \in Bad : \A j \in Bad : i <= j
  BY LeastMember
<1>2. i \in Nat /\ i <= n /\ i <= m /\ (\A j \in 1 .. i : s[j] = t[j])
      /\ g[1 .. i] # h[1 .. i]
  BY <1>1
<1>3. 1 .. i \in SUBSET (1 .. n) /\ 1 .. i \in SUBSET (1 .. m)
  BY <1>2
<1>4. g[1 .. i] = Body(g, k, base, s, 1 .. i) /\ h[1 .. i] = Body(h, k, base, t, 1 .. i)
  BY <1>3, Zenon DEF Folds
<1>5. i # 0
  <2>1. i = 0 => 1 .. i = {}
    BY <1>2
  <2> QED
    BY <1>2, <1>4, <2>1, Zenon DEF Body
<1>6. Max(1 .. i) = i
  <2>1. 1 .. i # {} /\ i \in 1 .. i
    BY <1>2, <1>5
  <2>2. Max(1 .. i) \in 1 .. i /\ Max(1 .. i) >= i
    BY <1>2, <2>1, MaxOf
  <2> QED
    BY <1>2, <2>2
<1>7. (1 .. i) \ {i} = 1 .. (i - 1) /\ 1 .. i # {} /\ i \in 1 .. i
  BY <1>2, <1>5
<1>8. g[1 .. (i - 1)] = h[1 .. (i - 1)]
  <2>1. i - 1 \in Nat /\ ~(i <= i - 1) /\ i - 1 <= n /\ i - 1 <= m
        /\ \A j \in 1 .. (i - 1) : s[j] = t[j]
    BY <1>2, <1>5
  <2> QED
    BY <1>1, <2>1
<1>9. s[i] = t[i]
  BY <1>2, <1>7
<1> HIDE DEF Bad
<1> QED
  BY <1>2, <1>4, <1>6, <1>7, <1>8, <1>9, Zenon DEF Body

\* Folded is what any such function says.
LEMMA FoldIs ==
  ASSUME NEW k, NEW base, NEW s, NEW n \in Nat, DOMAIN s = 1 .. n
  PROVE  \E g : Folds(g, k, base, s, n) /\ Folded(k, base, s) = g[1 .. n]
<1> DEFINE it == CHOOSE g : g = [t \in SUBSET (1 .. n) |-> Body(g, k, base, s, t)]
<1>1. Folded(k, base, s) = it[1 .. n]
  BY DEF Folded, FoldLeft, MapThenFoldSet, Body
<1>2. \E g : g = [t \in SUBSET (1 .. n) |-> Body(g, k, base, s, t)]
  <2>1. \E g : Folds(g, k, base, s, n)
    BY FoldExists, Zenon
  <2> QED
    BY <2>1, Zenon DEF Folds
<1>3. Folds(it, k, base, s, n)
  BY <1>2, Zenon DEF Folds
<1> HIDE DEF it
<1> QED
  BY <1>1, <1>3

\* Nothing folds to the base.
THEOREM FoldNone == ASSUME NEW k, NEW base PROVE Folded(k, base, <<>>) = base
<1>1. DOMAIN <<>> = 1 .. 0
  OBVIOUS
<1>2. PICK g : Folds(g, k, base, <<>>, 0) /\ Folded(k, base, <<>>) = g[1 .. 0]
  BY <1>1, FoldIs
<1>3. 1 .. 0 = {} /\ 1 .. 0 \in SUBSET (1 .. 0)
  OBVIOUS
<1> QED
  BY <1>2, <1>3, Zenon DEF Folds, Body

\* A sequence folds to what its last element makes of the fold of the others.
THEOREM FoldLast ==
  ASSUME NEW k, NEW base, NEW s, NEW t,
         NEW n \in Nat, NEW m, m = n + 1,
         DOMAIN s = 1 .. n, DOMAIN t = 1 .. m, \A i \in 1 .. n : t[i] = s[i]
  PROVE  Folded(k, base, t) = Op(k, Folded(k, base, s), t[m])
<1>0. m \in Nat /\ n <= m /\ n <= n
  OBVIOUS
<1>1. PICK g : Folds(g, k, base, s, n) /\ Folded(k, base, s) = g[1 .. n]
  BY FoldIs
<1>2. PICK h : Folds(h, k, base, t, m) /\ Folded(k, base, t) = h[1 .. m]
  BY <1>0, FoldIs
<1>3. g[1 .. n] = h[1 .. n]
  BY <1>0, <1>1, <1>2, FoldPrefix
<1>4. Max(1 .. m) = m
  <2>1. 1 .. m # {} /\ m \in 1 .. m
    OBVIOUS
  <2>2. Max(1 .. m) \in 1 .. m /\ Max(1 .. m) >= m
    BY <1>0, <2>1, MaxOf
  <2> QED
    BY <1>0, <2>2
<1>5. (1 .. m) \ {m} = 1 .. n /\ 1 .. m # {}
  OBVIOUS
<1>6. h[1 .. m] = Body(h, k, base, t, 1 .. m)
  <2>1. 1 .. m \in SUBSET (1 .. m)
    OBVIOUS
  <2> QED
    BY <1>2, <2>1, Zenon DEF Folds
<1>7. h[1 .. m] = Op(k, h[1 .. n], t[m])
  BY <1>4, <1>5, <1>6, Zenon DEF Body
<1> QED
  BY <1>1, <1>2, <1>3, <1>7, Zenon

\* One more element at the end, one more step.
THEOREM FoldAppend ==
  ASSUME NEW k, NEW base, NEW S, NEW s \in Seq(S), NEW e \in S
  PROVE  Folded(k, base, s \o <<e>>) = Op(k, Folded(k, base, s), e)
<1> DEFINE n == Len(s)
           m == n + 1
           t == s \o <<e>>
<1>1. n \in Nat /\ DOMAIN s = 1 .. n
  BY LenProperties
<1>2. <<e>> \in Seq(S) /\ Len(<<e>>) = 1 /\ <<e>>[1] = e
  OBVIOUS
<1>3. /\ t \in Seq(S) /\ Len(t) = m /\ \A i \in 1 .. n : t[i] = s[i]
      /\ \A i \in 1 .. 1 : t[n + i] = <<e>>[i]
  BY <1>1, <1>2, ConcatProperties
<1>4. t[m] = e
  BY <1>2, <1>3
<1>5. DOMAIN t = 1 .. m
  <2> HIDE DEF t, m
  <2> QED
    BY <1>3, LenProperties
<1>6. m = n + 1
  OBVIOUS
<1> HIDE DEF t, n, m
<1>7. Folded(k, base, t) = Op(k, Folded(k, base, s), t[m])
  BY <1>1, <1>3, <1>5, <1>6, FoldLast
<1> QED
  BY <1>4, <1>7 DEF t

\* Three sequences of members of X are put together in either order.
LEMMA ConcatThree ==
  ASSUME NEW X, NEW f, NEW g, NEW e, f \in Seq(X), g \in Seq(X), e \in Seq(X)
  PROVE  f \o (g \o e) = (f \o g) \o e
<1>1. (f \o g) \o e = f \o (g \o e)
  OBVIOUS
<1> QED
  BY <1>1

\* A fold over two sequences is one over the second that starts from the first's.
THEOREM FoldConcat ==
  ASSUME NEW k, NEW base, NEW S, NEW s \in Seq(S), NEW t \in Seq(S)
  PROVE  Folded(k, base, s \o t) = Folded(k, Folded(k, base, s), t)
<1> DEFINE G == {u \in Seq(S) : Folded(k, base, s \o u) = Folded(k, Folded(k, base, s), u)}
<1>1. <<>> \in G
  BY EmptySeq, ConcatEmptySeq, FoldNone
<1>2. ASSUME NEW u \in Seq(S), NEW e \in S, u \in G PROVE u \o <<e>> \in G
  <2> DEFINE one == <<e>>
  <2>1. one \in Seq(S)
    OBVIOUS
  <2> HIDE DEF one
  <2>2. u \o one \in Seq(S) /\ s \o u \in Seq(S) /\ s \o (u \o one) = (s \o u) \o one
    <3>1. u \o one \in Seq(S) /\ s \o u \in Seq(S)
      BY <2>1, ConcatProperties
    <3>2. s \o (u \o one) = (s \o u) \o one
      BY <2>1
    <3> QED
      BY <3>1, <3>2
  <2>3. Folded(k, base, (s \o u) \o <<e>>) = Op(k, Folded(k, base, s \o u), e)
    <3> DEFINE v == s \o u
    <3>1. v \in Seq(S)
      BY <2>2
    <3> HIDE DEF v
    <3>2. Folded(k, base, v \o <<e>>) = Op(k, Folded(k, base, v), e)
      BY <3>1, FoldAppend
    <3> QED
      BY <3>2 DEF v
  <2>4. Folded(k, Folded(k, base, s), u \o <<e>>) = Op(k, Folded(k, Folded(k, base, s), u), e)
    BY FoldAppend
  <2> QED
    BY <1>2, <2>2, <2>3, <2>4 DEF one
<1>3. \A u \in Seq(S), e \in S : u \in G => u \o <<e>> \in G
  BY <1>2
<1> HIDE DEF G
<1>4. t \in G
  BY <1>1, <1>3, SeqInduct
<1> QED
  BY <1>4 DEF G

-----------------------------------------------------------------------------
(* Sequences put together.                                                 *)

\* f is what FlattenSeq computes of the first n sequences of s.
Flattens(f, s, n) ==
  f = [i \in 1 .. n |-> IF i = 1 THEN s[i] ELSE f[i - 1] \o s[i]]

LEMMA FlattenExists ==
  ASSUME NEW s PROVE \A n \in Nat : \E f : Flattens(f, s, n)
<1> DEFINE Bad == {n \in Nat : ~ \E f : Flattens(f, s, n)}
<1> SUFFICES ASSUME Bad # {} PROVE FALSE
  OBVIOUS
<1>1. PICK m \in Bad : \A n \in Bad : m <= n
  <2> HIDE DEF Flattens
  <2> QED
    BY LeastMember
<1>2. CASE m = 0
  <2> DEFINE f == [i \in 1 .. 0 |-> s[i]]
  <2>1. \A i \in 1 .. 0 : FALSE
    OBVIOUS
  <2>2. Flattens(f, s, 0)
    BY <2>1 DEF Flattens
  <2> QED
    BY <1>1, <1>2, <2>2, Zenon
<1>3. CASE m # 0
  <2>1. m \in Nat /\ m - 1 \in Nat /\ ~(m <= m - 1)
    BY <1>1, <1>3
  <2>2. PICK g : Flattens(g, s, m - 1)
    BY <1>1, <2>1
  <2> DEFINE h == [i \in 1 .. m |-> IF i = m THEN IF m = 1 THEN s[m] ELSE g[m - 1] \o s[m]
                                   ELSE g[i]]
  <2>3. ASSUME NEW i \in 1 .. m
        PROVE  h[i] = IF i = 1 THEN s[i] ELSE h[i - 1] \o s[i]
    <3>1. CASE i = m
      <4>1. i # 1 => i - 1 \in 1 .. m /\ i - 1 # m
        BY <2>1, <3>1
      <4> QED
        BY <3>1, <4>1
    <3>2. CASE i # m
      <4>1. i \in 1 .. m - 1 /\ (i # 1 => i - 1 \in 1 .. m /\ i - 1 # m)
        BY <2>1, <3>2
      <4>2. g[i] = IF i = 1 THEN s[i] ELSE g[i - 1] \o s[i]
        BY <2>2, <4>1 DEF Flattens
      <4>3. h[i] = g[i] /\ (i # 1 => h[i - 1] = g[i - 1])
        BY <3>2, <4>1
      <4> HIDE DEF h
      <4> QED
        BY <4>2, <4>3, Zenon
    <3> QED
      BY <3>1, <3>2
  <2>4. h = [i \in 1 .. m |-> h[i]]
    OBVIOUS
  <2> HIDE DEF h
  <2>5. Flattens(h, s, m)
    BY <2>3, <2>4, Zenon DEF Flattens
  <2> QED
    BY <1>1, <2>5
<1> QED
  BY <1>2, <1>3

LEMMA FlattenIs ==
  ASSUME NEW s, NEW n \in Nat \ {0}, Len(s) = n
  PROVE  \E f : Flattens(f, s, n) /\ FlattenSeq(s) = f[n]
<1> DEFINE it == CHOOSE f : f = [i \in 1 .. n |-> IF i = 1 THEN s[i] ELSE f[i - 1] \o s[i]]
<1>1. FlattenSeq(s) = it[n]
  BY DEF FlattenSeq
<1>2. \E f : f = [i \in 1 .. n |-> IF i = 1 THEN s[i] ELSE f[i - 1] \o s[i]]
  <2>1. \E f : Flattens(f, s, n)
    BY FlattenExists, Zenon
  <2> QED
    BY <2>1, Zenon DEF Flattens
<1>3. Flattens(it, s, n)
  BY <1>2, Zenon DEF Flattens
<1> HIDE DEF it
<1> QED
  BY <1>1, <1>3

\* What it computes of a prefix depends on the prefix only.
LEMMA FlattenPrefix ==
  ASSUME NEW s, NEW t, NEW f, NEW g, NEW n \in Nat, NEW m \in Nat, n <= m,
         Flattens(f, s, n), Flattens(g, t, m), \A i \in 1 .. n : s[i] = t[i]
  PROVE  \A i \in 1 .. n : f[i] = g[i]
<1> DEFINE Bad == {i \in 1 .. n : f[i] # g[i]}
<1> SUFFICES ASSUME Bad # {} PROVE FALSE
  OBVIOUS
<1>1. PICK i \in Bad : \A j \in Bad : i <= j
  <2>1. Bad \subseteq Nat
    OBVIOUS
  <2> HIDE DEF Bad
  <2> QED
    BY <2>1, LeastMember
<1>2. i \in 1 .. n /\ i \in 1 .. m /\ f[i] # g[i]
  BY <1>1
<1>3. /\ f[i] = IF i = 1 THEN s[i] ELSE f[i - 1] \o s[i]
      /\ g[i] = IF i = 1 THEN t[i] ELSE g[i - 1] \o t[i]
  BY <1>2, Zenon DEF Flattens
<1>4. ASSUME i # 1 PROVE f[i - 1] = g[i - 1]
  <2>1. i - 1 \in 1 .. n /\ ~(i <= i - 1)
    BY <1>2, <1>4
  <2> QED
    BY <1>1, <2>1
<1> QED
  BY <1>2, <1>3, <1>4, Zenon

\* No sequence, and one.
THEOREM FlattenNone == FlattenSeq(<<>>) = <<>>
BY DEF FlattenSeq

\* One sequence flattened is that sequence.
THEOREM FlattenOne ==
  ASSUME NEW s, Len(s) = 1 PROVE FlattenSeq(s) = s[1]
<1> DEFINE n == 1
<1>0. n \in Nat \ {0} /\ Len(s) = n
  OBVIOUS
<1>2. 1 \in 1 .. 1 /\ n = 1
  OBVIOUS
<1> HIDE DEF n
<1>1. PICK f : Flattens(f, s, n) /\ FlattenSeq(s) = f[n]
  BY <1>0, FlattenIs
<1> QED
  BY <1>1, <1>2, Zenon DEF Flattens

\* The last of several is put at the end.
THEOREM FlattenLast ==
  ASSUME NEW s, NEW t, Len(s) \in Nat \ {0}, Len(t) = Len(s) + 1,
         \A i \in 1 .. Len(s) : s[i] = t[i]
  PROVE  FlattenSeq(t) = FlattenSeq(s) \o t[Len(t)]
<1> DEFINE n == Len(s)
           m == Len(t)
<1>n. n \in Nat \ {0} /\ m = n + 1 /\ Len(s) = n /\ Len(t) = m
      /\ \A i \in 1 .. n : s[i] = t[i]
  OBVIOUS
<1> HIDE DEF n, m
<1>0. m \in Nat \ {0} /\ n \in Nat /\ m \in Nat /\ n <= m /\ m # 1 /\ m - 1 = n
      /\ m \in 1 .. m /\ n \in 1 .. n
  BY <1>n
<1>1. PICK f : Flattens(f, s, n) /\ FlattenSeq(s) = f[n]
  BY <1>n, FlattenIs
<1>2. PICK g : Flattens(g, t, m) /\ FlattenSeq(t) = g[m]
  BY <1>n, <1>0, FlattenIs
<1>3. f[n] = g[n]
  BY <1>n, <1>0, <1>1, <1>2, FlattenPrefix
<1>4. g[m] = g[m - 1] \o t[m]
  BY <1>0, <1>2, Zenon DEF Flattens
<1>5. FlattenSeq(t) = FlattenSeq(s) \o t[m]
  BY <1>0, <1>1, <1>2, <1>3, <1>4
<1> QED
  BY <1>5 DEF m

\* One more sequence is put at the end, be it the first.
THEOREM FlattenAppend ==
  ASSUME NEW X, NEW s \in Seq(Seq(X)), NEW e \in Seq(X)
  PROVE  FlattenSeq(s \o <<e>>) = FlattenSeq(s) \o e
<1> DEFINE n == Len(s)
           m == n + 1
           t == s \o <<e>>
           S == Seq(X)
<1> HIDE DEF S
<1>0. s \in Seq(S) /\ e \in S
  BY DEF S
<1>1. <<e>> \in Seq(S) /\ Len(<<e>>) = 1 /\ <<e>>[1] = e /\ n \in Nat
  BY <1>0, LenProperties
<1>2. /\ t \in Seq(S) /\ Len(t) = m /\ \A i \in 1 .. n : t[i] = s[i]
      /\ \A i \in 1 .. 1 : t[n + i] = <<e>>[i]
  BY <1>0, <1>1, ConcatProperties
<1>3. t[m] = e /\ m = n + 1
  BY <1>1, <1>2
<1>4. CASE n = 0
  <2>1. s = <<>>
    BY <1>0, <1>4, EmptySeq
  <2>2. Len(t) = 1 /\ t[1] = e
    BY <1>2, <1>3, <1>4
  <2> HIDE DEF t
  <2>3. FlattenSeq(t) = e
    BY <2>2, FlattenOne
  <2>4. <<>> \o e = e
    BY ConcatEmptySeq
  <2> QED
    BY <2>1, <2>3, <2>4, FlattenNone DEF t
<1>5. CASE n # 0
  <2> HIDE DEF t
  <2>1. /\ Len(s) \in Nat \ {0} /\ Len(t) = Len(s) + 1
        /\ \A i \in 1 .. Len(s) : s[i] = t[i]
    BY <1>1, <1>2, <1>5
  <2>2. FlattenSeq(t) = FlattenSeq(s) \o t[Len(t)]
    BY <2>1, FlattenLast
  <2>3. t[Len(t)] = e
    BY <1>2, <1>3
  <2> QED
    BY <2>2, <2>3 DEF t
<1> QED
  BY <1>4, <1>5

\* Sequences of members of X, put together, are one of members of X.
THEOREM FlattenTyped ==
  ASSUME NEW X PROVE \A s \in Seq(Seq(X)) : FlattenSeq(s) \in Seq(X)
<1> DEFINE S == Seq(X)
           G == {s \in Seq(S) : FlattenSeq(s) \in Seq(X)}
<1>1. <<>> \in G
  BY EmptySeq, FlattenNone
<1>2. ASSUME NEW s \in Seq(S), NEW e \in S, s \in G PROVE s \o <<e>> \in G
  <2>1. FlattenSeq(s \o <<e>>) = FlattenSeq(s) \o e
    BY FlattenAppend
  <2>2. FlattenSeq(s) \o e \in Seq(X)
    <3> DEFINE f == FlattenSeq(s)
    <3>1. f \in Seq(X) /\ e \in Seq(X)
      BY <1>2
    <3> HIDE DEF f
    <3>2. f \o e \in Seq(X)
      BY <3>1, ConcatProperties
    <3> QED
      BY <3>2 DEF f
  <2>3. s \o <<e>> \in Seq(S)
    <3> HIDE DEF S
    <3>1. <<e>> \in Seq(S)
      OBVIOUS
    <3> QED
      BY <3>1, ConcatProperties
  <2> QED
    BY <2>1, <2>2, <2>3
<1>3. \A s \in Seq(S), e \in S : s \in G => s \o <<e>> \in G
  BY <1>2
<1> HIDE DEF G
<1>4. \A s \in Seq(S) : s \in G
  <2> HIDE DEF S
  <2> QED
    BY <1>1, <1>3, SeqInduct
<1> QED
  BY <1>4 DEF G

\* Two lists of sequences may be put together first or last.
THEOREM FlattenConcat ==
  ASSUME NEW X, NEW s \in Seq(Seq(X)), NEW t \in Seq(Seq(X))
  PROVE  FlattenSeq(s \o t) = FlattenSeq(s) \o FlattenSeq(t)
<1> DEFINE S == Seq(X)
           G == {u \in Seq(S) : FlattenSeq(s \o u) = FlattenSeq(s) \o FlattenSeq(u)}
<1>0. s \in Seq(S) /\ t \in Seq(S) /\ FlattenSeq(s) \in Seq(X)
  BY FlattenTyped
<1>1. <<>> \in G
  <2>1. s \o <<>> = s
    <3> HIDE DEF S
    <3> QED
      BY <1>0, ConcatEmptySeq
  <2>2. FlattenSeq(s) \o <<>> = FlattenSeq(s)
    BY <1>0, ConcatEmptySeq
  <2> QED
    BY <2>1, <2>2, EmptySeq, FlattenNone
<1>2. ASSUME NEW u \in Seq(S), NEW e \in S, u \in G PROVE u \o <<e>> \in G
  <2>1. FlattenSeq(u \o <<e>>) = FlattenSeq(u) \o e
    BY FlattenAppend
  <2>2. u \o <<e>> \in Seq(S) /\ s \o u \in Seq(S) /\ s \o (u \o <<e>>) = (s \o u) \o <<e>>
    <3> DEFINE one == <<e>>
    <3> HIDE DEF S
    <3>1. one \in Seq(S)
      OBVIOUS
    <3> HIDE DEF one
    <3>2. s \in Seq(S) /\ u \in Seq(S) /\ one \in Seq(S)
      BY <1>0, <3>1
    <3>3. u \o one \in Seq(S)
      BY <3>2, ConcatProperties
    <3>4. s \o u \in Seq(S)
      BY <3>2, ConcatProperties
    <3>5. s \o (u \o one) = (s \o u) \o one
      BY <3>2
    <3> QED
      BY <3>3, <3>4, <3>5 DEF one
  <2>3. FlattenSeq((s \o u) \o <<e>>) = FlattenSeq(s \o u) \o e
    BY <2>2, FlattenAppend
  <2>4. FlattenSeq(s) \o (FlattenSeq(u) \o e) = (FlattenSeq(s) \o FlattenSeq(u)) \o e
    <3>1. FlattenSeq(u) \in Seq(X)
      BY FlattenTyped
    <3> DEFINE f == FlattenSeq(s)
               g == FlattenSeq(u)
    <3>2. f \in Seq(X) /\ g \in Seq(X) /\ e \in Seq(X)
      BY <1>0, <3>1
    <3> HIDE DEF f, g, S
    <3>3. f \o (g \o e) = (f \o g) \o e
      BY <3>2
    <3> QED
      BY <3>3 DEF f, g
  <2>5. FlattenSeq(s \o u) = FlattenSeq(s) \o FlattenSeq(u)
    BY <1>2
  <2> QED
    BY <2>1, <2>2, <2>3, <2>4, <2>5, Zenon
<1>3. \A u \in Seq(S), e \in S : u \in G => u \o <<e>> \in G
  BY <1>2
<1> HIDE DEF G
<1>4. t \in G
  <2> HIDE DEF S
  <2> QED
    BY <1>0, <1>1, <1>3, SeqInduct
<1> QED
  BY <1>4 DEF G

\* The elements of one of the sequences come after those of the ones before it.
THEOREM FlattenAt ==
  ASSUME NEW X, NEW s \in Seq(Seq(X)), NEW c \in 1 .. Len(s)
  PROVE  LET before == Len(FlattenSeq(SubSeq(s, 1, c - 1)))
         IN  /\ before \in Nat
             /\ Len(FlattenSeq(SubSeq(s, 1, c))) = before + Len(s[c])
             /\ \A j \in 1 .. Len(s[c]) :
                  /\ before + j \in 1 .. Len(FlattenSeq(s))
                  /\ FlattenSeq(s)[before + j] = s[c][j]
<1> DEFINE S == Seq(X)
           a == SubSeq(s, 1, c - 1)
           b == SubSeq(s, 1, c)
           z == SubSeq(s, c + 1, Len(s))
           e == s[c]
<1>1. s \in Seq(S) /\ Len(s) \in Nat /\ \A i \in 1 .. Len(s) : s[i] \in S
  BY LenProperties, ElementOfSeq
<1>2. a \in Seq(S) /\ b \in Seq(S) /\ z \in Seq(S) /\ e \in S
  <2> HIDE DEF S
  <2>1. (\A i \in 1 .. c - 1 : s[i] \in S) /\ (\A i \in 1 .. c : s[i] \in S)
        /\ (\A i \in c + 1 .. Len(s) : s[i] \in S)
    BY <1>1
  <2>2. e \in S
    BY <1>1
  <2> DEFINE m == c - 1
             n == c + 1
  <2>3. c \in Int /\ m \in Int /\ n \in Int /\ Len(s) \in Int /\ 1 \in Int
    BY <1>1
  <2>4. SubSeq(s, 1, c) \in Seq(S)
    BY <2>1, <2>3, SubSeqProperties
  <2>5. SubSeq(s, 1, m) \in Seq(S) /\ SubSeq(s, n, Len(s)) \in Seq(S)
    <3>1. (\A i \in 1 .. m : s[i] \in S) /\ (\A i \in n .. Len(s) : s[i] \in S)
      BY <2>1
    <3> HIDE DEF m, n
    <3> QED
      BY <2>3, <3>1, SubSeqProperties
  <2> QED
    BY <2>2, <2>4, <2>5
<1>3. b = a \o <<e>>
  <2> HIDE DEF S
  <2>1. 1 \in 1 .. Len(s) /\ c \in 1 .. Len(s) /\ 1 <= c
    BY <1>1
  <2> QED
    BY <1>1, <2>1, SubSeqRecursiveSecond
<1>4. s = b \o z
  <2> HIDE DEF S
  <2>1. ASSUME NEW i \in 1 .. Len(s) PROVE s[i] = (b \o z)[i]
    <3>1. Len(b) = c /\ Len(z) = Len(s) - c
      BY <1>1
    <3> QED
      BY <1>1, <1>2, <3>1
  <2>2. Len(b \o z) = Len(s) /\ b \o z \in Seq(S)
    BY <1>1, <1>2
  <2> QED
    BY <1>1, <2>1, <2>2, SeqEqual
<1> HIDE DEF a, b, z, e
<1> DEFINE f == FlattenSeq(a)
           g == FlattenSeq(b)
           h == FlattenSeq(z)
<1>5. f \in Seq(X) /\ g \in Seq(X) /\ h \in Seq(X) /\ e \in Seq(X)
  BY <1>2, FlattenTyped
<1>6. g = f \o e
  BY <1>2, <1>3, FlattenAppend
<1>7. FlattenSeq(s) = g \o h
  BY <1>2, <1>4, FlattenConcat
<1> HIDE DEF f, g, h, S
<1>8. Len(f) \in Nat /\ Len(e) \in Nat /\ Len(h) \in Nat /\ Len(g) = Len(f) + Len(e)
      /\ Len(g \o h) = Len(g) + Len(h)
  BY <1>5, <1>6, LenProperties, ConcatProperties
<1>9. ASSUME NEW j \in 1 .. Len(e)
      PROVE  /\ Len(f) + j \in 1 .. Len(g \o h)
             /\ (g \o h)[Len(f) + j] = e[j]
  <2>1. Len(f) + j \in 1 .. Len(g) /\ Len(f) + j \in 1 .. Len(g \o h)
    BY <1>8
  <2>2. g[Len(f) + j] = e[j]
    BY <1>5, <1>6, ConcatProperties
  <2>3. (g \o h)[Len(f) + j] = g[Len(f) + j]
    BY <1>5, <2>1, ConcatProperties
  <2> QED
    BY <2>1, <2>2, <2>3
<1> QED
  BY <1>7, <1>8, <1>9 DEF a, b, e, f, g
=============================================================================
