----------------------------- MODULE ListProofs -----------------------------
(***************************************************************************)
(* Facts about the operations on lists and about sums, for any list.       *)
(***************************************************************************)
EXTENDS Lists, WellFoundedInduction, TLAPS

\* What the list operations of the round robins do to the elements of a list,
\* and that none of them puts an element in twice.
LEMMA AppendElems ==
  ASSUME NEW S, NEW s \in Seq(S), NEW x \in S
  PROVE  /\ Elems(Append(s, x)) = Elems(s) \union {x}
         /\ Distinct(s) /\ x \notin Elems(s) => Distinct(Append(s, x))
  <1> DEFINE a == Append(s, x)
  <1>1. /\ Len(a) = Len(s) + 1
        /\ \A i \in 1 .. Len(s) : a[i] = s[i]
        /\ a[Len(s) + 1] = x
        /\ DOMAIN a = 1 .. Len(s) + 1
        /\ DOMAIN s = 1 .. Len(s)
        /\ Len(s) \in Nat
    OBVIOUS
  <1> HIDE DEF a
  <1>2. Elems(a) = Elems(s) \union {x}
    BY <1>1 DEF Elems
  <1>3. ASSUME Distinct(s), x \notin Elems(s)
        PROVE  Distinct(a)
    BY <1>1, <1>3 DEF Distinct, Elems
  <1>. QED
    BY <1>2, <1>3 DEF a

LEMMA TailElems ==
  ASSUME NEW S, NEW s \in Seq(S), s # <<>>
  PROVE  /\ Elems(s) = Elems(Tail(s)) \union {Head(s)}
         /\ Distinct(s) => Distinct(Tail(s)) /\ Head(s) \notin Elems(Tail(s))
  <1> DEFINE t == Tail(s)
  <1>1. /\ Len(s) \in Nat /\ Len(s) >= 1
        /\ DOMAIN s = 1 .. Len(s)
        /\ DOMAIN t = 1 .. Len(s) - 1
        /\ \A i \in 1 .. Len(s) - 1 : t[i] = s[i + 1]
        /\ Head(s) = s[1]
    OBVIOUS
  <1> HIDE DEF t
  <1>2. Elems(s) = Elems(t) \union {Head(s)}
    <2>1. ASSUME NEW y \in Elems(s)
          PROVE  y \in Elems(t) \union {Head(s)}
      <3>1. PICK i \in 1 .. Len(s) : y = s[i]
        BY <1>1 DEF Elems
      <3>2. CASE i = 1
        BY <3>1, <3>2, <1>1
      <3>3. CASE i # 1
        <4>1. i - 1 \in DOMAIN t /\ t[i - 1] = y
          BY <3>1, <3>3, <1>1
        <4>. QED
          BY <4>1 DEF Elems
      <3>. QED
        BY <3>2, <3>3
    <2>2. ASSUME NEW y \in Elems(t) \union {Head(s)}
          PROVE  y \in Elems(s)
      <3>1. CASE y = Head(s)
        BY <3>1, <1>1 DEF Elems
      <3>2. CASE y \in Elems(t)
        <4>1. PICK i \in 1 .. Len(s) - 1 : y = t[i]
          BY <3>2, <1>1 DEF Elems
        <4>2. i + 1 \in DOMAIN s /\ s[i + 1] = y
          BY <4>1, <1>1
        <4>. QED
          BY <4>2 DEF Elems
      <3>. QED
        BY <2>2, <3>1, <3>2
    <2>. QED
      BY <2>1, <2>2
  <1>3. ASSUME Distinct(s)
        PROVE  Distinct(t) /\ Head(s) \notin Elems(t)
    <2>1. ASSUME NEW i \in DOMAIN t, NEW j \in DOMAIN t, t[i] = t[j]
          PROVE  i = j
      <3>1. /\ i + 1 \in DOMAIN s /\ j + 1 \in DOMAIN s
            /\ s[i + 1] = s[j + 1]
        BY <2>1, <1>1
      <3>2. i + 1 = j + 1
        BY <3>1, <1>3 DEF Distinct
      <3>. QED
        BY <3>2, <1>1
    <2>2. ASSUME NEW i \in DOMAIN t, t[i] = Head(s)
          PROVE  FALSE
      <3>1. i + 1 \in DOMAIN s /\ 1 \in DOMAIN s /\ s[i + 1] = s[1]
        BY <2>2, <1>1
      <3>2. i + 1 = 1
        BY <3>1, <1>3 DEF Distinct
      <3>. QED
        BY <3>2, <1>1
    <2>. QED
      BY <2>1, <2>2 DEF Distinct, Elems
  <1>. QED
    BY <1>2, <1>3 DEF t

LEMMA RotateElems ==
  ASSUME NEW S, NEW s \in Seq(S), s # <<>>
  PROVE  /\ Rotate(s) \in Seq(S)
         /\ Elems(Rotate(s)) = Elems(s)
         /\ Distinct(s) => Distinct(Rotate(s))
  <1>1. Tail(s) \in Seq(S) /\ Head(s) \in S
    OBVIOUS
  <1> DEFINE t == Tail(s)
             h == Head(s)
  <1>2. Elems(s) = Elems(t) \union {h}
    BY TailElems
  <1>3. Distinct(s) => Distinct(t) /\ h \notin Elems(t)
    BY TailElems
  <1>4. Rotate(s) = Append(t, h)
    BY DEF Rotate
  <1> HIDE DEF t, h
  <1>5. /\ Elems(Append(t, h)) = Elems(t) \union {h}
        /\ Distinct(t) /\ h \notin Elems(t) => Distinct(Append(t, h))
    BY <1>1, AppendElems DEF t, h
  <1>6. Append(t, h) \in Seq(S)
    BY <1>1 DEF t, h
  <1>. QED
    BY <1>2, <1>3, <1>4, <1>5, <1>6

LEMMA EmptyElems == Elems(<<>>) = {} /\ Distinct(<<>>)
  BY DEF Elems, Distinct
-----------------------------------------------------------------------------
(***************************************************************************)
(* Induction, for a set instead of a predicate: what holds of 0 and, with a*)
(* number, of the next one, holds of every natural number. Every fact about*)
(* a sum below is an induction over the length of the sequence.            *)
(***************************************************************************)
NatLess == {ss \in Nat \X Nat : ss[1] < ss[2]}

LEMMA NatLessWF == IsWellFoundedOn(NatLess, Nat)
  BY NatLessThanWellFounded DEF OpToRel, NatLess

LEMMA SetInduction ==
  ASSUME NEW S, 0 \in S, \A n \in Nat : n \in S => n + 1 \in S
  PROVE  Nat \subseteq S
  <1>1. SUFFICES ASSUME NEW T, T = Nat \ S, T # {} PROVE FALSE
    OBVIOUS
  <1>2. PICK n \in T : \A m \in T : ~ (<<m, n>> \in NatLess)
    <2>1. T \subseteq Nat
      BY <1>1
    <2>2. QED
      BY <2>1, <1>1, NatLessWF, WFMin
  <1>3. n \in Nat /\ n # 0 /\ n - 1 \in Nat
    BY <1>1
  <1>4. n - 1 \notin T
    <2>1. <<n - 1, n>> \in NatLess
      BY <1>3 DEF NatLess
    <2>2. QED
      BY <1>2, <2>1
  <1>5. QED
    BY <1>1, <1>3, <1>4

LEMMA IntervalInduction ==
  ASSUME NEW n \in Nat, NEW S, 0 \in S,
         \A i \in 1 .. n : i - 1 \in S => i \in S
  PROVE  0 .. n \subseteq S
  <1> DEFINE T == {i \in Nat : i <= n => i \in S}
  <1>1. 0 \in T
    OBVIOUS
  <1>2. ASSUME NEW i \in Nat, i \in T
        PROVE  i + 1 \in T
    BY <1>2
  <1> HIDE DEF T
  <1>3. Nat \subseteq T
    BY <1>1, <1>2, SetInduction
  <1>. QED
    BY <1>3 DEF T

-----------------------------------------------------------------------------
\* The recursive function that Sum is defined by: the sums of the first elements.
IsSum(g, s, n) == g = [i \in 0 .. n |-> IF i = 0 THEN 0 ELSE g[i - 1] + s[i]]
PartialSums(s) == CHOOSE g : IsSum(g, s, Len(s))

\* There is such a function: the recursion is well founded.
LEMMA SumExists == ASSUME NEW s, NEW n \in Nat PROVE \E g : IsSum(g, s, n)
  <1> DEFINE S == {m \in Nat : \E g : IsSum(g, s, m)}
  <1>1. 0 \in S
    <2>1. IsSum([i \in 0 .. 0 |-> 0], s, 0)
      BY DEF IsSum
    <2>. QED BY <2>1
  <1>2. ASSUME NEW m \in Nat, m \in S PROVE m + 1 \in S
    <2>1. PICK g : IsSum(g, s, m)
      BY <1>2
    <2> DEFINE h == [i \in 0 .. m + 1 |-> IF i = m + 1 THEN g[m] + s[m + 1] ELSE g[i]]
    <2>2. IsSum(h, s, m + 1)
      <3>1. \A i \in 0 .. m + 1 : h[i] = IF i = 0 THEN 0 ELSE h[i - 1] + s[i]
        BY <2>1 DEF IsSum
      <3>2. h = [i \in 0 .. m + 1 |-> h[i]]
        OBVIOUS
      <3> HIDE DEF h
      <3>. QED BY <3>1, <3>2 DEF IsSum
    <2>. QED BY <2>2
  <1> HIDE DEF S
  <1>3. Nat \subseteq S
    BY <1>1, <1>2, SetInduction
  <1>. QED BY <1>3 DEF S

\* It keeps its defining equations, and its last value is the sum.
LEMMA PartialSumsDef ==
  ASSUME NEW s \in Seq(Int)
  PROVE  /\ PartialSums(s) \in [0 .. Len(s) -> Int]
         /\ PartialSums(s)[0] = 0
         /\ \A i \in 1 .. Len(s) : PartialSums(s)[i] = PartialSums(s)[i - 1] + s[i]
         /\ Sum(s) = PartialSums(s)[Len(s)]
  <1> DEFINE g == PartialSums(s)
             sum[i \in 0 .. Len(s)] == IF i = 0 THEN 0 ELSE sum[i - 1] + s[i]
             T == {i \in 0 .. Len(s) : g[i] \in Int}
  <1>1. Len(s) \in Nat /\ \A i \in 1 .. Len(s) : s[i] \in Int
    OBVIOUS
  <1>2. IsSum(g, s, Len(s))
    BY <1>1, SumExists DEF PartialSums
  <1>3. Sum(s) = g[Len(s)]
    BY DEF Sum, PartialSums, IsSum
  <1> HIDE DEF g
  <1>4. /\ DOMAIN g = 0 .. Len(s) /\ g = [i \in 0 .. Len(s) |-> g[i]]
        /\ g[0] = 0
        /\ \A i \in 1 .. Len(s) : g[i] = g[i - 1] + s[i]
    BY <1>1, <1>2 DEF IsSum
  <1>5. 0 .. Len(s) \subseteq T
    <2>1. 0 \in T
      BY <1>1, <1>4
    <2>2. ASSUME NEW i \in 1 .. Len(s), i - 1 \in T
          PROVE  i \in T
      <3>1. g[i] = g[i - 1] + s[i] /\ g[i - 1] \in Int /\ s[i] \in Int
        BY <1>1, <1>4, <2>2
      <3>. QED
        BY <3>1, <1>1
    <2> HIDE DEF T
    <2>. QED
      BY <1>1, <2>1, <2>2, IntervalInduction
  <1>6. g \in [0 .. Len(s) -> Int]
    BY <1>4, <1>5
  <1>. QED
    BY <1>3, <1>4, <1>6 DEF g

\* Sequences that begin alike have the same first sums.
LEMMA SumsCompare ==
  ASSUME NEW s \in Seq(Int), NEW t \in Seq(Int), NEW n \in Nat,
         n <= Len(s), n <= Len(t), \A i \in 1 .. n : s[i] = t[i]
  PROVE  \A i \in 0 .. n : PartialSums(s)[i] = PartialSums(t)[i]
  <1> DEFINE g == PartialSums(s)
             h == PartialSums(t)
             T == {i \in 0 .. n : g[i] = h[i]}
  <1>1. /\ g[0] = 0 /\ h[0] = 0
        /\ \A i \in 1 .. n : g[i] = g[i - 1] + s[i] /\ h[i] = h[i - 1] + t[i]
    BY PartialSumsDef
  <1> HIDE DEF g, h
  <1>2. 0 \in T
    BY <1>1
  <1>3. ASSUME NEW i \in 1 .. n, i - 1 \in T
        PROVE  i \in T
    BY <1>1, <1>3
  <1> HIDE DEF T
  <1>4. 0 .. n \subseteq T
    BY <1>2, <1>3, IntervalInduction
  <1>. QED
    BY <1>4 DEF T, g, h

\* The sum of a list of integers, of the empty one, of a list with an element
\* more, with its first element gone, and with one element replaced.
LEMMA SumInt == ASSUME NEW s \in Seq(Int) PROVE Sum(s) \in Int
  BY PartialSumsDef

LEMMA SumEmpty == Sum(<<>>) = 0
  <1>1. <<>> \in Seq(Int) /\ Len(<<>>) = 0
    OBVIOUS
  <1>. QED
    BY <1>1, PartialSumsDef

LEMMA SumAppend ==
  ASSUME NEW s \in Seq(Int), NEW x \in Int
  PROVE  Sum(Append(s, x)) = Sum(s) + x
  <1> DEFINE t == Append(s, x)
             n == Len(s)
  <1>1. /\ t \in Seq(Int) /\ n \in Nat /\ Len(s) = n /\ Len(t) = n + 1
        /\ n <= Len(s) /\ n <= Len(t) /\ t[n + 1] = x
        /\ \A i \in 1 .. n : s[i] = t[i]
    OBVIOUS
  <1> HIDE DEF t, n
  <1>2. PartialSums(s)[n] = PartialSums(t)[n]
    <2>1. \A i \in 0 .. n : PartialSums(s)[i] = PartialSums(t)[i]
      BY <1>1, SumsCompare
    <2>. QED
      BY <1>1, <2>1
  <1>3. /\ Sum(s) = PartialSums(s)[n]
        /\ Sum(t) = PartialSums(t)[n + 1]
    BY <1>1, PartialSumsDef
  <1>4. PartialSums(t)[n + 1] = PartialSums(t)[n] + t[n + 1]
    <2> DEFINE h == PartialSums(t)
    <2>1. \A i \in 1 .. n + 1 : h[i] = h[i - 1] + t[i]
      BY <1>1, PartialSumsDef
    <2> HIDE DEF h
    <2>2. h[n + 1] = h[n + 1 - 1] + t[n + 1]
      BY <1>1, <2>1
    <2>3. n + 1 - 1 = n
      BY <1>1
    <2>. QED
      BY <2>2, <2>3 DEF h
  <1>. QED
    BY <1>1, <1>2, <1>3, <1>4 DEF t

LEMMA SumTail ==
  ASSUME NEW s \in Seq(Int), s # <<>>
  PROVE  Sum(s) = Head(s) + Sum(Tail(s))
  <1> DEFINE t == Tail(s)
             n == Len(t)
             g == PartialSums(s)
             h == PartialSums(t)
             T == {i \in 0 .. n : g[i + 1] = s[1] + h[i]}
  <1>1. /\ t \in Seq(Int) /\ n \in Nat /\ Len(s) = n + 1 /\ Head(s) = s[1]
        /\ s[1] \in Int
        /\ \A i \in 1 .. n : t[i] = s[i + 1] /\ t[i] \in Int
    OBVIOUS
  <1>2. /\ g[0] = 0 /\ g[1] = g[0] + s[1] /\ h[0] = 0
        /\ h \in [0 .. n -> Int]
        /\ \A i \in 1 .. n : h[i] = h[i - 1] + t[i]
        /\ Sum(s) = g[n + 1] /\ Sum(t) = h[n]
    BY <1>1, PartialSumsDef
  <1>3. \A i \in 1 .. n : g[i + 1] = g[i] + s[i + 1]
    <2>1. \A i \in 1 .. n + 1 : g[i] = g[i - 1] + s[i]
      BY <1>1, PartialSumsDef
    <2> HIDE DEF g, n
    <2>. QED
      BY <2>1, <1>1
  <1> HIDE DEF t, n, g, h
  <1>4. 0 \in T
    BY <1>1, <1>2
  <1>5. ASSUME NEW i \in 1 .. n, i - 1 \in T
        PROVE  i \in T
    <2>1. g[i] = s[1] + h[i - 1]
      BY <1>1, <1>5
    <2>2. g[i + 1] = g[i] + s[i + 1] /\ h[i] = h[i - 1] + t[i]
      BY <1>1, <1>2, <1>3
    <2>3. i - 1 \in 0 .. n /\ t[i] \in Int /\ t[i] = s[i + 1]
      BY <1>1
    <2>4. h[i - 1] \in Int
      BY <1>2, <2>3
    <2>. QED
      BY <1>1, <2>1, <2>2, <2>3, <2>4
  <1> HIDE DEF T
  <1>6. 0 .. n \subseteq T
    BY <1>1, <1>4, <1>5, IntervalInduction
  <1>7. g[n + 1] = s[1] + h[n]
    BY <1>1, <1>6 DEF T
  <1>. QED
    BY <1>1, <1>2, <1>7 DEF t

LEMMA SumUpdate ==
  ASSUME NEW s \in Seq(Int), NEW k \in 1 .. Len(s), NEW v \in Int
  PROVE  Sum([s EXCEPT ![k] = v]) = Sum(s) + v - s[k]
  <1> DEFINE t == [s EXCEPT ![k] = v]
             n == Len(s)
             g == PartialSums(s)
             h == PartialSums(t)
             T == {i \in 0 .. n : h[i] = IF i < k THEN g[i] ELSE g[i] + v - s[k]}
  <1>1. /\ t \in Seq(Int) /\ n \in Nat /\ Len(t) = n
        /\ \A i \in 1 .. n : t[i] = (IF i = k THEN v ELSE s[i]) /\ s[i] \in Int
    OBVIOUS
  <1>2. /\ g[0] = 0 /\ h[0] = 0
        /\ g \in [0 .. n -> Int]
        /\ \A i \in 1 .. n : h[i] = h[i - 1] + t[i] /\ g[i] = g[i - 1] + s[i]
        /\ Sum(s) = g[n] /\ Sum(t) = h[n]
    BY <1>1, PartialSumsDef
  <1>k. k \in 1 .. n
    OBVIOUS
  <1> HIDE DEF t, n, g, h
  <1>3. 0 \in T
    <2>1. n \in Nat /\ 0 \in 0 .. n /\ 0 < k
      BY ONLY <1>1, <1>k
    <2>2. h[0] = IF 0 < k THEN g[0] ELSE g[0] + v - s[k]
      BY ONLY <2>1, <1>2
    <2>. QED
      BY ONLY <2>1, <2>2
  <1>4. ASSUME NEW i \in 1 .. n, i - 1 \in T
        PROVE  i \in T
    <2>1. h[i - 1] = IF i - 1 < k THEN g[i - 1] ELSE g[i - 1] + v - s[k]
      BY <1>4
    <2>2. g[i] = g[i - 1] + s[i] /\ h[i] = h[i - 1] + t[i]
      BY <1>2
    <2>3. i - 1 \in 0 .. n /\ s[i] \in Int /\ s[k] \in Int /\ t[i] = IF i = k THEN v ELSE s[i]
      BY <1>1, <1>k
    <2>4. g[i - 1] \in Int
      BY <1>2, <2>3
    <2>5. h[i] = IF i < k THEN g[i] ELSE g[i] + v - s[k]
      <3>1. CASE i < k
        BY <1>k, <2>1, <2>2, <2>3, <2>4, <3>1
      <3>2. CASE i = k
        <4>1. h[i] = g[i - 1] + v /\ g[i] = g[i - 1] + s[k]
          BY <1>k, <2>1, <2>2, <2>3, <3>2
        <4>. QED
          BY <4>1, <2>3, <2>4, <3>2, <1>k
      <3>3. CASE i > k
        <4>1. h[i] = g[i - 1] + v - s[k] + s[i]
          BY <1>k, <2>1, <2>2, <2>3, <3>3
        <4>. QED
          BY <4>1, <2>2, <2>3, <2>4, <3>3, <1>k
      <3>. QED
        BY <1>k, <3>1, <3>2, <3>3
    <2>. QED
      BY <1>1, <2>5
  <1> HIDE DEF T
  <1>5. 0 .. n \subseteq T
    BY <1>1, <1>3, <1>4, IntervalInduction
  <1>6. h[n] = g[n] + v - s[k]
    BY <1>1, <1>k, <1>5 DEF T
  <1>. QED
    BY <1>2, <1>6 DEF t

\* A sum of numbers that are at least c is at least c for each of them.
LEMMA SumPositive ==
  ASSUME NEW s \in Seq(Int), NEW c \in {0, 1}, \A i \in 1 .. Len(s) : s[i] >= c
  PROVE  Sum(s) >= c * Len(s)
  <1> DEFINE n == Len(s)
             g == PartialSums(s)
             T == {i \in 0 .. n : g[i] >= c * i}
  <1>1. n \in Nat /\ \A i \in 1 .. n : s[i] \in Int /\ s[i] >= c
    OBVIOUS
  <1>2. /\ g[0] = 0 /\ Sum(s) = g[n] /\ g \in [0 .. n -> Int]
        /\ \A i \in 1 .. n : g[i] = g[i - 1] + s[i]
    BY PartialSumsDef
  <1> HIDE DEF n, g
  <1>3. 0 \in T
    BY <1>1, <1>2
  <1>4. ASSUME NEW i \in 1 .. n, i - 1 \in T
        PROVE  i \in T
    <2>1. g[i - 1] >= c * (i - 1)
      BY <1>4
    <2>2. g[i] = g[i - 1] + s[i] /\ s[i] \in Int /\ s[i] >= c
      BY <1>1, <1>2
    <2>3. g[i - 1] \in Int
      BY <1>1, <1>2
    <2>. QED
      BY <1>1, <2>1, <2>2, <2>3
  <1> HIDE DEF T
  <1>5. 0 .. n \subseteq T
    BY <1>1, <1>3, <1>4, IntervalInduction
  <1>. QED
    BY <1>1, <1>2, <1>5 DEF T, n

LEMMA SumZero ==
  ASSUME NEW s \in Seq(Int), \A i \in 1 .. Len(s) : s[i] = 0
  PROVE  Sum(s) = 0
  <1> DEFINE n == Len(s)
             g == PartialSums(s)
             T == {i \in 0 .. n : g[i] = 0}
  <1>1. n \in Nat /\ \A i \in 1 .. n : s[i] = 0
    OBVIOUS
  <1>2. g[0] = 0 /\ Sum(s) = g[n] /\ \A i \in 1 .. n : g[i] = g[i - 1] + s[i]
    BY PartialSumsDef
  <1> HIDE DEF n, g
  <1>3. 0 \in T
    BY <1>1, <1>2
  <1>4. ASSUME NEW i \in 1 .. n, i - 1 \in T
        PROVE  i \in T
    <2>1. g[i - 1] = 0 /\ g[i] = g[i - 1] + s[i] /\ s[i] = 0
      BY <1>1, <1>2, <1>4
    <2>. QED
      BY <1>1, <2>1
  <1> HIDE DEF T
  <1>5. 0 .. n \subseteq T
    BY <1>1, <1>3, <1>4, IntervalInduction
  <1>. QED
    BY <1>1, <1>2, <1>5 DEF T
-----------------------------------------------------------------------------
\* The number of packets in the queues q of the flows listed in d: a flow with no
\* packets adds nothing, a queue that changes adds or takes away what it does.
Lens(d, q) == [i \in DOMAIN d |-> Len(q[d[i]])]

\* A list of flows of F and the queues of elements of S that they have. (A name
\* of its own lets the provers match the hypotheses of the lemmas.)
Queues(F, S, d, q) == d \in Seq(F) /\ q \in [F -> Seq(S)]

LEMMA LensType ==
  ASSUME NEW F, NEW S, NEW d, NEW q, Queues(F, S, d, q)
  PROVE  /\ Lens(d, q) \in Seq(Int) /\ Len(Lens(d, q)) = Len(d)
         /\ \A i \in 1 .. Len(d) : Lens(d, q)[i] = Len(q[d[i]]) /\ d[i] \in F
         /\ Sum(Lens(d, q)) \in Int
  <1>. d \in Seq(F) /\ q \in [F -> Seq(S)]
    BY DEF Queues
  <1>1. /\ Len(d) \in Nat /\ DOMAIN d = 1 .. Len(d)
        /\ \A i \in 1 .. Len(d) : d[i] \in F
    OBVIOUS
  <1>2. \A i \in 1 .. Len(d) : Len(q[d[i]]) \in Int
    BY <1>1
  <1>3. Lens(d, q) \in Seq(Int) /\ Len(Lens(d, q)) = Len(d)
    BY <1>1, <1>2 DEF Lens
  <1>. QED
    BY <1>1, <1>3, SumInt DEF Lens

LEMMA LensOneMore ==
  ASSUME NEW F, NEW S, NEW d, NEW q, Queues(F, S, d, q),
         NEW f \in F, q[f] = <<>>
  PROVE  Sum(Lens(Append(d, f), q)) = Sum(Lens(d, q))
  <1>. d \in Seq(F) /\ q \in [F -> Seq(S)]
    BY DEF Queues
  <1> DEFINE e == Append(d, f)
             n == Len(d)
  <1>1. /\ e \in Seq(F) /\ n \in Nat /\ Len(e) = n + 1
        /\ \A i \in 1 .. n : e[i] = d[i]
        /\ e[n + 1] = f
    OBVIOUS
  <1> HIDE DEF e
  <1>2. /\ Lens(e, q) \in Seq(Int) /\ Len(Lens(e, q)) = n + 1
        /\ \A i \in 1 .. n + 1 : Lens(e, q)[i] = Len(q[e[i]])
    <2>1. Queues(F, S, e, q)
      BY <1>1 DEF Queues
    <2>2. /\ Lens(e, q) \in Seq(Int) /\ Len(Lens(e, q)) = Len(e)
          /\ \A i \in 1 .. Len(e) : Lens(e, q)[i] = Len(q[e[i]])
      BY ONLY <2>1, LensType
    <2>3. Len(e) = n + 1
      BY <1>1
    <2>. QED
      BY <2>2, <2>3
  <1>3. /\ Lens(d, q) \in Seq(Int) /\ Len(Lens(d, q)) = n
        /\ \A i \in 1 .. n : Lens(d, q)[i] = Len(q[d[i]])
    <2>1. /\ Lens(d, q) \in Seq(Int) /\ Len(Lens(d, q)) = Len(d)
          /\ \A i \in 1 .. Len(d) : Lens(d, q)[i] = Len(q[d[i]])
      BY ONLY Queues(F, S, d, q), LensType
    <2>. QED
      BY ONLY <2>1 DEF n
  <1> HIDE DEF n
  <1>4. Lens(e, q) = Append(Lens(d, q), 0)
    <2> DEFINE a == Append(Lens(d, q), 0)
    <2>1. /\ a \in Seq(Int) /\ Len(a) = n + 1
          /\ \A i \in 1 .. n : a[i] = Lens(d, q)[i]
          /\ a[n + 1] = 0
      BY <1>3
    <2> HIDE DEF a
    <2>2. ASSUME NEW i \in 1 .. n + 1
          PROVE  a[i] = Lens(e, q)[i]
      <3>1. CASE i = n + 1
        <4>1. Lens(e, q)[i] = Len(q[f])
          BY <1>1, <1>2, <3>1
        <4>. QED
          BY <4>1, <2>1, <3>1
      <3>2. CASE i \in 1 .. n
        BY <1>1, <1>2, <1>3, <2>1, <3>2
      <3>. QED
        BY <1>1, <3>1, <3>2
    <2>3. a = Lens(e, q)
      BY <1>1, <1>2, <2>1, <2>2
    <2>. QED
      BY <2>3 DEF a
  <1>5. Sum(Append(Lens(d, q), 0)) = Sum(Lens(d, q)) + 0 /\ Sum(Lens(d, q)) \in Int
    BY <1>3, SumAppend, SumInt
  <1>. QED
    BY <1>4, <1>5 DEF e

LEMMA LensOneChanged ==
  ASSUME NEW F, NEW S, NEW d, NEW q, Queues(F, S, d, q), Distinct(d),
         NEW f \in Elems(d), NEW s \in Seq(S)
  PROVE  Sum(Lens(d, [q EXCEPT ![f] = s])) = Sum(Lens(d, q)) + Len(s) - Len(q[f])
  <1>. d \in Seq(F) /\ q \in [F -> Seq(S)]
    BY DEF Queues
  <1> DEFINE r == [q EXCEPT ![f] = s]
             n == Len(d)
  <1>1. PICK k \in 1 .. n : d[k] = f
    BY DEF Elems
  <1>2. f \in F /\ n \in Nat /\ \A i \in 1 .. n : d[i] \in F /\ (d[i] = f => i = k)
    BY <1>1 DEF Distinct
  <1>3. r \in [F -> Seq(S)] /\ r[f] = s /\ \A g \in F : g # f => r[g] = q[g]
    BY <1>2
  <1> HIDE DEF r
  <1>4. /\ Lens(d, r) \in Seq(Int) /\ Len(Lens(d, r)) = n
        /\ \A i \in 1 .. n : Lens(d, r)[i] = Len(r[d[i]])
    <2>1. Queues(F, S, d, r)
      BY <1>3 DEF Queues
    <2>. QED
      BY ONLY <2>1, LensType
  <1>5. /\ Lens(d, q) \in Seq(Int) /\ Len(Lens(d, q)) = n
        /\ \A i \in 1 .. n : Lens(d, q)[i] = Len(q[d[i]])
    BY ONLY Queues(F, S, d, q), LensType
  <1>6. Len(s) \in Int
    OBVIOUS
  <1> HIDE DEF n
  <1>7. Lens(d, r) = [Lens(d, q) EXCEPT ![k] = Len(s)]
    <2> DEFINE u == [Lens(d, q) EXCEPT ![k] = Len(s)]
    <2>1. /\ u \in Seq(Int) /\ Len(u) = n
          /\ \A i \in 1 .. n : u[i] = IF i = k THEN Len(s) ELSE Lens(d, q)[i]
      BY <1>2, <1>5, <1>6
    <2> HIDE DEF u
    <2>2. ASSUME NEW i \in 1 .. n
          PROVE  u[i] = Lens(d, r)[i]
      <3>1. CASE i = k
        BY ONLY <1>1, <1>3, <1>4, <2>1, <3>1
      <3>2. CASE i # k
        BY ONLY <1>2, <1>3, <1>4, <1>5, <2>1, <3>2, i \in 1 .. n
      <3>. QED
        BY <3>1, <3>2
    <2>3. u = Lens(d, r)
      BY ONLY <1>2, <1>4, <2>1, <2>2
    <2>. QED
      BY <2>3 DEF u
  <1>8. /\ Sum([Lens(d, q) EXCEPT ![k] = Len(s)])
           = Sum(Lens(d, q)) + Len(s) - Lens(d, q)[k]
        /\ Lens(d, q)[k] = Len(q[f])
    <2>1. k \in 1 .. Len(Lens(d, q)) /\ Lens(d, q) \in Seq(Int)
      BY <1>5
    <2>2. Sum([Lens(d, q) EXCEPT ![k] = Len(s)])
          = Sum(Lens(d, q)) + Len(s) - Lens(d, q)[k]
      BY <1>6, <2>1, SumUpdate
    <2>3. Lens(d, q)[k] = Len(q[f])
      BY <1>1, <1>5
    <2>. QED
      BY <2>2, <2>3
  <1>9. Sum(Lens(d, r)) = Sum(Lens(d, q)) + Len(s) - Len(q[f])
    BY <1>7, <1>8, Zenon
  <1>. QED
    BY <1>9 DEF r

LEMMA LensZero ==
  ASSUME NEW F, NEW S, NEW d, NEW q, Queues(F, S, d, q),
         \A f \in Elems(d) : q[f] = <<>>
  PROVE  Sum(Lens(d, q)) = 0
  <1>. d \in Seq(F) /\ q \in [F -> Seq(S)]
    BY DEF Queues
  <1>1. ASSUME NEW i \in 1 .. Len(d)
        PROVE  Lens(d, q)[i] = 0
    <2>1. d[i] \in Elems(d)
      BY DEF Elems
    <2>2. Lens(d, q)[i] = Len(q[d[i]])
      BY ONLY Queues(F, S, d, q), LensType
    <2>. QED
      BY <2>1, <2>2
  <1>. QED
    BY <1>1, LensType, SumZero

\* A packet that leaves a queue, or joins one, is one packet less, or more.
LEMMA LensTake ==
  ASSUME NEW F, NEW S, NEW d, NEW q, Queues(F, S, d, q), Distinct(d),
         NEW f \in Elems(d), q[f] # <<>>
  PROVE  Sum(Lens(d, [q EXCEPT ![f] = Tail(q[f])])) = Sum(Lens(d, q)) - 1
  <1> DEFINE tail == Tail(q[f])
  <1>1. q[f] \in Seq(S)
    BY DEF Queues, Elems
  <1>2. tail \in Seq(S) /\ Len(tail) = Len(q[f]) - 1 /\ Len(q[f]) \in Nat
    BY <1>1
  <1> HIDE DEF tail
  <1>3. Sum(Lens(d, [q EXCEPT ![f] = tail])) = Sum(Lens(d, q)) + Len(tail) - Len(q[f])
    BY <1>2, LensOneChanged
  <1>4. Sum(Lens(d, q)) \in Int
    BY ONLY Queues(F, S, d, q), LensType
  <1>. QED
    BY <1>2, <1>3, <1>4 DEF tail

LEMMA LensGive ==
  ASSUME NEW F, NEW S, NEW d, NEW q, Queues(F, S, d, q), Distinct(d),
         NEW f \in Elems(d), NEW s \in S
  PROVE  Sum(Lens(d, [q EXCEPT ![f] = Append(q[f], s)])) = Sum(Lens(d, q)) + 1
  <1> DEFINE more == Append(q[f], s)
  <1>1. q[f] \in Seq(S)
    BY DEF Queues, Elems
  <1>2. more \in Seq(S) /\ Len(more) = Len(q[f]) + 1 /\ Len(q[f]) \in Nat
    BY <1>1
  <1> HIDE DEF more
  <1>3. Sum(Lens(d, [q EXCEPT ![f] = more])) = Sum(Lens(d, q)) + Len(more) - Len(q[f])
    BY <1>2, LensOneChanged
  <1>4. Sum(Lens(d, q)) \in Int
    BY ONLY Queues(F, S, d, q), LensType
  <1>. QED
    BY <1>2, <1>3, <1>4 DEF more

\* The sum of a queue of packets: one more, one less, and none is empty.
LEMMA PositiveSums ==
  ASSUME NEW S, S \subseteq Nat \ {0}, NEW q \in Seq(S)
  PROVE  /\ Sum(q) \in Int
         /\ \A s \in S : Sum(Append(q, s)) = Sum(q) + s
         /\ q # <<>> => Sum(Tail(q)) = Sum(q) - Head(q)
         /\ q = <<>> => Sum(q) = 0
         /\ q # <<>> => Sum(q) > 0
  <1>1. q \in Seq(Int) /\ \A s \in S : s \in Int /\ s >= 1
    <2>1. \A s \in S : s \in Int /\ s >= 1
      OBVIOUS
    <2>2. /\ Len(q) \in Nat /\ q = [i \in 1 .. Len(q) |-> q[i]]
          /\ \A i \in 1 .. Len(q) : q[i] \in S
      OBVIOUS
    <2>3. \A i \in 1 .. Len(q) : q[i] \in Int
      BY <2>1, <2>2
    <2>. QED
      BY <2>1, <2>2, <2>3
  <1>2. Sum(q) \in Int /\ \A s \in S : Sum(Append(q, s)) = Sum(q) + s
    BY <1>1, SumInt, SumAppend
  <1>3. ASSUME q # <<>>
        PROVE  Sum(Tail(q)) = Sum(q) - Head(q) /\ Sum(q) > 0
    <2>1. Tail(q) \in Seq(Int) /\ Head(q) \in Int /\ Len(q) \in Nat /\ Len(q) >= 1
      BY <1>1, <1>3
    <2>2. Sum(q) = Head(q) + Sum(Tail(q)) /\ Sum(Tail(q)) \in Int
      BY <1>1, <1>3, <2>1, SumTail, SumInt
    <2>3. \A i \in 1 .. Len(q) : q[i] >= 1
      BY <1>1
    <2>4. Sum(q) >= 1 * Len(q)
      BY <1>1, <2>3, SumPositive
    <2>. QED
      BY <1>2, <2>1, <2>2, <2>4
  <1>. QED
    BY <1>1, <1>2, <1>3, SumEmpty
=============================================================================
