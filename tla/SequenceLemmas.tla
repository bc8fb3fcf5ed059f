--------------------------- MODULE SequenceLemmas ---------------------------
(***************************************************************************)
(* What the folds of the community modules return: FlattenSeq, Where, Max  *)
(* and Min; the parts of a list (Filter); the numbering of a finite set by *)
(* an order; remainders.                                                   *)
(*                                                                         *)
(* FlattenSeq is defined by a recursive function. What it computes is      *)
(* proved for every length by the least length at which it would be wrong  *)
(* (Least), which exists because the naturals are well-founded.            *)
(***************************************************************************)
EXTENDS Lists, FiniteSetTheorems, SequenceTheorems, TLAPS

\* A set of numbers that is not empty has a least one.
LEMMA Least ==
    ASSUME NEW T, T \subseteq Nat, T # {}
    PROVE  \E n \in T : \A m \in T : n <= m
<1>1. \E n \in T : \A m \in T : ~ (<<m, n>> \in OpToRel(<, Nat))
  BY WFMin, NatLessThanWellFounded, Zenon
<1>2. ASSUME NEW n \in T, NEW m \in T, ~ (<<m, n>> \in OpToRel(<, Nat))
      PROVE  ~ (m < n)
  BY <1>2, Zenon DEF OpToRel
<1>3. PICK n \in T : \A m \in T : ~ (m < n)
  BY <1>1, <1>2, Zenon
<1> QED
  BY <1>3, SMT

\* g is that function up to k.
Flattens(ss, g, k) ==
    g = [i \in 1 .. k |-> IF i = 1 THEN ss[i] ELSE g[i - 1] \o ss[i]]

\* FlattenSeq through the recursive function it is defined by.
LEMMA FlattenIs ==
    ASSUME NEW ss, Len(ss) # 0
    PROVE  FlattenSeq(ss) = (CHOOSE g : Flattens(ss, g, Len(ss)))[Len(ss)]
BY Zenon DEF FlattenSeq, Flattens

\* There is such a function.
LEMMA FlattenExists ==
    ASSUME NEW ss, NEW n \in Nat
    PROVE  \E g : Flattens(ss, g, n)
<1> DEFINE T == {k \in Nat : ~ \E g : Flattens(ss, g, k)}
<1>1. SUFFICES ASSUME T # {} PROVE FALSE
  OBVIOUS
<1>2. PICK k \in T : \A m \in T : k <= m
  BY <1>1, Least
<1>3. CASE k = 0
  <2> DEFINE g == [i \in 1 .. 0 |-> <<>>]
  <2>1. Flattens(ss, g, 0)
    BY DEF Flattens
  <2> QED
    BY <1>2, <1>3, <2>1
<1>4. CASE k # 0
  <2>1. k \in Nat /\ k - 1 \in Nat /\ ~ (k <= k - 1)
    BY <1>2, <1>4
  <2>2. PICK g : Flattens(ss, g, k - 1)
    BY <2>1, <1>2
  <2>3. \A i \in 1 .. k - 1 : g[i] = IF i = 1 THEN ss[i] ELSE g[i - 1] \o ss[i]
    <3> HIDE DEF T
    <3> QED  BY <2>2, Zenon DEF Flattens
  <2> DEFINE h == [i \in 1 .. k |-> IF i = 1 THEN ss[i] ELSE g[i - 1] \o ss[i]]
  <2>4. \A i \in 1 .. k : h[i] = IF i = 1 THEN ss[i] ELSE g[i - 1] \o ss[i]
    OBVIOUS
  <2> HIDE DEF h, T
  <2>5. \A i \in 1 .. k - 1 : h[i] = g[i]
    BY <2>1, <2>3, <2>4
  <2>6. \A i \in 1 .. k : i # 1 => h[i - 1] = g[i - 1]
    BY <2>1, <2>5
  <2>7. h = [i \in 1 .. k |-> IF i = 1 THEN ss[i] ELSE h[i - 1] \o ss[i]]
    BY <2>6 DEF h
  <2>8. Flattens(ss, h, k)
    BY <2>7, Zenon DEF Flattens
  <2> QED
    BY <1>2, <2>8 DEF T
<1> QED
  BY <1>3, <1>4

-----------------------------------------------------------------------------
\* The n-th element of s, the concatenation of the first k sequences of ss, is
\* the col[n]-th of the row[n]-th; all of them are there, in order.
Laid(ss, k, s, row, col) ==
    /\ row \in [1 .. Len(s) -> 1 .. k] /\ col \in [1 .. Len(s) -> Nat]
    /\ \A n \in 1 .. Len(s) :
          col[n] \in 1 .. Len(ss[row[n]]) /\ s[n] = ss[row[n]][col[n]]
    /\ \A m, n \in 1 .. Len(s) : m < n =>
          row[m] < row[n] \/ (row[m] = row[n] /\ col[m] < col[n])
    /\ \A i \in 1 .. k : \A j \in 1 .. Len(ss[i]) :
          \E n \in 1 .. Len(s) : row[n] = i /\ col[n] = j

\* One sequence more.
LEMMA LaidNext ==
    ASSUME NEW S, NEW ss \in Seq(Seq(S)), NEW k \in 1 .. Len(ss), NEW s \in Seq(S),
           NEW row, NEW col, Laid(ss, k - 1, s, row, col)
    PROVE  \E r, c : Laid(ss, k, s \o ss[k], r, c)
<1> DEFINE t == s \o ss[k]
           r == [n \in 1 .. Len(t) |-> IF n <= Len(s) THEN row[n] ELSE k]
           c == [n \in 1 .. Len(t) |-> IF n <= Len(s) THEN col[n] ELSE n - Len(s)]
<1>1. /\ ss[k] \in Seq(S) /\ k \in Nat /\ Len(ss) \in Nat
      /\ t \in Seq(S) /\ Len(t) = Len(s) + Len(ss[k])
      /\ Len(s) \in Nat /\ Len(ss[k]) \in Nat
  OBVIOUS
<1>2. /\ \A n \in 1 .. Len(s) : t[n] = s[n]
      /\ \A j \in 1 .. Len(ss[k]) : t[Len(s) + j] = ss[k][j]
  BY <1>1
<1>3. /\ \A n \in 1 .. Len(s) : n \in 1 .. Len(t) /\ r[n] = row[n] /\ c[n] = col[n]
      /\ \A n \in 1 .. Len(t) : ~ (n <= Len(s)) =>
            r[n] = k /\ c[n] = n - Len(s) /\ n - Len(s) \in 1 .. Len(ss[k])
      /\ DOMAIN r = 1 .. Len(t) /\ DOMAIN c = 1 .. Len(t)
  BY <1>1
<1>4. /\ \A n \in 1 .. Len(s) : row[n] \in 1 .. k - 1 /\ col[n] \in Nat
      /\ \A n \in 1 .. Len(s) :
            col[n] \in 1 .. Len(ss[row[n]]) /\ s[n] = ss[row[n]][col[n]]
  BY DEF Laid
<1> HIDE DEF t
<1>5. r \in [1 .. Len(t) -> 1 .. k] /\ c \in [1 .. Len(t) -> Nat]
  BY <1>1, <1>4
<1> HIDE DEF r, c
<1>6. ASSUME NEW n \in 1 .. Len(t)
      PROVE  c[n] \in 1 .. Len(ss[r[n]]) /\ t[n] = ss[r[n]][c[n]]
  <2>1. CASE n <= Len(s)
    <3>1. n \in 1 .. Len(s)
      BY <2>1, <1>1
    <3>2. r[n] = row[n] /\ c[n] = col[n] /\ t[n] = s[n]
      BY <3>1, <1>2, <1>3
    <3> QED
      BY <3>1, <3>2, <1>4, Zenon
  <2>2. CASE ~ (n <= Len(s))
    <3>1. r[n] = k /\ c[n] = n - Len(s) /\ n - Len(s) \in 1 .. Len(ss[k])
      BY <2>2, <1>3
    <3>2. Len(s) + (n - Len(s)) = n
      BY <1>1
    <3>3. t[n] = ss[k][n - Len(s)]
      BY <3>1, <3>2, <1>2, Zenon
    <3> QED
      BY <3>1, <3>3, Zenon
  <2> QED
    BY <2>1, <2>2
<1>7. ASSUME NEW m \in 1 .. Len(t), NEW n \in 1 .. Len(t), m < n
      PROVE  r[m] < r[n] \/ (r[m] = r[n] /\ c[m] < c[n])
  <2>1. CASE n <= Len(s)
    <3>1. m \in 1 .. Len(s) /\ n \in 1 .. Len(s)
      BY <2>1, <1>1, <1>7
    <3>2. row[m] < row[n] \/ (row[m] = row[n] /\ col[m] < col[n])
      BY <3>1, <1>7, Zenon DEF Laid
    <3> QED
      BY <3>1, <3>2, <1>3, Zenon
  <2>2. CASE m <= Len(s) /\ ~ (n <= Len(s))
    <3>1. m \in 1 .. Len(s)
      BY <2>2, <1>1
    <3>2. r[m] = row[m] /\ r[n] = k /\ row[m] \in 1 .. k - 1
      BY <3>1, <2>2, <1>3, <1>4, Zenon
    <3> QED
      BY <3>2, <1>1
  <2>3. CASE ~ (m <= Len(s))
    <3>1. ~ (n <= Len(s))
      BY <2>3, <1>1, <1>7
    <3>2. r[m] = k /\ r[n] = k /\ c[m] = m - Len(s) /\ c[n] = n - Len(s)
      BY <3>1, <2>3, <1>3, Zenon
    <3> QED
      BY <3>2, <1>1, <1>7
  <2> QED
    BY <2>1, <2>2, <2>3
<1>8. ASSUME NEW i \in 1 .. k, NEW j \in 1 .. Len(ss[i])
      PROVE  \E n \in 1 .. Len(t) : r[n] = i /\ c[n] = j
  <2>1. CASE i = k
    <3>1. Len(s) + j \in 1 .. Len(t) /\ ~ (Len(s) + j <= Len(s)) /\ j = (Len(s) + j) - Len(s)
      BY <2>1, <1>1
    <3> QED
      BY <3>1, <2>1, <1>3
  <2>2. CASE i # k
    <3>1. i \in 1 .. k - 1
      BY <2>2, <1>1
    <3>2. PICK n \in 1 .. Len(s) : row[n] = i /\ col[n] = j
      BY <3>1 DEF Laid
    <3> QED
      BY <3>2, <1>3
  <2> QED
    BY <2>1, <2>2
<1> QED
  <2>1. Laid(ss, k, t, r, c)
    BY <1>5, <1>6, <1>7, <1>8, Zenon DEF Laid
  <2> QED
    BY <2>1, Zenon DEF t

\* FlattenSeq puts the elements of all sequences one after the other.
LEMMA FlattenLaid ==
    ASSUME NEW S, NEW ss \in Seq(Seq(S))
    PROVE  /\ FlattenSeq(ss) \in Seq(S)
           /\ \E row, col : Laid(ss, Len(ss), FlattenSeq(ss), row, col)
<1> DEFINE N == Len(ss)
           Good(s, k) == s \in Seq(S) /\ \E r, c : Laid(ss, k, s, r, c)
<1>1. N \in Nat /\ \A i \in 1 .. N : ss[i] \in Seq(S)
  OBVIOUS
<1>2. CASE N = 0
  <2> DEFINE f == [n \in 1 .. 0 |-> 0]
  <2>1. FlattenSeq(ss) = ss
    BY <1>2, Zenon DEF FlattenSeq
  <2>2. ss \in Seq(S) /\ ss = << >>
    BY <1>2
  <2>3. f \in [1 .. 0 -> 1 .. 0] /\ f \in [1 .. 0 -> Nat] /\ 1 .. 0 = {}
    OBVIOUS
  <2>4. Laid(ss, 0, ss, f, f)
    BY <1>2, <2>3 DEF Laid
  <2> QED
    BY <1>2, <2>1, <2>2, <2>4, Zenon
<1>3. CASE N # 0
  <2> DEFINE g == CHOOSE x : Flattens(ss, x, N)
  <2>1. FlattenSeq(ss) = g[N]
    BY <1>3, FlattenIs, Zenon
  <2>2. Flattens(ss, g, N)
    BY <1>1, FlattenExists, Zenon
  <2> HIDE DEF g
  <2>3. \A i \in 1 .. N : g[i] = IF i = 1 THEN ss[i] ELSE g[i - 1] \o ss[i]
    BY <2>2, Zenon DEF Flattens
  <2> DEFINE T == {k \in 1 .. N : ~ Good(g[k], k)}
  <2>4. SUFFICES ASSUME T # {} PROVE FALSE
    <3>1. N \in 1 .. N
      BY <1>1, <1>3
    <3> HIDE DEF N
    <3>2. Good(g[N], N)
      BY <2>4, <3>1
    <3> QED
      BY <2>1, <3>2, Zenon DEF N
  <2> HIDE DEF Good
  <2>5. PICK k \in T : \A m \in T : k <= m
    <3>1. T \subseteq Nat
      BY <1>1
    <3> QED
      BY <2>4, <3>1, Least, Zenon
  <2>6. k \in 1 .. N /\ ~ Good(g[k], k)
    BY <2>5
  <2>7. CASE k = 1
    <3> DEFINE r == [n \in 1 .. Len(ss[1]) |-> 1]
               c == [n \in 1 .. Len(ss[1]) |-> n]
    <3>1. g[1] = ss[1] /\ ss[1] \in Seq(S)
      BY <2>3, <2>6, <2>7, <1>1
    <3>2. Len(ss[1]) \in Nat
      BY <3>1
    <3>3. r \in [1 .. Len(ss[1]) -> 1 .. 1] /\ c \in [1 .. Len(ss[1]) -> Nat]
      BY <3>2
    <3>4. /\ \A n \in 1 .. Len(ss[1]) : r[n] = 1 /\ c[n] = n
          /\ \A i \in 1 .. 1 : i = 1
      OBVIOUS
    <3> HIDE DEF r, c
    <3>5. Laid(ss, 1, ss[1], r, c)
      BY <3>3, <3>4 DEF Laid
    <3> QED
      BY <3>1, <3>5, <2>6, <2>7, Zenon DEF Good
  <2>8. CASE k # 1
    <3>1. k - 1 \in 1 .. N /\ ~ (k <= k - 1)
      BY <2>6, <2>8, <1>1
    <3>2. Good(g[k - 1], k - 1)
      BY <3>1, <2>5
    <3>3. PICK r, c : Laid(ss, k - 1, g[k - 1], r, c)
      BY <3>2, Zenon DEF Good
    <3>4. g[k - 1] \in Seq(S) /\ g[k] = g[k - 1] \o ss[k] /\ ss[k] \in Seq(S)
      BY <3>2, <2>3, <2>6, <2>8, <1>1, Zenon DEF Good
    <3>5. \E x, y : Laid(ss, k, g[k], x, y)
      BY <3>3, <3>4, <2>6, LaidNext, Zenon
    <3>6. g[k] \in Seq(S)
      BY <3>4
    <3> QED
      BY <3>5, <3>6, <2>6, Zenon DEF Good
  <2> QED
    BY <2>7, <2>8
<1> QED
  BY <1>2, <1>3

-----------------------------------------------------------------------------
\* Where keeps the elements at the places, all of them, in their order.
Selected(p, I, s, at) ==
    /\ at \in [1 .. Len(s) -> 1 .. Len(p)]
    /\ \A n \in 1 .. Len(s) : at[n] \in I /\ s[n] = p[at[n]]
    /\ \A m, n \in 1 .. Len(s) : m < n => at[m] < at[n]
    /\ \A i \in 1 .. Len(p) : i \in I => \E n \in 1 .. Len(s) : at[n] = i
LEMMA WhereKeeps ==
    ASSUME NEW S, NEW p \in Seq(S), NEW I
    PROVE  Where(p, I) \in Seq(S) /\ \E at : Selected(p, I, Where(p, I), at)
<1> DEFINE ss == [i \in DOMAIN p |-> IF i \in I THEN <<p[i]>> ELSE << >>]
           s == Where(p, I)
<1>1. /\ DOMAIN p = 1 .. Len(p) /\ Len(p) \in Nat /\ \A i \in 1 .. Len(p) : p[i] \in S
  OBVIOUS
<1>2. /\ \A i \in 1 .. Len(p) : i \in I => ss[i] = <<p[i]>> /\ ss[i] \in Seq(S)
      /\ \A i \in 1 .. Len(p) : i \notin I => ss[i] = << >> /\ ss[i] \in Seq(S)
  BY <1>1
<1>3. ss \in Seq(Seq(S)) /\ Len(ss) = Len(p)
  <2>1. ss \in [1 .. Len(p) -> Seq(S)]
    BY <1>1, <1>2
  <2> QED
    BY <2>1, <1>1
<1>4. s = FlattenSeq(ss)
  BY Zenon DEF Where
<1> HIDE DEF ss, s
<1>5. s \in Seq(S) /\ \E row, col : Laid(ss, Len(ss), s, row, col)
  BY <1>3, <1>4, FlattenLaid
<1>6. PICK row, col : Laid(ss, Len(p), s, row, col)
  BY <1>3, <1>5, Zenon
<1>7. Len(s) \in Nat
  BY <1>5
<1>8. ASSUME NEW n \in 1 .. Len(s)
      PROVE  row[n] \in 1 .. Len(p) /\ row[n] \in I /\ col[n] = 1 /\ s[n] = p[row[n]]
  <2>1. /\ row[n] \in 1 .. Len(p)
        /\ col[n] \in 1 .. Len(ss[row[n]]) /\ s[n] = ss[row[n]][col[n]]
    BY <1>6 DEF Laid
  <2>2. row[n] \in I
    BY <2>1, <1>2
  <2>3. ss[row[n]] = <<p[row[n]]>>
    BY <2>1, <2>2, <1>2
  <2>4. col[n] = 1
    BY <2>1, <2>3
  <2> QED
    BY <2>1, <2>2, <2>3, <2>4
<1>9. ASSUME NEW m \in 1 .. Len(s), NEW n \in 1 .. Len(s), m < n
      PROVE  row[m] < row[n]
  <2>1. row[m] < row[n] \/ (row[m] = row[n] /\ col[m] < col[n])
    BY <1>9, <1>6, Zenon DEF Laid
  <2>2. col[m] = 1 /\ col[n] = 1
    BY <1>8
  <2> QED
    BY <2>1, <2>2
<1>10. ASSUME NEW i \in 1 .. Len(p), i \in I
       PROVE  \E n \in 1 .. Len(s) : row[n] = i
  <2>1. ss[i] = <<p[i]>> /\ Len(<<p[i]>>) = 1
    BY <1>10, <1>2
  <2>2. 1 \in 1 .. Len(ss[i])
    BY <2>1
  <2> QED
    BY <2>2, <1>6, Zenon DEF Laid
<1>11. row \in [1 .. Len(s) -> 1 .. Len(p)]
  BY <1>6, Zenon DEF Laid
<1>12. Selected(p, I, s, row)
  BY <1>8, <1>9, <1>10, <1>11, Zenon DEF Selected
<1> QED
  BY <1>5, <1>12, Zenon DEF s

\* The elements that Where keeps, without their order.
LEMMA WhereRange ==
    ASSUME NEW S, NEW p \in Seq(S), NEW I
    PROVE  ToSet(Where(p, I)) = {p[i] : i \in DOMAIN p \cap I}
<1> DEFINE s == Where(p, I)
<1>1. s \in Seq(S) /\ \E at : Selected(p, I, s, at)
  BY WhereKeeps
<1>2. PICK at : Selected(p, I, s, at)
  BY <1>1
<1>3. DOMAIN s = 1 .. Len(s) /\ DOMAIN p = 1 .. Len(p)
  BY <1>1
<1> HIDE DEF s
<1>4. \A n \in 1 .. Len(s) : at[n] \in 1 .. Len(p) /\ at[n] \in I /\ s[n] = p[at[n]]
  BY <1>2 DEF Selected
<1>5. \A i \in 1 .. Len(p) : i \in I => \E n \in 1 .. Len(s) : s[n] = p[i]
  BY <1>2, Zenon DEF Selected
<1>6. ToSet(s) = {p[i] : i \in DOMAIN p \cap I}
  <2>1. ASSUME NEW x \in ToSet(s)
        PROVE  x \in {p[i] : i \in DOMAIN p \cap I}
    <3>1. PICK n \in 1 .. Len(s) : x = s[n]
      BY <2>1, <1>3, Zenon DEF ToSet
    <3>2. x = p[at[n]] /\ at[n] \in DOMAIN p \cap I
      BY <3>1, <1>3, <1>4
    <3> QED
      BY <3>2, Zenon
  <2>2. ASSUME NEW i \in DOMAIN p \cap I
        PROVE  p[i] \in ToSet(s)
    <3>1. PICK n \in 1 .. Len(s) : s[n] = p[i]
      BY <1>3, <1>5
    <3> QED
      BY <3>1, <1>3, Zenon DEF ToSet
  <2> QED
    BY <2>1, <2>2, Zenon
<1> QED
  BY <1>6 DEF s

-----------------------------------------------------------------------------
\* Numbers.

\* Of finitely many numbers one is the greatest.
LEMMA Greatest ==
    ASSUME NEW n \in Nat \ {0}, NEW f \in [1 .. n -> Nat]
    PROVE  \E k \in 1 .. n : \A l \in 1 .. n : f[l] <= f[k]
<1> DEFINE G(m) == \E k \in 1 .. m : \A l \in 1 .. m : f[l] <= f[k]
           T == {m \in 1 .. n : ~ G(m)}
<1>1. SUFFICES ASSUME T # {} PROVE FALSE
  <2>1. n \in 1 .. n
    OBVIOUS
  <2> HIDE DEF G
  <2>2. G(n)
    BY <1>1, <2>1
  <2> QED
    BY <2>2 DEF G
<1>2. T \subseteq Nat
  OBVIOUS
<1> HIDE DEF G
<1>3. PICK m \in T : \A l \in T : m <= l
  BY <1>1, <1>2, Least, Zenon
<1>4. m \in 1 .. n /\ ~ G(m)
  BY <1>3
<1>5. CASE m = 1
  <2>1. 1 .. 1 = {1} /\ f[1] <= f[1]
    BY <1>4, <1>5
  <2>2. G(1)
    BY <2>1 DEF G
  <2> QED
    BY <2>2, <1>4, <1>5, Zenon
<1>6. CASE m # 1
  <2>1. m - 1 \in 1 .. n /\ ~ (m <= m - 1)
    BY <1>4, <1>6
  <2>2. G(m - 1)
    BY <2>1, <1>3
  <2>3. PICK k \in 1 .. m - 1 : \A l \in 1 .. m - 1 : f[l] <= f[k]
    BY <2>2, Zenon DEF G
  <2>4. k \in 1 .. n /\ f[k] \in Nat /\ f[m] \in Nat /\ m \in Nat /\ n \in Nat
    BY <1>4, <2>1
  <2>5. CASE f[m] <= f[k]
    <3>1. \A l \in 1 .. m : f[l] <= f[k]
      BY <2>3, <2>4, <2>5
    <3>2. k \in 1 .. m
      BY <2>4, <2>3
    <3> QED
      BY <3>1, <3>2, <1>4, Zenon DEF G
  <2>6. CASE ~ (f[m] <= f[k])
    <3>1. ASSUME NEW l \in 1 .. m
          PROVE  f[l] <= f[m]
      <4>1. f[l] \in Nat
        BY <3>1, <1>4
      <4>2. CASE l = m
        BY <4>2, <4>1
      <4>3. CASE l # m
        <5>1. l \in 1 .. m - 1
          BY <4>3, <2>4
        <5>2. f[l] <= f[k]
          BY <5>1, <2>3
        <5> QED
          BY <5>2, <4>1, <2>4, <2>6
      <4> QED
        BY <4>2, <4>3
    <3>2. m \in 1 .. m
      BY <1>4
    <3> QED
      BY <3>1, <3>2, <1>4, Zenon DEF G
  <2> QED
    BY <2>5, <2>6
<1> QED
  BY <1>5, <1>6

\* Min of two numbers.
LEMMA MinOfTwo ==
    ASSUME NEW m \in Nat, NEW n \in Nat
    PROVE  Min({m, n}) = IF m <= n THEN m ELSE n
<1>1. Min({m, n}) = CHOOSE x \in {m, n} : \A y \in {m, n} : x <= y
  BY DEF Min
<1>2. \E x \in {m, n} : \A y \in {m, n} : x <= y
  OBVIOUS
<1>3. Min({m, n}) \in {m, n} /\ \A y \in {m, n} : Min({m, n}) <= y
  BY <1>1, <1>2, Zenon
<1> QED
  BY <1>3

\* The members of D that come before x in an order R.
Predecessors(D, R, x) == {y \in D : <<y, x>> \in R}

StrictOrder(D, R) ==
    /\ \A x \in D : <<x, x>> \notin R
    /\ \A x, y, z \in D : <<x, y>> \in R /\ <<y, z>> \in R => <<x, z>> \in R
    /\ \A x, y \in D : x # y => <<x, y>> \in R \/ <<y, x>> \in R

\* The members of a finite set, numbered from 0 by an order.
LEMMA Ranking ==
    ASSUME NEW D, IsFiniteSet(D), NEW R, StrictOrder(D, R)
    PROVE  /\ Cardinality(D) \in Nat
           /\ \A x \in D : Cardinality(Predecessors(D, R, x)) \in 0 .. Cardinality(D) - 1
           /\ \A x, y \in D : <<x, y>> \in R =>
                 Cardinality(Predecessors(D, R, x)) < Cardinality(Predecessors(D, R, y))
           /\ \A k \in 0 .. Cardinality(D) - 1 :
                 \E x \in D : Cardinality(Predecessors(D, R, x)) = k
<1> DEFINE n == Cardinality(D)
           rank == [x \in D |-> Cardinality(Predecessors(D, R, x))]
<1>1. n \in Nat
  BY FS_CardinalityType
<1>2. ASSUME NEW x \in D
      PROVE  /\ IsFiniteSet(Predecessors(D, R, x))
             /\ Cardinality(Predecessors(D, R, x)) \in 0 .. n - 1
  <2>1. Predecessors(D, R, x) \in SUBSET (D \ {x})
    BY Zenon DEF Predecessors, StrictOrder
  <2>2. IsFiniteSet(D \ {x}) /\ Cardinality(D \ {x}) = n - 1
    BY FS_RemoveElement, Zenon
  <2>3. IsFiniteSet(Predecessors(D, R, x)) /\ Cardinality(Predecessors(D, R, x)) <= n - 1
    BY <2>1, <2>2, FS_Subset
  <2>4. Cardinality(Predecessors(D, R, x)) \in Nat
    BY <2>3, FS_CardinalityType
  <2> QED
    BY <2>3, <2>4, <1>1
<1>3. ASSUME NEW x \in D, NEW y \in D, <<x, y>> \in R
      PROVE  Cardinality(Predecessors(D, R, x)) < Cardinality(Predecessors(D, R, y))
  <2>1. Predecessors(D, R, x) \in SUBSET Predecessors(D, R, y)
    BY <1>3, Zenon DEF Predecessors, StrictOrder
  <2>2. x \in Predecessors(D, R, y) /\ x \notin Predecessors(D, R, x)
    BY <1>3, Zenon DEF Predecessors, StrictOrder
  <2>3. /\ Cardinality(Predecessors(D, R, x)) <= Cardinality(Predecessors(D, R, y))
        /\ Cardinality(Predecessors(D, R, x)) # Cardinality(Predecessors(D, R, y))
    BY <2>1, <2>2, <1>2, FS_Subset
  <2> QED
    BY <2>3, <1>2
<1>4. ASSUME NEW k \in 0 .. n - 1
      PROVE  \E x \in D : Cardinality(Predecessors(D, R, x)) = k
  <2>1. rank \in [D -> 0 .. n - 1]
    BY <1>2
  <2>2. \A x, y \in D : rank[x] = rank[y] => x = y
    <3>1. \A x, y \in D : <<x, y>> \in R => rank[x] < rank[y]
      BY <1>3
    <3> HIDE DEF rank, n
    <3>2. \A x, y \in D : x # y => rank[x] < rank[y] \/ rank[y] < rank[x]
      BY <3>1, Zenon DEF StrictOrder
    <3>3. \A x \in D : rank[x] \in Int
      BY <2>1, <1>1
    <3> QED
      BY <3>2, <3>3
  <2>3. rank \in Injection(D, 0 .. n - 1)
    BY <2>1, <2>2, Zenon DEF Injection, IsInjective
  <2>4. IsFiniteSet(0 .. n - 1) /\ Cardinality(0 .. n - 1) = n
    BY <1>1, FS_Interval
  <2>5. rank \in Surjection(D, 0 .. n - 1)
    BY <2>3, <2>4, FS_Injection
  <2> QED
    BY <2>5, Zenon DEF Surjection
<1> QED
  BY <1>1, <1>2, <1>3, <1>4

\* A remainder is less than the divisor.
LEMMA ModDiv ==
    ASSUME NEW n \in Nat, n > 0, NEW a \in Nat
    PROVE  /\ a \div n \in Nat /\ a % n \in 0 .. n - 1
           /\ a % n = a - n * (a \div n)
OBVIOUS

\* Remainders of what is less than twice the divisor.
LEMMA ModSmall ==
    ASSUME NEW n \in Nat, n > 0, NEW a \in Nat
    PROVE  /\ a < n => a % n = a
           /\ n <= a /\ a < 2 * n => a % n = a - n
OBVIOUS

\* Numbers that are less than n apart differ modulo n.
LEMMA ModApart ==
    ASSUME NEW n \in Nat, n > 0, NEW a \in Nat, NEW b \in Nat, a < b, b < a + n
    PROVE  a % n # b % n
<1> SUFFICES ASSUME a % n = b % n PROVE FALSE
  OBVIOUS
<1> DEFINE x == a \div n
           y == b \div n
<1>1. a - n * x = b - n * y /\ x \in Nat /\ y \in Nat
  BY ModDiv
<1> HIDE DEF x, y
<1>2. b - a = n * (y - x)
  BY <1>1
<1>3. y - x > 0
  BY <1>1, <1>2
<1>4. n * (y - x) >= n
  BY <1>1, <1>3
<1> QED
  BY <1>1, <1>2, <1>4

\* A function that takes every value once.
LEMMA OneToOne ==
    ASSUME NEW S, NEW T, IsFiniteSet(S), NEW f \in [S -> T],
           \A x, y \in S : f[x] = f[y] => x = y,
           \A z \in T : \E x \in S : f[x] = z
    PROVE  Cardinality(T) = Cardinality(S)
<1>1. f \in Surjection(S, T)
  BY DEF Surjection
<1>2. f \in Injection(S, T)
  BY DEF Injection, IsInjective
<1> QED
  BY <1>1, <1>2, FS_Surjection

\* Of n places on a circle, m are at most m places before any one of them.
LEMMA Circle ==
    ASSUME NEW n \in Nat, n > 0, NEW m \in Nat, m <= n, NEW q \in 1 .. n
    PROVE  Cardinality({a \in 0 .. n - 1 : \E k \in 1 .. m : ((a + k - 1) % n) + 1 = q}) = m
<1> DEFINE T == {a \in 0 .. n - 1 : \E k \in 1 .. m : ((a + k - 1) % n) + 1 = q}
           f == [k \in 1 .. m |-> IF k <= q THEN q - k ELSE q - k + n]
<1>1. \A k \in 1 .. m : f[k] = IF k <= q THEN q - k ELSE q - k + n
  OBVIOUS
<1>2. f = [k \in 1 .. m |-> f[k]]
  OBVIOUS
<1> HIDE DEF f
<1>3. \A a \in 0 .. n - 1, k \in 1 .. m :
          (a + k - 1) % n = IF a + k - 1 < n THEN a + k - 1 ELSE a + k - 1 - n
  <2> TAKE a \in 0 .. n - 1, k \in 1 .. m
  <2>1. a + k - 1 \in Nat /\ a + k - 1 < 2 * n
    OBVIOUS
  <2> QED
    BY <2>1, ModSmall
<1>4. ASSUME NEW k \in 1 .. m
      PROVE  f[k] \in T
  <2>1. f[k] \in 0 .. n - 1
    BY <1>1
  <2>2. ((f[k] + k - 1) % n) + 1 = q
    <3>1. (f[k] + k - 1) % n = IF f[k] + k - 1 < n THEN f[k] + k - 1 ELSE f[k] + k - 1 - n
      BY <2>1, <1>3
    <3>2. CASE k <= q
      <4>1. f[k] = q - k
        BY <3>2, <1>1
      <4>2. f[k] + k - 1 = q - 1 /\ q - 1 < n
        BY <4>1
      <4> QED
        BY <3>1, <4>2
    <3>3. CASE ~ (k <= q)
      <4>1. f[k] = q - k + n
        BY <3>3, <1>1
      <4>2. f[k] + k - 1 = q - 1 + n /\ ~ (q - 1 + n < n) /\ q - 1 + n - n = q - 1
        BY <4>1
      <4> QED
        BY <3>1, <4>2
    <3> QED
      BY <3>2, <3>3
  <2> QED
    BY <2>1, <2>2
<1>5. \A j, k \in 1 .. m : f[j] = f[k] => j = k
  BY <1>1
<1>6. ASSUME NEW a \in T
      PROVE  \E k \in 1 .. m : f[k] = a
  <2>1. PICK k \in 1 .. m : ((a + k - 1) % n) + 1 = q
    BY <1>6
  <2>2. a \in 0 .. n - 1
    BY <1>6
  <2>3. f[k] = a
    BY <2>1, <2>2, <1>1, <1>3
  <2> QED
    BY <2>3
<1> HIDE DEF T
<1>7. f \in [1 .. m -> T]
  BY <1>2, <1>4
<1>8. IsFiniteSet(1 .. m) /\ Cardinality(1 .. m) = m
  BY FS_Interval
<1>9. Cardinality(T) = Cardinality(1 .. m)
  BY <1>5, <1>6, <1>7, <1>8, OneToOne
<1> QED
  BY <1>8, <1>9 DEF T

\* f numbers lo + 1 to hi upwards.
Counts(lo, hi, m, f) ==
    /\ lo \in Nat /\ hi \in Nat /\ lo <= hi /\ m \in Nat
    /\ f \in [1 .. m -> lo + 1 .. hi]
    /\ \A j, k \in 1 .. m : j < k => f[j] < f[k]
    /\ \A i \in lo + 1 .. hi : \E k \in 1 .. m : f[k] = i

\* Increasing numbers that leave out none count up.
LEMMA Counting ==
    ASSUME NEW lo, NEW hi, NEW m, NEW f, Counts(lo, hi, m, f)
    PROVE  m = hi - lo /\ \A k \in 1 .. m : f[k] = lo + k
<1> USE DEF Counts
<1>1. \A k \in 1 .. m : f[k] >= lo + k
  <2> DEFINE T == {k \in 1 .. m : f[k] < lo + k}
  <2>1. SUFFICES ASSUME T # {} PROVE FALSE
    <3>1. \A k \in 1 .. m : f[k] \in Int /\ k \in Int
      OBVIOUS
    <3>2. \A k \in 1 .. m : k \notin T => f[k] >= lo + k
      BY <3>1
    <3> HIDE DEF T
    <3> QED
      BY <3>2
  <2>2. T \subseteq Nat
    OBVIOUS
  <2>3. PICK k \in T : \A j \in T : k <= j
    BY <2>1, <2>2, Least, Zenon
  <2>4. k \in 1 .. m /\ f[k] < lo + k /\ f[k] \in lo + 1 .. hi
    OBVIOUS
  <2>5. k # 1 /\ k - 1 \in 1 .. m /\ k - 1 < k
    BY <2>4
  <2>6. k - 1 \notin T
    BY <2>3, <2>5
  <2>7. f[k - 1] >= lo + (k - 1) /\ f[k - 1] < f[k]
    BY <2>4, <2>5, <2>6
  <2> QED
    BY <2>4, <2>5, <2>7
<1>2. \A k \in 1 .. m : f[k] = lo + k
  <2> DEFINE T == {k \in 1 .. m : f[k] # lo + k}
  <2>1. SUFFICES ASSUME T # {} PROVE FALSE
    OBVIOUS
  <2>2. T \subseteq Nat
    OBVIOUS
  <2>3. PICK k \in T : \A j \in T : k <= j
    BY <2>1, <2>2, Least, Zenon
  <2>4. k \in 1 .. m /\ f[k] > lo + k /\ f[k] \in lo + 1 .. hi
    BY <1>1
  <2>5. PICK j \in 1 .. m : f[j] = lo + k
    BY <2>4
  <2>6. CASE j < k
    <3>1. j \notin T
      BY <2>3, <2>4, <2>6
    <3>2. f[j] = lo + j
      BY <3>1
    <3> QED
      BY <3>2, <2>4, <2>5, <2>6
  <2>7. CASE ~ (j < k)
    <3>1. j = k \/ f[k] < f[j]
      BY <2>4, <2>7
    <3> QED
      BY <3>1, <2>4, <2>5
  <2> QED
    BY <2>6, <2>7
<1>3. CASE hi = lo
  <2>1. lo + 1 .. hi = {}
    BY <1>3
  <2>2. ~ (1 \in 1 .. m)
    BY <2>1
  <2> QED
    BY <1>2, <1>3, <2>2
<1>4. CASE hi # lo
  <2>1. PICK k \in 1 .. m : f[k] = hi
    BY <1>4
  <2>2. k = hi - lo /\ f[m] = lo + m /\ f[m] \in lo + 1 .. hi
    BY <2>1, <1>2
  <2> QED
    BY <1>2, <2>1, <2>2
<1> QED
  BY <1>3, <1>4

\* Where the places are the last ones, Where takes the end of the list.
LEMMA WhereEnd ==
    ASSUME NEW S, NEW p \in Seq(S), NEW b \in 0 .. Len(p), NEW I,
           \A i \in 1 .. Len(p) : i \in I <=> i > b
    PROVE  Where(p, I) = SubSeq(p, b + 1, Len(p))
<1> DEFINE s == Where(p, I)
           e == SubSeq(p, b + 1, Len(p))
<1>1. s \in Seq(S) /\ \E at : Selected(p, I, s, at)
  BY WhereKeeps
<1>2. PICK at : Selected(p, I, s, at)
  BY <1>1
<1>3. Len(p) \in Nat /\ b \in Nat /\ b <= Len(p) /\ Len(s) \in Nat
  BY <1>1
<1> HIDE DEF s
<1>4. at \in [1 .. Len(s) -> b + 1 .. Len(p)]
  <2>1. at \in [1 .. Len(s) -> 1 .. Len(p)] /\ \A n \in 1 .. Len(s) : at[n] \in I
    BY <1>2, Zenon DEF Selected
  <2>2. \A n \in 1 .. Len(s) : at[n] \in b + 1 .. Len(p)
    BY <2>1, <1>3
  <2> QED
    BY <2>1, <2>2
<1>5. /\ \A j, k \in 1 .. Len(s) : j < k => at[j] < at[k]
      /\ \A i \in b + 1 .. Len(p) : \E k \in 1 .. Len(s) : at[k] = i
      /\ \A k \in 1 .. Len(s) : s[k] = p[at[k]]
  BY <1>2, <1>3 DEF Selected
<1>6. Len(s) = Len(p) - b /\ \A k \in 1 .. Len(s) : at[k] = b + k
  <2> DEFINE n == Len(p)
             m == Len(s)
  <2>1. n \in Nat /\ m \in Nat /\ b \in Nat /\ b <= n
    BY <1>3
  <2>2. at \in [1 .. m -> b + 1 .. n]
    BY <1>4
  <2>3. /\ \A j, k \in 1 .. m : j < k => at[j] < at[k]
        /\ \A i \in b + 1 .. n : \E k \in 1 .. m : at[k] = i
    BY <1>5
  <2> HIDE DEF n, m
  <2>4. Counts(b, n, m, at)
    BY <2>1, <2>2, <2>3, Zenon DEF Counts
  <2>5. m = n - b /\ \A k \in 1 .. m : at[k] = b + k
    BY <2>4, Counting
  <2> QED
    BY <2>5 DEF n, m
<1>7. /\ e \in Seq(S) /\ Len(e) = Len(p) - b
      /\ \A k \in 1 .. Len(p) - b : e[k] = p[b + k]
  BY <1>3
<1> HIDE DEF e
<1>8. s = e
  <2>1. Len(s) = Len(e) /\ \A k \in 1 .. Len(s) : s[k] = e[k]
    BY <1>5, <1>6, <1>7
  <2>2. s = [k \in 1 .. Len(s) |-> s[k]] /\ e = [k \in 1 .. Len(e) |-> e[k]]
    BY <1>1, <1>7
  <2> QED
    BY <2>1, <2>2
<1> QED
  BY <1>8 DEF s, e
-----------------------------------------------------------------------------
\* at lists the members of I among 1 .. n upwards; they are m.
Ascends(m, n, I, at) ==
    /\ m \in Nat /\ n \in Nat /\ at \in [1 .. m -> 1 .. n]
    /\ \A j \in 1 .. m : at[j] \in I
    /\ \A j, k \in 1 .. m : j < k => at[j] < at[k]
    /\ \A i \in 1 .. n : i \in I => \E j \in 1 .. m : at[j] = i

\* The places that Where selects.
LEMMA SelectedAscends ==
    ASSUME NEW S, NEW p \in Seq(S), NEW T, NEW s \in Seq(T), NEW I, NEW at,
           Selected(p, I, s, at)
    PROVE  /\ Ascends(Len(s), Len(p), I, at)
           /\ \A n \in 1 .. Len(s) : s[n] = p[at[n]]
<1>1. Len(s) \in Nat /\ Len(p) \in Nat
  OBVIOUS
<1> QED
  BY <1>1, Zenon DEF Selected, Ascends

\* Of two such lists none leaves the other.
LEMMA AscendsAlike ==
    ASSUME NEW m, NEW k, NEW n, NEW I, NEW at, NEW bt,
           Ascends(m, n, I, at), Ascends(k, n, I, bt)
    PROVE  \A j \in 1 .. m : j \in 1 .. k /\ at[j] = bt[j]
<1> DEFINE T == {j \in 1 .. m : ~ (j \in 1 .. k /\ at[j] = bt[j])}
<1>1. SUFFICES ASSUME T # {} PROVE FALSE
  OBVIOUS
<1>2. m \in Nat /\ k \in Nat /\ n \in Nat
  BY DEF Ascends
<1>3. PICK j \in T : \A i \in T : j <= i
  <2>1. T \subseteq Nat
    BY <1>2
  <2> QED
    BY <1>1, <2>1, Least, Zenon
<1>4. j \in 1 .. m /\ ~ (j \in 1 .. k /\ at[j] = bt[j])
  OBVIOUS
<1>5. ASSUME NEW i \in 1 .. m, i < j
      PROVE  i \in 1 .. k /\ at[i] = bt[i]
  <2>1. i \notin T
    BY <1>2, <1>3, <1>4, <1>5
  <2> QED
    BY <2>1
<1>6. at[j] \in 1 .. n /\ at[j] \in I
  BY <1>4 DEF Ascends
<1>7. PICK l \in 1 .. k : bt[l] = at[j]
  BY <1>6, Zenon DEF Ascends
<1>8. CASE l < j
  <2>1. l \in 1 .. m
    BY <1>2, <1>4, <1>8
  <2>2. at[l] = at[j] /\ at[l] < at[j]
    BY <2>1, <1>4, <1>5, <1>7, <1>8, Zenon DEF Ascends
  <2> QED
    BY <2>2, <1>6
<1>9. CASE l = j
  BY <1>4, <1>7, <1>9
<1>10. CASE j < l
  <2>1. j \in 1 .. k
    BY <1>2, <1>4, <1>10
  <2>2. bt[j] < bt[l] /\ bt[j] \in 1 .. n /\ bt[j] \in I
    BY <2>1, <1>10, Zenon DEF Ascends
  <2>3. PICK q \in 1 .. m : at[q] = bt[j]
    BY <2>2, Zenon DEF Ascends
  <2>4. q < j
    <3>1. CASE q = j
      BY <3>1, <2>1, <2>3, <1>4
    <3>2. CASE j < q
      <4>1. at[j] < at[q]
        BY <3>2, <1>4, Zenon DEF Ascends
      <4> QED
        BY <4>1, <2>2, <2>3, <1>6, <1>7
    <3> QED
      BY <3>1, <3>2, <1>2, <1>4
  <2>5. q \in 1 .. k /\ at[q] = bt[q]
    BY <2>4, <1>5
  <2>6. bt[q] < bt[j]
    BY <2>1, <2>4, <2>5, Zenon DEF Ascends
  <2> QED
    BY <2>2, <2>3, <2>5, <2>6
<1> QED
  BY <1>2, <1>4, <1>8, <1>9, <1>10

\* There is one such list only.
LEMMA AscendsOnce ==
    ASSUME NEW m, NEW k, NEW n, NEW I, NEW at, NEW bt,
           Ascends(m, n, I, at), Ascends(k, n, I, bt)
    PROVE  m = k /\ \A j \in 1 .. m : at[j] = bt[j]
<1>1. /\ \A j \in 1 .. m : j \in 1 .. k /\ at[j] = bt[j]
      /\ \A j \in 1 .. k : j \in 1 .. m /\ bt[j] = at[j]
  BY AscendsAlike
<1>2. m \in Nat /\ k \in Nat
  BY DEF Ascends
<1>3. ASSUME m # k PROVE FALSE
  <2>1. CASE m < k
    <3>1. k \in 1 .. k
      BY <1>2, <2>1
    <3>2. k \in 1 .. m
      BY <1>1, <3>1
    <3> QED
      BY <3>2, <2>1, <1>2
  <2>2. CASE k < m
    <3>1. m \in 1 .. m
      BY <1>2, <2>2
    <3>2. m \in 1 .. k
      BY <1>1, <3>1
    <3> QED
      BY <3>2, <2>2, <1>2
  <2> QED
    BY <2>1, <2>2, <1>2, <1>3
<1> QED
  BY <1>1, <1>3

\* A list of places among the places of a list.
LEMMA AscendsAgain ==
    ASSUME NEW m, NEW n, NEW k, NEW I, NEW J, NEW at, NEW bt,
           Ascends(m, n, I, at), Ascends(k, m, J, bt)
    PROVE  Ascends(k, n, {at[j] : j \in J \cap 1 .. m}, [j \in 1 .. k |-> at[bt[j]]])
<1> DEFINE ct == [j \in 1 .. k |-> at[bt[j]]]
           K == {at[j] : j \in J \cap 1 .. m}
<1>1. /\ m \in Nat /\ n \in Nat /\ k \in Nat
      /\ at \in [1 .. m -> 1 .. n] /\ bt \in [1 .. k -> 1 .. m]
  BY Zenon DEF Ascends
<1>2. ct \in [1 .. k -> 1 .. n] /\ \A j \in 1 .. k : ct[j] = at[bt[j]]
  BY <1>1
<1> HIDE DEF ct
<1>3. \A j \in 1 .. k : ct[j] \in K
  <2>1. \A j \in 1 .. k : bt[j] \in J /\ bt[j] \in 1 .. m
    BY <1>1 DEF Ascends
  <2> QED
    BY <2>1, <1>2, Zenon
<1>4. ASSUME NEW i \in 1 .. k, NEW j \in 1 .. k, i < j
      PROVE  ct[i] < ct[j]
  <2>1. bt[i] < bt[j] /\ bt[i] \in 1 .. m /\ bt[j] \in 1 .. m
    BY <1>1, <1>4 DEF Ascends
  <2>2. at[bt[i]] < at[bt[j]]
    BY <2>1, Zenon DEF Ascends
  <2> QED
    BY <2>2, <1>2
<1>5. ASSUME NEW i \in 1 .. n, i \in K
      PROVE  \E j \in 1 .. k : ct[j] = i
  <2>1. PICK q \in J \cap 1 .. m : i = at[q]
    BY <1>5
  <2>2. PICK j \in 1 .. k : bt[j] = q
    BY <2>1, Zenon DEF Ascends
  <2> QED
    BY <2>1, <2>2, <1>2, Zenon
<1>6. Ascends(k, n, K, ct)
  BY <1>1, <1>2, <1>3, <1>4, <1>5, Zenon DEF Ascends
<1> QED
  BY <1>6, Zenon DEF ct
-----------------------------------------------------------------------------
\* Two sequences related element by element.
Paired(s, t, R) == Len(s) = Len(t) /\ \A n \in 1 .. Len(s) : <<s[n], t[n]>> \in R

LEMMA PairedConcat ==
    ASSUME NEW S, NEW T, NEW R, NEW s \in Seq(S), NEW t \in Seq(T),
           NEW u \in Seq(S), NEW v \in Seq(T), Paired(s, t, R), Paired(u, v, R)
    PROVE  Paired(s \o u, t \o v, R)
<1>1. /\ Len(s) \in Nat /\ Len(t) \in Nat /\ Len(u) \in Nat /\ Len(v) \in Nat
      /\ Len(s \o u) = Len(s) + Len(u) /\ Len(t \o v) = Len(t) + Len(v)
      /\ Len(s) = Len(t) /\ Len(u) = Len(v)
  <2>1. Len(s) = Len(t) /\ Len(u) = Len(v)
    BY Zenon DEF Paired
  <2> QED
    BY <2>1
<1>2. ASSUME NEW n \in 1 .. Len(s) + Len(u)
      PROVE  <<(s \o u)[n], (t \o v)[n]>> \in R
  <2>1. CASE n <= Len(s)
    <3>1. n \in 1 .. Len(s) /\ (s \o u)[n] = s[n] /\ (t \o v)[n] = t[n]
      BY <2>1, <1>1
    <3>2. <<s[n], t[n]>> \in R
      BY <3>1, Zenon DEF Paired
    <3> QED
      BY <3>1, <3>2
  <2>2. CASE ~ (n <= Len(s))
    <3>1. /\ n - Len(s) \in 1 .. Len(u)
          /\ (s \o u)[n] = u[n - Len(s)] /\ (t \o v)[n] = v[n - Len(s)]
      BY <2>2, <1>1
    <3>2. <<u[n - Len(s)], v[n - Len(s)]>> \in R
      BY <3>1, Zenon DEF Paired
    <3> QED
      BY <3>1, <3>2
  <2> QED
    BY <2>1, <2>2
<1> QED
  <2>1. Len(s \o u) = Len(t \o v) /\ 1 .. Len(s \o u) = 1 .. Len(s) + Len(u)
    BY <1>1
  <2> QED
    BY <2>1, <1>2, Zenon DEF Paired

\* FlattenSeq keeps sequences paired that are paired one by one.
LEMMA FlattenPairs ==
    ASSUME NEW S, NEW T, NEW R, NEW ss \in Seq(Seq(S)), NEW tt \in Seq(Seq(T)),
           Len(ss) = Len(tt), \A i \in 1 .. Len(ss) : Paired(ss[i], tt[i], R)
    PROVE  Paired(FlattenSeq(ss), FlattenSeq(tt), R)
<1> DEFINE N == Len(ss)
<1>1. /\ N \in Nat /\ N = Len(tt)
      /\ \A i \in 1 .. N : ss[i] \in Seq(S) /\ tt[i] \in Seq(T)
  OBVIOUS
<1>2. CASE N = 0
  <2>1. FlattenSeq(ss) = ss /\ FlattenSeq(tt) = tt
    BY <1>1, <1>2, Zenon DEF FlattenSeq
  <2>2. Len(ss) = Len(tt) /\ 1 .. Len(ss) = {}
    BY <1>2
  <2> QED
    BY <2>1, <2>2 DEF Paired
<1>3. CASE N # 0
  <2> DEFINE g == CHOOSE x : Flattens(ss, x, N)
             h == CHOOSE x : Flattens(tt, x, N)
  <2>1. FlattenSeq(ss) = g[N]
    BY <1>3, FlattenIs, Zenon
  <2>2. FlattenSeq(tt) = h[N]
    <3>1. Len(tt) # 0 /\ Len(tt) = N
      BY <1>1, <1>3
    <3> HIDE DEF N
    <3> QED
      BY <3>1, FlattenIs, Zenon
  <2>3. Flattens(ss, g, N) /\ Flattens(tt, h, N)
    BY <1>1, FlattenExists, Zenon
  <2> HIDE DEF g, h
  <2>4. /\ \A i \in 1 .. N : g[i] = IF i = 1 THEN ss[i] ELSE g[i - 1] \o ss[i]
        /\ \A i \in 1 .. N : h[i] = IF i = 1 THEN tt[i] ELSE h[i - 1] \o tt[i]
    BY <2>3, Zenon DEF Flattens
  <2> DEFINE Good(i) == g[i] \in Seq(S) /\ h[i] \in Seq(T) /\ Paired(g[i], h[i], R)
             U == {k \in 1 .. N : ~ Good(k)}
  <2>5. SUFFICES ASSUME U # {} PROVE FALSE
    <3>1. N \in 1 .. N
      BY <1>1, <1>3
    <3> HIDE DEF N
    <3>2. Good(N)
      BY <2>5, <3>1
    <3> QED
      BY <2>1, <2>2, <3>2, Zenon
  <2> HIDE DEF Good
  <2>6. PICK k \in U : \A m \in U : k <= m
    <3>1. U \subseteq Nat
      BY <1>1
    <3> QED
      BY <2>5, <3>1, Least, Zenon
  <2>7. k \in 1 .. N /\ ~ Good(k)
    BY <2>6
  <2>8. ss[k] \in Seq(S) /\ tt[k] \in Seq(T) /\ Paired(ss[k], tt[k], R)
    BY <2>7, <1>1
  <2>9. CASE k = 1
    <3>1. g[k] = ss[k] /\ h[k] = tt[k]
      BY <2>4, <2>7, <2>9
    <3> QED
      BY <3>1, <2>7, <2>8, Zenon DEF Good
  <2>10. CASE k # 1
    <3>1. k - 1 \in 1 .. N /\ ~ (k <= k - 1)
      BY <2>7, <2>10, <1>1
    <3>2. Good(k - 1)
      BY <3>1, <2>6
    <3>3. g[k] = g[k - 1] \o ss[k] /\ h[k] = h[k - 1] \o tt[k]
      BY <2>4, <2>7, <2>10, Zenon
    <3>4. /\ g[k - 1] \in Seq(S) /\ h[k - 1] \in Seq(T)
          /\ Paired(g[k - 1], h[k - 1], R)
      BY <3>2, Zenon DEF Good
    <3>5. Paired(g[k], h[k], R)
      BY <3>3, <3>4, <2>8, PairedConcat, Zenon
    <3>6. g[k] \in Seq(S) /\ h[k] \in Seq(T)
      BY <3>3, <3>4, <2>8
    <3> QED
      BY <3>5, <3>6, <2>7, Zenon DEF Good
  <2> QED
    BY <2>9, <2>10
<1> QED
  BY <1>2, <1>3

\* The concatenation of one sequence.
LEMMA FlattenOne ==
    ASSUME NEW ss, Len(ss) = 1
    PROVE  FlattenSeq(ss) = ss[1]
<1> DEFINE g == CHOOSE x : Flattens(ss, x, 1)
<1>1. FlattenSeq(ss) = g[1]
  BY FlattenIs
<1>2. Flattens(ss, g, 1)
  BY FlattenExists, Zenon
<1> HIDE DEF g
<1>3. 1 \in 1 .. 1
  OBVIOUS
<1>4. g[1] = ss[1]
  BY <1>2, <1>3 DEF Flattens
<1> QED
  BY <1>1, <1>4

\* A function of the numbers up to n is a sequence of its values.
LEMMA SeqOfValues ==
    ASSUME NEW n \in Nat, NEW T, NEW s, s = [i \in 1 .. n |-> s[i]],
           \A i \in 1 .. n : s[i] \in T
    PROVE  s \in Seq(T) /\ Len(s) = n /\ DOMAIN s = 1 .. n
<1>1. s \in [1 .. n -> T]
  BY Zenon
<1> QED
  BY <1>1

-----------------------------------------------------------------------------
\* g is the concatenation of the first k sequences of ss, for every k.
Sums(S, ss, g) ==
    /\ \A k \in 0 .. Len(ss) : g[k] \in Seq(S)
    /\ g[0] = <<>>
    /\ \A k \in 1 .. Len(ss) : g[k] = g[k - 1] \o ss[k]

\* FlattenSeq adds one sequence after the other.
LEMMA FlattenSums ==
    ASSUME NEW S, NEW ss \in Seq(Seq(S))
    PROVE  \E g : Sums(S, ss, g) /\ FlattenSeq(ss) = g[Len(ss)]
<1> DEFINE N == Len(ss)
<1>1. N \in Nat /\ \A i \in 1 .. N : ss[i] \in Seq(S)
  OBVIOUS
<1>2. <<>> \in Seq(S)
  OBVIOUS
<1>3. CASE N = 0
  <2> DEFINE g == [k \in 0 .. 0 |-> <<>>]
  <2>1. FlattenSeq(ss) = ss /\ ss = <<>>
    <3>1. FlattenSeq(ss) = ss
      BY <1>3, Zenon DEF FlattenSeq
    <3> QED
      BY <3>1, <1>3
  <2>2. g[0] = <<>>
    OBVIOUS
  <2>3. Sums(S, ss, g)
    BY <1>2, <1>3, <2>2 DEF Sums
  <2> HIDE DEF g
  <2> QED
    BY <1>3, <2>1, <2>2, <2>3, Zenon
<1>4. CASE N # 0
  <2> DEFINE f == CHOOSE x : Flattens(ss, x, N)
             g == [k \in 0 .. N |-> IF k = 0 THEN <<>> ELSE f[k]]
  <2>1. FlattenSeq(ss) = f[N]
    BY <1>4, FlattenIs, Zenon
  <2>2. Flattens(ss, f, N)
    BY <1>1, FlattenExists, Zenon
  <2> HIDE DEF f
  <2>3. \A k \in 1 .. N : f[k] = IF k = 1 THEN ss[k] ELSE f[k - 1] \o ss[k]
    BY <2>2, Zenon DEF Flattens
  <2>4. /\ g[0] = <<>> /\ \A k \in 1 .. N : g[k] = f[k]
        /\ \A k \in 1 .. N : k = 1 => g[k - 1] = <<>>
        /\ \A k \in 1 .. N : k # 1 => g[k - 1] = f[k - 1]
    BY <1>1
  <2> HIDE DEF g
  <2>5. \A k \in 1 .. N : g[k] = g[k - 1] \o ss[k]
    <3> SUFFICES ASSUME NEW k \in 1 .. N PROVE g[k] = g[k - 1] \o ss[k]
      OBVIOUS
    <3>1. CASE k = 1
      <4>1. g[k] = ss[k] /\ g[k - 1] = <<>> /\ ss[k] \in Seq(S)
        BY <3>1, <1>1, <2>3, <2>4
      <4> QED
        BY <4>1
    <3>2. CASE k # 1
      BY <3>2, <2>3, <2>4, Zenon
    <3> QED
      BY <3>1, <3>2
  <2> DEFINE T == {k \in 0 .. N : g[k] \notin Seq(S)}
  <2>6. T = {}
    <3>1. SUFFICES ASSUME T # {} PROVE FALSE
      OBVIOUS
    <3>2. T \subseteq Nat
      BY <1>1
    <3>3. PICK k \in T : \A m \in T : k <= m
      BY <3>1, <3>2, Least, Zenon
    <3>4. k \in 0 .. N /\ g[k] \notin Seq(S) /\ k # 0
      BY <3>3, <2>4, <1>2
    <3>5. k \in 1 .. N /\ k - 1 \in 0 .. N /\ ~ (k <= k - 1)
      BY <3>4, <1>1
    <3>6. g[k - 1] \in Seq(S) /\ ss[k] \in Seq(S)
      BY <3>5, <3>3, <1>1
    <3>7. g[k] = g[k - 1] \o ss[k]
      BY <3>5, <2>5, Zenon
    <3> QED
      BY <3>4, <3>6, <3>7
  <2>7. Sums(S, ss, g)
    BY <2>4, <2>5, <2>6, Zenon DEF Sums
  <2>8. N \in 1 .. N
    BY <1>1, <1>4
  <2>9. FlattenSeq(ss) = g[N]
    BY <2>1, <2>4, <2>8, Zenon
  <2> QED
    BY <2>7, <2>9, Zenon
<1> QED
  BY <1>3, <1>4

\* Where the sequences are the same, so are the sums.
LEMMA SumsAgree ==
    ASSUME NEW S, NEW ss, NEW tt, NEW g, NEW h, Sums(S, ss, g), Sums(S, tt, h),
           Len(ss) \in Nat, Len(tt) \in Nat, NEW n \in Nat, n <= Len(ss), n <= Len(tt),
           \A k \in 1 .. n : ss[k] = tt[k]
    PROVE  g[n] = h[n]
<1> DEFINE T == {k \in 0 .. n : g[k] # h[k]}
<1>1. SUFFICES ASSUME T # {} PROVE FALSE
  OBVIOUS
<1>2. T \subseteq Nat
  OBVIOUS
<1>3. PICK k \in T : \A m \in T : k <= m
  BY <1>1, <1>2, Least, Zenon
<1>4. k \in 0 .. n /\ g[k] # h[k] /\ k # 0
  BY <1>3, Zenon DEF Sums
<1>5. k \in 1 .. n /\ k - 1 \in 0 .. n /\ ~ (k <= k - 1) /\ k \in 1 .. Len(ss) /\ k \in 1 .. Len(tt)
  BY <1>4
<1>6. g[k - 1] = h[k - 1]
  BY <1>5, <1>3
<1>7. g[k] = g[k - 1] \o ss[k] /\ h[k] = h[k - 1] \o tt[k]
  BY <1>5, Zenon DEF Sums
<1> QED
  BY <1>4, <1>5, <1>6, <1>7, Zenon

\* Empty sequences add nothing.
LEMMA SumsIdle ==
    ASSUME NEW S, NEW ss, NEW g, Sums(S, ss, g), Len(ss) \in Nat, NEW n \in 0 .. Len(ss),
           \A k \in n + 1 .. Len(ss) : ss[k] = <<>>
    PROVE  g[Len(ss)] = g[n]
<1> DEFINE T == {k \in n .. Len(ss) : g[k] # g[n]}
<1>1. SUFFICES ASSUME T # {} PROVE FALSE
  BY DEF T
<1>2. T \subseteq Nat
  OBVIOUS
<1>3. PICK k \in T : \A m \in T : k <= m
  BY <1>1, <1>2, Least, Zenon
<1>4. k \in n .. Len(ss) /\ g[k] # g[n] /\ k # n
  BY <1>3, Zenon
<1>5. /\ k \in n + 1 .. Len(ss) /\ k - 1 \in n .. Len(ss) /\ ~ (k <= k - 1)
      /\ k \in 1 .. Len(ss) /\ k - 1 \in 0 .. Len(ss)
  BY <1>4
<1>6. g[k - 1] = g[n]
  BY <1>5, <1>3
<1>7. g[k] = g[k - 1] \o <<>> /\ g[k - 1] \in Seq(S)
  BY <1>5, Zenon DEF Sums
<1>8. g[k] = g[k - 1]
  BY <1>7
<1> QED
  BY <1>4, <1>6, <1>8, Zenon

\* Concatenation is associative.
LEMMA ConcatOrder ==
    ASSUME NEW S, NEW s \in Seq(S), NEW t \in Seq(S), NEW u \in Seq(S)
    PROVE  (s \o t) \o u = s \o (t \o u)
<1> DEFINE a == (s \o t) \o u
           b == s \o (t \o u)
<1>1. a \in Seq(S) /\ b \in Seq(S) /\ Len(a) = Len(b) /\ Len(a) \in Nat
  OBVIOUS
<1>2. \A i \in 1 .. Len(a) : a[i] = b[i]
  OBVIOUS
<1> HIDE DEF a, b
<1>3. a = b
  BY <1>1, <1>2, SeqEqual
<1> QED
  BY <1>3 DEF a, b

\* The concatenation of two lists of sequences.
LEMMA FlattenConcat ==
    ASSUME NEW S, NEW ss \in Seq(Seq(S)), NEW tt \in Seq(Seq(S))
    PROVE  FlattenSeq(ss \o tt) = FlattenSeq(ss) \o FlattenSeq(tt)
<1> DEFINE uu == ss \o tt
           m == Len(ss)
           n == Len(tt)
<1>1. /\ m \in Nat /\ n \in Nat /\ uu \in Seq(Seq(S)) /\ Len(uu) = m + n
      /\ \A k \in 1 .. m : uu[k] = ss[k]
      /\ \A k \in 1 .. n : uu[m + k] = tt[k] /\ tt[k] \in Seq(S)
  OBVIOUS
<1>2. PICK g : Sums(S, ss, g) /\ FlattenSeq(ss) = g[m]
  BY FlattenSums, Zenon
<1>3. PICK h : Sums(S, tt, h) /\ FlattenSeq(tt) = h[n]
  BY FlattenSums, Zenon
<1> HIDE DEF uu
<1>4. PICK f : Sums(S, uu, f) /\ FlattenSeq(uu) = f[Len(uu)]
  BY <1>1, FlattenSums, Zenon
<1> HIDE DEF m, n
<1>5. f[m] = g[m]
  <2>2. m \in Nat /\ \A k \in 1 .. m : uu[k] = ss[k]
    BY <1>1
  <2>1. Len(ss) \in Nat /\ m <= Len(ss) /\ m <= Len(uu) /\ Len(uu) \in Nat
    BY <1>1 DEF m
  <2> QED
    BY <2>1, <2>2, <1>2, <1>4, SumsAgree
<1>6. g[m] \in Seq(S) /\ h[0] = <<>> /\ \A k \in 0 .. n : h[k] \in Seq(S)
  <2>1. m \in 0 .. Len(ss) /\ n = Len(tt)
    BY <1>1 DEF m, n
  <2> QED
    BY <2>1, <1>2, <1>3, Zenon DEF Sums
<1> DEFINE T == {k \in 0 .. n : f[m + k] # g[m] \o h[k]}
<1>7. T = {}
  <2>1. SUFFICES ASSUME T # {} PROVE FALSE
    OBVIOUS
  <2>2. T \subseteq Nat
    <3>1. 0 .. n \subseteq Nat
      BY <1>1
    <3> QED
      BY <3>1, Zenon
  <2>3. PICK k \in T : \A l \in T : k <= l
    BY <2>1, <2>2, Least, Zenon
  <2>4. k \in 0 .. n /\ f[m + k] # g[m] \o h[k]
    BY <2>3
  <2>5. k # 0
    <3>1. SUFFICES ASSUME k = 0 PROVE FALSE
      OBVIOUS
    <3>2. m + 0 = m
      BY <1>1
    <3>3. g[m] \o h[0] = g[m]
      BY <1>6
    <3> QED
      BY <3>1, <3>2, <3>3, <2>4, <1>5, Zenon
  <2>6. /\ k \in 1 .. n /\ k - 1 \in 0 .. n /\ ~ (k <= k - 1)
        /\ m + k \in 1 .. Len(uu) /\ (m + k) - 1 = m + (k - 1)
    BY <2>4, <2>5, <1>1
  <2>7. f[m + (k - 1)] = g[m] \o h[k - 1]
    BY <2>6, <2>3
  <2>8. f[m + k] = f[(m + k) - 1] \o uu[m + k]
    BY <2>6, <1>4, Zenon DEF Sums
  <2>9. h[k] = h[k - 1] \o tt[k]
    <3>1. k \in 1 .. Len(tt)
      BY <2>6 DEF n
    <3> QED
      BY <3>1, <1>3, Zenon DEF Sums
  <2>10. f[m + k] = (g[m] \o h[k - 1]) \o tt[k]
    BY <2>6, <2>7, <2>8, <1>1, Zenon
  <2>11. g[m] \in Seq(S) /\ h[k - 1] \in Seq(S) /\ tt[k] \in Seq(S)
    BY <2>6, <1>1, <1>6
  <2>12. (g[m] \o h[k - 1]) \o tt[k] = g[m] \o (h[k - 1] \o tt[k])
    <3> HIDE DEF T
    <3> DEFINE a == g[m]
               b == h[k - 1]
               c == tt[k]
    <3>1. a \in Seq(S) /\ b \in Seq(S) /\ c \in Seq(S)
      BY <2>11
    <3> HIDE DEF a, b, c
    <3>2. (a \o b) \o c = a \o (b \o c)
      BY <3>1, ConcatOrder, SMT
    <3> QED
      BY <3>2 DEF a, b, c
  <2> QED
    BY <2>4, <2>9, <2>10, <2>12, Zenon
<1>8. n \in 0 .. n /\ Len(uu) = m + n
  BY <1>1
<1>9. f[m + n] = g[m] \o h[n]
  BY <1>7, <1>8
<1> QED
  BY <1>2, <1>3, <1>4, <1>8, <1>9, Zenon DEF uu

-----------------------------------------------------------------------------
\* The second part of a concatenation.
LEMMA ConcatSecond ==
    ASSUME NEW S, NEW a \in Seq(S), NEW b \in Seq(S)
    PROVE  \A i \in 1 .. Len(b) : (a \o b)[Len(a) + i] = b[i]
OBVIOUS

\* The elements of a list that are in a set, in order.
Filter(p, V) == Where(p, {i \in DOMAIN p : p[i] \in V})

\* The parts that Where concatenates.
Pieces(p, V) == [i \in 1 .. Len(p) |-> IF p[i] \in V THEN <<p[i]>> ELSE <<>>]

LEMMA FilterIs ==
    ASSUME NEW S, NEW p \in Seq(S), NEW V
    PROVE  /\ Pieces(p, V) \in Seq(Seq(S)) /\ Len(Pieces(p, V)) = Len(p)
           /\ Filter(p, V) = FlattenSeq(Pieces(p, V))
<1> DEFINE I == {i \in DOMAIN p : p[i] \in V}
           f == [i \in DOMAIN p |-> IF i \in I THEN <<p[i]>> ELSE <<>>]
<1>1. DOMAIN p = 1 .. Len(p) /\ Len(p) \in Nat /\ \A i \in 1 .. Len(p) : p[i] \in S
  OBVIOUS
<1>2. Filter(p, V) = FlattenSeq(f)
  BY Zenon DEF Filter, Where
<1>3. \A i \in 1 .. Len(p) : i \in I <=> p[i] \in V
  BY <1>1
<1> HIDE DEF I
<1>4. f = Pieces(p, V)
  BY <1>1, <1>3 DEF Pieces
<1>5. \A i \in 1 .. Len(p) : (IF p[i] \in V THEN <<p[i]>> ELSE <<>>) \in Seq(S)
  BY <1>1
<1>6. Pieces(p, V) \in [1 .. Len(p) -> Seq(S)]
  BY <1>5, Zenon DEF Pieces
<1>7. Pieces(p, V) \in Seq(Seq(S)) /\ Len(Pieces(p, V)) = Len(p)
  BY <1>1, <1>6
<1> QED
  BY <1>2, <1>4, <1>7, Zenon

LEMMA FilterType ==
    ASSUME NEW S, NEW p \in Seq(S), NEW V
    PROVE  Filter(p, V) \in Seq(S)
BY WhereKeeps, Zenon DEF Filter

LEMMA FilterConcat ==
    ASSUME NEW S, NEW p \in Seq(S), NEW q \in Seq(S), NEW V
    PROVE  Filter(p \o q, V) = Filter(p, V) \o Filter(q, V)
<1> DEFINE a == Pieces(p, V)
           b == Pieces(q, V)
           c == Pieces(p \o q, V)
<1>1. p \o q \in Seq(S)
  OBVIOUS
<1>2. /\ a \in Seq(Seq(S)) /\ Len(a) = Len(p) /\ Filter(p, V) = FlattenSeq(a)
      /\ b \in Seq(Seq(S)) /\ Len(b) = Len(q) /\ Filter(q, V) = FlattenSeq(b)
      /\ c \in Seq(Seq(S)) /\ Len(c) = Len(p \o q) /\ Filter(p \o q, V) = FlattenSeq(c)
  BY <1>1, FilterIs
<1>3. c = a \o b
  <2>1. /\ Len(p) \in Nat /\ Len(q) \in Nat /\ Len(p \o q) = Len(p) + Len(q)
        /\ \A i \in 1 .. Len(p) : (p \o q)[i] = p[i]
        /\ \A i \in 1 .. Len(q) : (p \o q)[Len(p) + i] = q[i]
    OBVIOUS
  <2>2. \A i \in 1 .. Len(p) : a[i] = IF p[i] \in V THEN <<p[i]>> ELSE <<>>
    BY Zenon DEF Pieces
  <2>3. \A i \in 1 .. Len(q) : b[i] = IF q[i] \in V THEN <<q[i]>> ELSE <<>>
    BY Zenon DEF Pieces
  <2>4. \A i \in 1 .. Len(p \o q) :
            c[i] = IF (p \o q)[i] \in V THEN <<(p \o q)[i]>> ELSE <<>>
    BY Zenon DEF Pieces
  <2> DEFINE r == p \o q
  <2> HIDE DEF a, b, c, r
  <2> DEFINE Q == Seq(S)
             m == Len(p)
             n == Len(q)
  <2>0. a \in Seq(Q) /\ b \in Seq(Q) /\ Len(a) = m /\ Len(b) = n
    BY <1>2
  <2>13. m \in Nat /\ n \in Nat
    BY <2>1
  <2> HIDE DEF Q, m, n
  <2>14. a \o b \in Seq(Q) /\ Len(a \o b) = m + n
    BY <2>0, <2>13
  <2>15. \A i \in 1 .. m : (a \o b)[i] = a[i]
    BY <2>0, <2>13
  <2>16. \A i \in 1 .. n : (a \o b)[m + i] = b[i]
    BY <2>0, ConcatSecond
  <2>5. a \o b \in Seq(Seq(S)) /\ Len(a \o b) = Len(p) + Len(q)
    BY <2>14 DEF Q, m, n
  <2>6. /\ \A i \in 1 .. Len(p) : (a \o b)[i] = a[i]
        /\ \A i \in 1 .. Len(q) : (a \o b)[Len(p) + i] = b[i]
    BY <2>15, <2>16 DEF m, n
  <2>7. \A i \in 1 .. Len(p) : c[i] = a[i]
    <3> SUFFICES ASSUME NEW i \in 1 .. Len(p) PROVE c[i] = a[i]
      OBVIOUS
    <3>1. i \in 1 .. Len(p \o q) /\ (p \o q)[i] = p[i]
      BY <2>1
    <3> QED
      BY <3>1, <2>2, <2>4, Zenon
  <2>8. \A i \in 1 .. Len(q) : c[Len(p) + i] = b[i]
    <3> SUFFICES ASSUME NEW i \in 1 .. Len(q) PROVE c[Len(p) + i] = b[i]
      OBVIOUS
    <3>1. Len(p) + i \in 1 .. Len(p \o q) /\ (p \o q)[Len(p) + i] = q[i]
      BY <2>1
    <3> QED
      BY <3>1, <2>3, <2>4, Zenon
  <2>9. \A i \in 1 .. Len(p) + Len(q) : c[i] = (a \o b)[i]
    <3> SUFFICES ASSUME NEW i \in 1 .. Len(p) + Len(q) PROVE c[i] = (a \o b)[i]
      OBVIOUS
    <3>1. CASE i \in 1 .. Len(p)
      BY <3>1, <2>6, <2>7, Zenon
    <3>2. CASE i \notin 1 .. Len(p)
      <4>1. i - Len(p) \in 1 .. Len(q) /\ Len(p) + (i - Len(p)) = i
        BY <3>2, <2>1
      <4> QED
        BY <4>1, <2>6, <2>8, Zenon
    <3> QED
      BY <3>1, <3>2
  <2>10. Len(c) = Len(a \o b)
    BY <1>2, <2>1, <2>5
  <2>11. \A i \in 1 .. Len(c) : c[i] = (a \o b)[i]
    BY <1>2, <2>1, <2>9
  <2> DEFINE d == a \o b
  <2> HIDE DEF d
  <2>12. c \in Seq(Seq(S)) /\ d \in Seq(Seq(S)) /\ Len(c) = Len(d) /\ \A i \in 1 .. Len(c) : c[i] = d[i]
    BY <1>2, <2>5, <2>10, <2>11 DEF d
  <2> QED
    BY <2>12, SeqEqual DEF d
<1> HIDE DEF a, b, c
<1>4. FlattenSeq(a \o b) = FlattenSeq(a) \o FlattenSeq(b)
  BY <1>2, FlattenConcat
<1> QED
  BY <1>2, <1>3, <1>4

LEMMA FilterNone ==
    ASSUME NEW S, NEW p \in Seq(S), NEW V, \A i \in 1 .. Len(p) : p[i] \notin V
    PROVE  Filter(p, V) = <<>>
<1> DEFINE I == {i \in DOMAIN p : p[i] \in V}
           s == Filter(p, V)
<1>1. s \in Seq(S) /\ \E at : Selected(p, I, s, at)
  BY WhereKeeps, Zenon DEF Filter
<1>2. PICK at : Selected(p, I, s, at)
  BY <1>1, Zenon
<1> HIDE DEF s
<1>3. ~ \E n \in 1 .. Len(s) : TRUE
  BY <1>2 DEF Selected
<1> HIDE DEF I
<1> QED
  BY <1>1, <1>3 DEF s

\* One element of the list is in the set.
LEMMA FilterOnly ==
    ASSUME NEW S, NEW p \in Seq(S), NEW V, NEW n \in 1 .. Len(p), p[n] \in V,
           \A i \in 1 .. Len(p) : p[i] \in V => i = n
    PROVE  Filter(p, V) = <<p[n]>>
<1> DEFINE I == {i \in DOMAIN p : p[i] \in V}
           s == Filter(p, V)
<1>1. s \in Seq(S) /\ \E at : Selected(p, I, s, at)
  BY WhereKeeps, Zenon DEF Filter
<1>2. PICK at : Selected(p, I, s, at)
  BY <1>1, Zenon
<1>3. DOMAIN p = 1 .. Len(p) /\ Len(s) \in Nat
  BY <1>1
<1>4. n \in I /\ \A i \in I : i = n
  BY <1>3
<1> HIDE DEF s, I
<1>5. PICK j \in 1 .. Len(s) : at[j] = n
  BY <1>2, <1>4 DEF Selected
<1>6. \A k \in 1 .. Len(s) : at[k] = n /\ s[k] = p[n]
  BY <1>2, <1>4, Zenon DEF Selected
<1>7. Len(s) = 1
  <2>1. SUFFICES ASSUME Len(s) # 1 PROVE FALSE
    OBVIOUS
  <2>2. 1 \in 1 .. Len(s) /\ 2 \in 1 .. Len(s) /\ 1 < 2
    <3>1. Len(s) >= 1
      BY <1>3, <1>5
    <3> DEFINE l == Len(s)
    <3>2. l \in Nat /\ l >= 1 /\ l # 1
      BY <2>1, <3>1, <1>3
    <3> HIDE DEF l
    <3>3. 1 \in 1 .. l /\ 2 \in 1 .. l /\ 1 < 2
      BY <3>2
    <3> QED
      BY <3>3 DEF l
  <2>3. at[1] < at[2]
    BY <2>2, <1>2, Zenon DEF Selected
  <2>4. at[1] = n /\ at[2] = n
    BY <2>2, <1>6
  <2> QED
    BY <2>3, <2>4
<1>8. s[1] = p[n]
  BY <1>6, <1>7
<1>9. s = <<p[n]>>
  BY <1>1, <1>7, <1>8
<1> QED
  BY <1>9 DEF s

\* Filtering what is filtered.
LEMMA FilterAgain ==
    ASSUME NEW S, NEW p \in Seq(S), NEW V, NEW W
    PROVE  Filter(Filter(p, W), V) = Filter(p, V \cap W)
<1> DEFINE q(k) == SubSeq(p, 1, k)
           N == Len(p)
           T == {k \in 0 .. N : Filter(Filter(q(k), W), V) # Filter(q(k), V \cap W)}
<1>1. N \in Nat /\ q(N) = p /\ q(0) = <<>> /\ \A k \in 1 .. N : p[k] \in S
  OBVIOUS
<1>2. \A k \in 0 .. N : q(k) \in Seq(S)
  OBVIOUS
<1>3. \A k \in 1 .. N : q(k) = q(k - 1) \o <<p[k]>>
  OBVIOUS
<1> HIDE DEF q, N
<1>4. SUFFICES ASSUME T # {} PROVE FALSE
  <2>1. N \in 0 .. N
    BY <1>1
  <2> QED
    BY <1>1, <1>4, <2>1, Zenon
<1>5. PICK k \in T : \A l \in T : k <= l
  <2>1. 0 .. N \subseteq Nat
    BY <1>1
  <2>2. T \subseteq Nat
    BY <2>1, Zenon
  <2> HIDE DEF T
  <2> QED
    BY <1>4, <2>2, Least, Zenon
<1>6. k \in 0 .. N /\ Filter(Filter(q(k), W), V) # Filter(q(k), V \cap W)
  BY <1>5, Zenon
<1>7. k # 0
  <2>1. <<>> \in Seq(S) /\ \A i \in 1 .. Len(<<>>) : FALSE
    OBVIOUS
  <2>2. \A X : Filter(<<>>, X) = <<>>
    <3> TAKE X
    <3>1. \A i \in 1 .. Len(<<>>) : <<>>[i] \notin X
      OBVIOUS
    <3> QED
      BY <2>1, <3>1, FilterNone, Zenon
  <2> QED
    BY <2>2, <1>1, <1>6, Zenon
<1>8. k \in 1 .. N /\ k - 1 \in 0 .. N /\ ~ (k <= k - 1)
  BY <1>1, <1>6, <1>7
<1>9. Filter(Filter(q(k - 1), W), V) = Filter(q(k - 1), V \cap W)
  BY <1>8, <1>5
<1> DEFINE r == q(k - 1)
           x == p[k]
<1>10. r \in Seq(S) /\ x \in S /\ q(k) = r \o <<x>> /\ <<x>> \in Seq(S)
  BY <1>1, <1>2, <1>3, <1>8
<1> HIDE DEF r, x, T
<1>11. ASSUME NEW X PROVE Filter(<<x>>, X) = IF x \in X THEN <<x>> ELSE <<>>
  <2>1. 1 \in 1 .. Len(<<x>>) /\ <<x>>[1] = x /\ \A i \in 1 .. Len(<<x>>) : i = 1
    OBVIOUS
  <2>2. CASE x \in X
    <3>1. Filter(<<x>>, X) = <<<<x>>[1]>>
      BY <2>1, <2>2, <1>10, FilterOnly
    <3> QED
      BY <3>1, <2>1, <2>2
  <2>3. CASE x \notin X
    <3>1. \A i \in 1 .. Len(<<x>>) : <<x>>[i] \notin X
      BY <2>1, <2>3
    <3>2. Filter(<<x>>, X) = <<>>
      BY <3>1, <1>10, FilterNone
    <3> QED
      BY <3>2, <2>3
  <2> QED
    BY <2>2, <2>3
<1> DEFINE y == <<x>>
<1>12. \A X : Filter(q(k), X) = Filter(r, X) \o Filter(<<x>>, X)
  <2> TAKE X
  <2>1. r \in Seq(S) /\ y \in Seq(S) /\ q(k) = r \o y
    BY <1>10
  <2> HIDE DEF y
  <2>2. Filter(r \o y, X) = Filter(r, X) \o Filter(y, X)
    BY <2>1, FilterConcat, SMT
  <2> QED
    BY <2>1, <2>2 DEF y
<1>13. Filter(r, W) \in Seq(S) /\ Filter(<<x>>, W) \in Seq(S)
  BY <1>10, FilterType
<1>14. Filter(Filter(q(k), W), V) = Filter(Filter(r, W), V) \o Filter(Filter(<<x>>, W), V)
  <2> DEFINE u == Filter(r, W)
             v == Filter(<<x>>, W)
  <2>1. u \in Seq(S) /\ v \in Seq(S) /\ Filter(q(k), W) = u \o v
    BY <1>12, <1>13
  <2> HIDE DEF u, v
  <2>2. Filter(u \o v, V) = Filter(u, V) \o Filter(v, V)
    BY <2>1, FilterConcat, SMT
  <2> QED
    BY <2>1, <2>2 DEF u, v
<1>15. Filter(Filter(<<x>>, W), V) = Filter(<<x>>, V \cap W)
  <2>1. CASE x \in W
    BY <2>1, <1>11
  <2>2. CASE x \notin W
    <3>1. Filter(<<x>>, W) = <<>> /\ Filter(<<x>>, V \cap W) = <<>>
      BY <2>2, <1>11
    <3>2. <<>> \in Seq(S) /\ \A i \in 1 .. Len(<<>>) : <<>>[i] \notin V
      OBVIOUS
    <3>3. Filter(<<>>, V) = <<>>
      BY <3>2, FilterNone
    <3> QED
      BY <3>1, <3>3
  <2> QED
    BY <2>1, <2>2
<1>16. Filter(Filter(r, W), V) = Filter(r, V \cap W)
  BY <1>9 DEF r
<1> QED
  BY <1>6, <1>12, <1>14, <1>15, <1>16
\* A list's members are in one part of it or in the other.
LEMMA FilterSplit ==
    ASSUME NEW S, NEW p \in Seq(S), NEW V, NEW W,
           \A i \in 1 .. Len(p) : p[i] \in V <=> p[i] \notin W
    PROVE  Len(Filter(p, V)) + Len(Filter(p, W)) = Len(p)
<1> DEFINE a == Pieces(p, V)
           b == Pieces(p, W)
           n == Len(p)
<1>1. /\ a \in Seq(Seq(S)) /\ Len(a) = n /\ Filter(p, V) = FlattenSeq(a)
      /\ b \in Seq(Seq(S)) /\ Len(b) = n /\ Filter(p, W) = FlattenSeq(b)
  BY FilterIs, Zenon
<1>2. PICK g : Sums(S, a, g) /\ FlattenSeq(a) = g[n]
  BY <1>1, FlattenSums
<1>3. PICK h : Sums(S, b, h) /\ FlattenSeq(b) = h[n]
  BY <1>1, FlattenSums
<1>4. n \in Nat
  OBVIOUS
<1>5. \A k \in 1 .. n : Len(a[k]) + Len(b[k]) = 1 /\ a[k] \in Seq(S) /\ b[k] \in Seq(S)
  BY DEF Pieces
<1> HIDE DEF a, b, n
<1>6. /\ \A k \in 0 .. n : g[k] \in Seq(S) /\ h[k] \in Seq(S)
      /\ g[0] = <<>> /\ h[0] = <<>>
      /\ \A k \in 1 .. n : g[k] = g[k - 1] \o a[k] /\ h[k] = h[k - 1] \o b[k]
  BY <1>1, <1>2, <1>3 DEF Sums
<1> DEFINE T == {k \in 0 .. n : Len(g[k]) + Len(h[k]) # k}
<1>7. ASSUME T # {} PROVE FALSE
  <2>1. T \subseteq Nat
    <3>1. T \subseteq 0 .. n
      BY Zenon
    <3>2. 0 .. n \subseteq Nat
      BY <1>4
    <3> HIDE DEF T
    <3> QED
      BY <3>1, <3>2, Zenon
  <2>2. PICK k \in T : \A m \in T : k <= m
    BY <1>7, <2>1, Least, Zenon
  <2>3. k # 0
    <3>1. Len(g[0]) + Len(h[0]) = 0
      BY <1>6
    <3> QED
      BY <2>2, <3>1, Zenon
  <2>4. k \in 1 .. n /\ k - 1 \in 0 .. n /\ ~ (k <= k - 1)
    BY <1>4, <2>2, <2>3
  <2>5. Len(g[k - 1]) + Len(h[k - 1]) = k - 1
    BY <2>2, <2>4
  <2> DEFINE u == g[k - 1]
             v == h[k - 1]
             x == a[k]
             y == b[k]
  <2>6. /\ u \in Seq(S) /\ v \in Seq(S) /\ x \in Seq(S) /\ y \in Seq(S)
        /\ g[k] = u \o x /\ h[k] = v \o y /\ Len(x) + Len(y) = 1 /\ Len(u) + Len(v) = k - 1
    BY <1>5, <1>6, <2>4, <2>5
  <2> HIDE DEF u, v, x, y
  <2>7. Len(g[k]) = Len(u) + Len(x) /\ Len(h[k]) = Len(v) + Len(y)
    BY <2>6
  <2>8. /\ Len(u) \in Nat /\ Len(v) \in Nat /\ Len(x) \in Nat /\ Len(y) \in Nat
    BY <2>6
  <2>9. Len(g[k]) + Len(h[k]) = k
    <3>1. k \in Nat
      BY <1>4, <2>4
    <3> DEFINE lu == Len(u)
               lx == Len(x)
               lv == Len(v)
               ly == Len(y)
    <3>2. /\ lu \in Nat /\ lx \in Nat /\ lv \in Nat /\ ly \in Nat
          /\ lx + ly = 1 /\ lu + lv = k - 1
      BY <2>6, <2>8
    <3> HIDE DEF lu, lx, lv, ly
    <3>3. (lu + lx) + (lv + ly) = k
      BY <3>1, <3>2
    <3> USE DEF lu, lx, lv, ly
    <3> QED
      BY <2>7, <3>3, Zenon
  <2> QED
    BY <2>2, <2>9
<1>8. n \in 0 .. n
  BY <1>4
<1> QED
  BY <1>1, <1>2, <1>3, <1>7, <1>8 DEF n

\* What a list of two, or of one more, keeps.
LEMMA FilterTwo ==
    ASSUME NEW S, NEW x \in S, NEW y \in S, NEW V, y \notin V, NEW q, q = <<x, y>>
    PROVE  /\ q \in Seq(S)
           /\ x \in V => Filter(q, V) = <<x>>
           /\ x \notin V => Filter(q, V) = <<>>
<1>1. q \in Seq(S) /\ Len(q) = 2 /\ q[1] = x /\ q[2] = y
  OBVIOUS
<1>2. ASSUME x \in V PROVE Filter(q, V) = <<x>>
  <2>1. \A i \in 1 .. Len(q) : q[i] \in V => i = 1
    BY <1>1
  <2>2. 1 \in 1 .. Len(q) /\ q[1] \in V
    BY <1>1, <1>2
  <2>3. Filter(q, V) = <<q[1]>>
    BY <1>1, <2>1, <2>2, FilterOnly, Zenon
  <2> QED
    BY <1>1, <2>3
<1>3. ASSUME x \notin V PROVE Filter(q, V) = <<>>
  <2>1. \A i \in 1 .. Len(q) : q[i] \notin V
    BY <1>1, <1>3
  <2> QED
    BY <1>1, <2>1, FilterNone, Zenon
<1> QED
  BY <1>1, <1>2, <1>3

\* The last element.
LEMMA LastOf ==
    ASSUME NEW w, NEW n \in Nat, n > 0, w = [i \in 1 .. n |-> w[i]]
    PROVE  Last(w) = w[n]
<1>1. Len(w) = n
  <2> DEFINE T == {w[i] : i \in 1 .. n}
  <2>1. \A i \in 1 .. n : w[i] \in T
    OBVIOUS
  <2> HIDE DEF T
  <2> QED
    BY <2>1, SeqOfValues, Zenon
<1> QED
  BY <1>1, Zenon DEF Last

LEMMA LenConcat ==
    ASSUME NEW S, NEW a \in Seq(S), NEW b \in Seq(S)
    PROVE  Len(a \o b) = Len(a) + Len(b) /\ Len(a) \in Nat /\ Len(b) \in Nat
OBVIOUS

LEMMA LenAppend ==
    ASSUME NEW S, NEW p \in Seq(S), NEW x \in S
    PROVE  Len(Append(p, x)) = Len(p) + 1 /\ Len(p) \in Nat
OBVIOUS

LEMMA FilterTakes ==
    ASSUME NEW S, NEW p \in Seq(S), NEW x \in S, NEW V, x \in V
    PROVE  Filter(Append(p, x), V) = Append(Filter(p, V), x)
<1> DEFINE q == <<x>>
           f == Filter(p, V)
<1>1. q \in Seq(S) /\ Len(q) = 1 /\ q[1] = x /\ Append(p, x) = p \o q
  OBVIOUS
<1>2. f \in Seq(S)
  BY FilterType, Zenon
<1> HIDE DEF q
<1>3. Filter(p \o q, V) = f \o Filter(q, V)
  <2>1. q \in Seq(S)
    BY <1>1
  <2> QED
    BY <2>1, FilterConcat
<1>4. Filter(q, V) = q
  <2>1. \A i \in 1 .. Len(q) : q[i] \in V => i = 1
    BY <1>1
  <2>2. 1 \in 1 .. Len(q) /\ q[1] \in V
    BY <1>1
  <2>3. Filter(q, V) = <<q[1]>>
    BY <1>1, <2>1, <2>2, FilterOnly, Zenon
  <2> QED
    BY <1>1, <2>3 DEF q
<1> HIDE DEF f
<1>5. f \o q = Append(f, x)
  BY <1>2 DEF q
<1> QED
  BY <1>1, <1>3, <1>4, <1>5 DEF f

LEMMA FilterSkips ==
    ASSUME NEW S, NEW p \in Seq(S), NEW x \in S, NEW V, x \notin V
    PROVE  Filter(Append(p, x), V) = Filter(p, V)
<1> DEFINE q == <<x>>
           f == Filter(p, V)
<1>1. q \in Seq(S) /\ Len(q) = 1 /\ q[1] = x /\ Append(p, x) = p \o q
  OBVIOUS
<1>2. f \in Seq(S)
  BY FilterType, Zenon
<1> HIDE DEF q
<1>3. Filter(p \o q, V) = f \o Filter(q, V)
  <2>1. q \in Seq(S)
    BY <1>1
  <2> QED
    BY <2>1, FilterConcat
<1>4. Filter(q, V) = <<>>
  <2>1. \A i \in 1 .. Len(q) : q[i] \notin V
    BY <1>1
  <2> QED
    BY <1>1, <2>1, FilterNone, Zenon
<1> HIDE DEF f
<1>5. f \o <<>> = f
  BY <1>2
<1> QED
  BY <1>1, <1>3, <1>4, <1>5 DEF f

LEMMA FilterSome ==
    ASSUME NEW S, NEW p \in Seq(S), NEW V, NEW x \in ToSet(p), x \in V
    PROVE  Filter(p, V) # <<>>
<1> DEFINE I == {i \in DOMAIN p : p[i] \in V}
<1>1. ToSet(Filter(p, V)) = {p[i] : i \in DOMAIN p \cap I}
  BY WhereRange, Zenon DEF Filter
<1>2. x \in ToSet(Filter(p, V))
  BY <1>1, Zenon DEF ToSet
<1>3. ToSet(<<>>) = {}
  BY DEF ToSet
<1> QED
  BY <1>2, <1>3, Zenon

==============================================================================
