-------------------------- MODULE PoolSelectProofs --------------------------
(***************************************************************************)
(* Proofs about PoolSelect: every property that its passing run checks,    *)
(* for all rows, rules, thresholds, TTLs and digests.                      *)
(*                                                                         *)
(* Each operator of the model has a lemma that says what it returns        *)
(* without saying how: the health score is the worse of two fractions;     *)
(* the sort ranks the rows by a strict order; the merge lays the lists     *)
(* out in rounds; the selection takes places of the pool, each at most     *)
(* once. The invariant IInv says that each stage is a function of the      *)
(* input and of the token, and the theorems combine the lemmas.            *)
(***************************************************************************)
EXTENDS PoolSelect, SequenceLemmas

Outbound == [tag: Nat \X Nat, addresses: SUBSET Address,
             sub_id: Nat, group_id: Group \cup {NoGroup}]

-----------------------------------------------------------------------------
\* Fractions.

Fraction == Nat \X (Nat \ {0})

\* A common factor can be cancelled.
LEMMA Cancel ==
    ASSUME NEW x \in Nat, NEW y \in Nat, NEW z \in Nat \ {0}, x * z < y * z
    PROVE  x < y
<1>1. SUFFICES ASSUME y <= x PROVE FALSE
  OBVIOUS
<1>2. y * z <= x * z
  BY <1>1
<1> QED
  BY <1>2

\* Order is kept by a positive factor.
LEMMA Scale ==
    ASSUME NEW x \in Nat, NEW y \in Nat, NEW z \in Nat \ {0}
    PROVE  /\ x < y => x * z < y * z
           /\ x <= y => x * z <= y * z
OBVIOUS

\* Below is a weak order: what is below p is below everything not below p.
LEMMA BelowOrder ==
    ASSUME NEW p \in Fraction, NEW q \in Fraction, NEW r \in Fraction,
           Below(p, q), ~Below(r, q)
    PROVE  Below(p, r)
<1> DEFINE p1 == p[1]
           p2 == p[2]
           q1 == q[1]
           q2 == q[2]
           r1 == r[1]
           r2 == r[2]
<1>1. /\ p1 \in Nat /\ q1 \in Nat /\ r1 \in Nat
      /\ p2 \in Nat \ {0} /\ q2 \in Nat \ {0} /\ r2 \in Nat \ {0}
  BY DEF Fraction
<1>2. p1 * q2 < q1 * p2 /\ ~ (r1 * q2 < q1 * r2)
  BY DEF Below
<1> HIDE DEF p1, p2, q1, q2, r1, r2
<1>3. /\ p1 * q2 \in Nat /\ q1 * p2 \in Nat /\ q1 * r2 \in Nat /\ r1 * q2 \in Nat
      /\ p1 * r2 \in Nat /\ r1 * p2 \in Nat
  BY <1>1
<1>4. q1 * r2 <= r1 * q2
  BY <1>2, <1>3
<1>5. (p1 * q2) * r2 < (q1 * p2) * r2
  BY <1>1, <1>2, <1>3, Scale
<1>6. (q1 * r2) * p2 <= (r1 * q2) * p2
  BY <1>1, <1>4, <1>3, Scale
<1>7. (p1 * r2) * q2 < (r1 * p2) * q2
  BY <1>1, <1>5, <1>6
<1>8. p1 * r2 < r1 * p2
  BY <1>1, <1>3, <1>7, Cancel
<1> QED
  BY <1>8 DEF Below, p1, p2, q1, q2, r1, r2

\* Not both are below the other.
LEMMA BelowAsymmetric ==
    ASSUME NEW p \in Fraction, NEW q \in Fraction, Below(p, q)
    PROVE  ~ Below(q, p)
BY DEF Below, Fraction

\* min and max of _health_score leave a fraction.
LEMMA ClampedTyped ==
    ASSUME NEW n \in Int, NEW d \in Nat \ {0}
    PROVE  Clamped(n, d) \in Fraction
BY DEF Clamped, Fraction

\* Every row has a health score, and it is one of the two.
LEMMA HealthTyped ==
    ASSUME NEW sub \in Subscription
    PROVE  /\ TimeHealth(sub) \in Fraction /\ TrafficHealth(sub) \in Fraction
           /\ HealthScore(sub) \in {TimeHealth(sub), TrafficHealth(sub)}
           /\ HealthScore(sub) \in Fraction
<1>1. /\ sub.expires_in \in Int \cup {Null}
      /\ sub.traffic_total_gb \in Int \cup {Null} /\ sub.traffic_used_gb \in Int \cup {Null}
  BY DEF Subscription
<1>2. <<1, 1>> \in Fraction
  BY DEF Fraction
<1>3. TimeHealth(sub) \in Fraction
  <2>1. CASE sub.expires_in = Null
    BY <2>1, <1>2, Zenon DEF TimeHealth
  <2>2. CASE sub.expires_in # Null
    <3>1. Clamped(sub.expires_in, 720) \in Fraction
      BY <2>2, <1>1, ClampedTyped
    <3> QED
      BY <3>1, <2>2, Zenon DEF TimeHealth
  <2> QED
    BY <2>1, <2>2
<1>4. TrafficHealth(sub) \in Fraction
  <2> DEFINE none == sub.traffic_total_gb \in {Null, 0} \/ sub.traffic_used_gb = Null
  <2>1. CASE none
    BY <2>1, <1>2, Zenon DEF TrafficHealth
  <2>2. CASE ~none
    <3>1. CASE sub.traffic_total_gb > 0
      <4>1. Clamped(sub.traffic_total_gb - sub.traffic_used_gb, sub.traffic_total_gb) \in Fraction
        BY <2>2, <3>1, <1>1, ClampedTyped
      <4> QED
        BY <4>1, <2>2, <3>1, Zenon DEF TrafficHealth
    <3>2. CASE ~ (sub.traffic_total_gb > 0)
      <4>1. Clamped(sub.traffic_used_gb - sub.traffic_total_gb, -sub.traffic_total_gb) \in Fraction
        BY <2>2, <3>2, <1>1, ClampedTyped
      <4> QED
        BY <4>1, <2>2, <3>2, Zenon DEF TrafficHealth
    <3> QED
      BY <3>1, <3>2
  <2> QED
    BY <2>1, <2>2
<1>5. HealthScore(sub) \in {TimeHealth(sub), TrafficHealth(sub)}
  BY Zenon DEF HealthScore, Smaller
<1> QED
  BY <1>3, <1>4, <1>5, Zenon

\* The worse of the two is below a threshold if either is.
LEMMA HealthIsWorse ==
    ASSUME NEW sub \in Subscription, NEW m \in Fraction
    PROVE  Below(HealthScore(sub), m)
               <=> Below(TimeHealth(sub), m) \/ Below(TrafficHealth(sub), m)
<1> DEFINE p == TimeHealth(sub)
           q == TrafficHealth(sub)
<1>1. p \in Fraction /\ q \in Fraction
  BY HealthTyped
<1> HIDE DEF p, q
<1>2. CASE Below(q, p)
  <2>1. Below(p, m) => Below(q, m)
    <3>1. ASSUME Below(p, m), ~ Below(q, m)
          PROVE  FALSE
      <4>1. Below(p, q)
        BY <3>1, <1>1, BelowOrder
      <4>2. ~ Below(p, q)
        BY <1>1, <1>2, BelowAsymmetric
      <4> QED
        BY <4>1, <4>2
    <3> QED
      BY <3>1
  <2>2. Smaller(p, q) = q
    BY <1>2, Zenon DEF Smaller
  <2> QED
    BY <2>1, <2>2, Zenon DEF HealthScore, p, q
<1>3. CASE ~ Below(q, p)
  <2>1. Below(q, m) => Below(p, m)
    <3>1. ASSUME Below(q, m), ~ Below(p, m)
          PROVE  FALSE
      <4>1. Below(q, p)
        BY <3>1, <1>1, BelowOrder
      <4> QED
        BY <4>1, <1>3
    <3> QED
      BY <3>1
  <2>2. Smaller(p, q) = p
    BY <1>3, Zenon DEF Smaller
  <2> QED
    BY <2>1, <2>2, Zenon DEF HealthScore, p, q
<1> QED
  BY <1>2, <1>3

\* The threshold, as the properties state it.
LEMMA ThresholdIs ==
    ASSUME NEW sub \in Subscription
    PROVE  ~Below(HealthScore(sub), MinHealth) <=> Healthy(sub)
<1> DEFINE n == MinHealth[1]
           d == MinHealth[2]
<1>1. MinHealth \in Fraction /\ n \in Nat /\ d \in Nat \ {0}
  BY ConstantsAssumption DEF Fraction
<1>2. /\ sub.expires_in \in Int \cup {Null}
      /\ sub.traffic_total_gb \in Int \cup {Null} /\ sub.traffic_used_gb \in Int \cup {Null}
  BY DEF Subscription
<1> HIDE DEF n, d
<1>3. ASSUME NEW a \in Int, NEW b \in Nat \ {0}
      PROVE  ~Below(Clamped(a, b), MinHealth) <=> n = 0 \/ (n <= d /\ a * d >= b * n)
  <2>0. \A x, y : Below(<<x, y>>, MinHealth) <=> x * d < n * y
    BY DEF Below, n, d
  <2>1. CASE a < 0
    <3>1. Clamped(a, b) = <<0, 1>>
      BY <2>1, Zenon DEF Clamped
    <3>2. Below(Clamped(a, b), MinHealth) <=> 0 * d < n * 1
      BY <3>1, <2>0, Zenon
    <3>3. a * d < 0 /\ b * n >= 0
      BY <2>1, <1>1
    <3> QED
      BY <3>2, <3>3, <1>1
  <2>2. CASE a > b
    <3>1. Clamped(a, b) = <<1, 1>>
      BY <2>2 DEF Clamped
    <3>2. Below(Clamped(a, b), MinHealth) <=> 1 * d < n * 1
      BY <3>1, <2>0, Zenon
    <3>3. n <= d => b * n <= b * d
      BY <1>1
    <3>4. b * d <= a * d
      BY <2>2, <1>1
    <3>5. a * d \in Int /\ b * d \in Int /\ b * n \in Int
      BY <1>1
    <3> QED
      BY <3>2, <3>3, <3>4, <3>5, <1>1
  <2>3. CASE ~ (a < 0) /\ ~ (a > b)
    <3>1. Clamped(a, b) = <<a, b>>
      BY <2>3, Zenon DEF Clamped
    <3>2. Below(Clamped(a, b), MinHealth) <=> a * d < n * b
      BY <3>1, <2>0, Zenon
    <3>3. /\ n = 0 => a * d >= n * b
          /\ n * b = b * n /\ a * d \in Int /\ n * b \in Int
      BY <2>3, <1>1
    <3>4. a * d >= b * n => n <= d
      <4>1. SUFFICES ASSUME d < n PROVE a * d < b * n
        BY <3>3, <1>1
      <4>2. a * d <= b * d /\ b * d < b * n
        BY <4>1, <2>3, <1>1
      <4> QED
        BY <4>2, <3>3, <1>1
    <3> QED
      BY <3>2, <3>3, <3>4
  <2> QED
    BY <2>1, <2>2, <2>3
<1>4. ~Below(<<1, 1>>, MinHealth) <=> n <= d
  BY <1>1 DEF Below, n, d
<1>5. ~Below(TimeHealth(sub), MinHealth)
          <=> n = 0 \/ (n <= d /\ (sub.expires_in = Null \/ sub.expires_in * d >= 720 * n))
  <2>1. CASE sub.expires_in = Null
    <3>1. TimeHealth(sub) = <<1, 1>>
      BY <2>1, Zenon DEF TimeHealth
    <3> QED
      BY <3>1, <2>1, <1>1, <1>4
  <2>2. CASE sub.expires_in # Null
    <3>1. TimeHealth(sub) = Clamped(sub.expires_in, 720)
      BY <2>2, Zenon DEF TimeHealth
    <3> QED
      BY <3>1, <2>2, <1>2, <1>3
  <2> QED
    BY <2>1, <2>2
<1> DEFINE left == sub.traffic_total_gb - sub.traffic_used_gb
           enough == IF sub.traffic_total_gb > 0
                     THEN left * d >= sub.traffic_total_gb * n
                     ELSE left * d <= sub.traffic_total_gb * n
<1>6. ~Below(TrafficHealth(sub), MinHealth)
          <=> n = 0 \/ (n <= d /\ (\/ sub.traffic_total_gb \in {Null, 0} \/ sub.traffic_used_gb = Null
                                  \/ enough))
  <2> DEFINE none == sub.traffic_total_gb \in {Null, 0} \/ sub.traffic_used_gb = Null
  <2>1. CASE none
    <3>1. TrafficHealth(sub) = <<1, 1>>
      BY <2>1, Zenon DEF TrafficHealth
    <3> QED
      BY <3>1, <2>1, <1>1, <1>4
  <2>2. CASE ~none
    <3> DEFINE total == sub.traffic_total_gb
               used == sub.traffic_used_gb
    <3>1. total \in Int \ {0} /\ used \in Int
      BY <2>2, <1>2
    <3>2. CASE total > 0
      <4>1. TrafficHealth(sub) = Clamped(total - used, total)
        BY <2>2, <3>2, Zenon DEF TrafficHealth
      <4>2. ~Below(Clamped(total - used, total), MinHealth)
               <=> n = 0 \/ (n <= d /\ (total - used) * d >= total * n)
        BY <3>1, <3>2, <1>3
      <4>3. enough <=> (total - used) * d >= total * n
        BY <3>2
      <4> QED
        BY <4>1, <4>2, <4>3, <2>2, Zenon
    <3>3. CASE ~ (total > 0)
      <4>1. TrafficHealth(sub) = Clamped(used - total, -total)
        BY <2>2, <3>3, Zenon DEF TrafficHealth
      <4>2. ~Below(Clamped(used - total, -total), MinHealth)
               <=> n = 0 \/ (n <= d /\ (used - total) * d >= (-total) * n)
        BY <3>1, <3>3, <1>3
      <4>3. enough <=> (total - used) * d <= total * n
        BY <3>3
      <4>4. (used - total) * d >= (-total) * n <=> (total - used) * d <= total * n
        BY <3>1, <1>1
      <4> QED
        BY <4>1, <4>2, <4>3, <4>4, <2>2, Zenon
    <3> QED
      BY <3>2, <3>3
  <2> QED
    BY <2>1, <2>2
<1>7. ~Below(HealthScore(sub), MinHealth)
          <=> ~Below(TimeHealth(sub), MinHealth) /\ ~Below(TrafficHealth(sub), MinHealth)
  BY <1>1, HealthIsWorse
<1> QED
  BY <1>5, <1>6, <1>7, Zenon DEF Healthy, n, d

-----------------------------------------------------------------------------
\* The subscriptions that take part, in any order.
Listed(l, subs) ==
    /\ l \in Seq(Subscription)
    /\ \A i, j \in DOMAIN l : l[i].id = l[j].id => i = j
    /\ ToSet(l) = {sub \in ToSet(subs) : sub.outbounds # <<>> /\ Healthy(sub)}

\* The rows of a table.
Rows(subs) ==
    /\ subs \in Seq(Subscription)
    /\ \A i, j \in DOMAIN subs : subs[i].id = subs[j].id => i = j

\* The rows of an input have an id of their own (primary key).
LEMMA InputHasRows ==
    ASSUME NEW in \in Inputs
    PROVE  Rows(in.subs)
BY ConstantsAssumption, Zenon DEF Rows

\* Exactly the healthy subscriptions that have outbounds take part.
LEMMA ScoredIs ==
    ASSUME NEW subs, Rows(subs)
    PROVE  Listed(Scored(subs), subs)
<1> DEFINE I == {i \in DOMAIN subs :
                    subs[i].outbounds # <<>> /\ ~Below(HealthScore(subs[i]), MinHealth)}
           l == Where(subs, I)
<1>1. /\ subs \in Seq(Subscription)
      /\ \A i, j \in DOMAIN subs : subs[i].id = subs[j].id => i = j
  BY DEF Rows
<1>2. Scored(subs) = l
  BY Zenon DEF Scored
<1>3. \A i \in DOMAIN subs : i \in I <=> subs[i].outbounds # <<>> /\ Healthy(subs[i])
  <2>1. \A i \in DOMAIN subs : subs[i] \in Subscription
    BY <1>1
  <2> QED
    BY <2>1, ThresholdIs, Zenon
<1>4. l \in Seq(Subscription) /\ \E at : Selected(subs, I, l, at)
  BY <1>1, WhereKeeps
<1>5. ToSet(l) = {subs[i] : i \in DOMAIN subs \cap I}
  BY <1>1, WhereRange
<1> HIDE DEF I, l
<1>6. ToSet(l) = {sub \in ToSet(subs) : sub.outbounds # <<>> /\ Healthy(sub)}
  <2>1. \A x \in ToSet(l) : x \in ToSet(subs) /\ x.outbounds # <<>> /\ Healthy(x)
    BY <1>3, <1>5, Zenon DEF ToSet
  <2>2. \A x \in ToSet(subs) : x.outbounds # <<>> /\ Healthy(x) => x \in ToSet(l)
    BY <1>3, <1>5, Zenon DEF ToSet
  <2> QED
    BY <2>1, <2>2, Zenon
<1>7. ASSUME NEW i \in DOMAIN l, NEW j \in DOMAIN l, l[i].id = l[j].id
      PROVE  i = j
  <2>1. PICK at : Selected(subs, I, l, at)
    BY <1>4
  <2>2. DOMAIN l = 1 .. Len(l) /\ DOMAIN subs = 1 .. Len(subs)
    BY <1>1, <1>4
  <2>3. at[i] \in DOMAIN subs /\ at[j] \in DOMAIN subs /\ l[i] = subs[at[i]] /\ l[j] = subs[at[j]]
    BY <2>1, <2>2 DEF Selected
  <2>4. at[i] = at[j]
    BY <1>1, <1>7, <2>3, Zenon
  <2>5. ~ (i < j) /\ ~ (j < i)
    <3>1. \A m, n \in 1 .. Len(l) : m < n => at[m] < at[n]
      BY <2>1, Zenon DEF Selected
    <3>2. at[i] \in Int
      BY <2>2, <2>3
    <3> QED
      BY <3>1, <3>2, <2>2, <2>4
  <2> QED
    BY <2>5, <2>2
<1> QED
  BY <1>2, <1>4, <1>6, <1>7, Zenon DEF Listed

\* The places of a list, in the order in which the stable sort leaves them.
SortOrder(l) ==
    {e \in (DOMAIN l) \X (DOMAIN l) :
        \/ Below(HealthScore(l[e[2]]), HealthScore(l[e[1]]))
        \/ ~Below(HealthScore(l[e[1]]), HealthScore(l[e[2]])) /\ e[1] < e[2]}

\* Of two places one comes first.
LEMMA SortOrderIsStrict ==
    ASSUME NEW l \in Seq(Subscription)
    PROVE  StrictOrder(DOMAIN l, SortOrder(l))
<1> DEFINE D == DOMAIN l
           R == SortOrder(l)
           h == [i \in D |-> HealthScore(l[i])]
<1>1. /\ D = 1 .. Len(l) /\ Len(l) \in Nat
      /\ \A i \in D : h[i] \in Fraction
  <2>1. \A i \in D : l[i] \in Subscription
    OBVIOUS
  <2>2. \A i \in D : HealthScore(l[i]) \in Fraction
    BY <2>1, HealthTyped
  <2> QED
    BY <2>2
<1>2. \A j, i \in D : <<j, i>> \in R
          <=> Below(h[i], h[j]) \/ (~Below(h[j], h[i]) /\ j < i)
  BY DEF SortOrder
<1> HIDE DEF D, R, h
<1>3. \A i \in D : ~Below(h[i], h[i])
  BY <1>1, BelowAsymmetric
<1>4. \A i, j \in D : Below(h[i], h[j]) => ~Below(h[j], h[i])
  BY <1>1, BelowAsymmetric
<1>5. \A i, j, k \in D : Below(h[i], h[j]) /\ ~Below(h[k], h[j]) => Below(h[i], h[k])
  BY <1>1, BelowOrder
<1>6. \A x \in D : <<x, x>> \notin R
  BY <1>1, <1>2, <1>3
<1>7. ASSUME NEW x \in D, NEW y \in D, NEW z \in D, <<x, y>> \in R, <<y, z>> \in R
      PROVE  <<x, z>> \in R
  <2>1. /\ Below(h[y], h[x]) \/ (~Below(h[x], h[y]) /\ x < y)
        /\ Below(h[z], h[y]) \/ (~Below(h[y], h[z]) /\ y < z)
    BY <1>2, <1>7, Zenon
  <2>2. ~Below(h[x], h[y]) /\ ~Below(h[y], h[z])
    BY <2>1, <1>4, Zenon
  <2>3. ~Below(h[x], h[z])
    BY <2>2, <1>5, Zenon
  <2>4. CASE Below(h[y], h[x])
    BY <2>2, <2>4, <1>2, <1>4, <1>5, Zenon
  <2>5. CASE Below(h[z], h[y])
    BY <2>2, <2>5, <1>2, <1>4, <1>5, Zenon
  <2>6. CASE x < y /\ y < z
    <3>1. x < z
      BY <2>6, <1>1
    <3> QED
      BY <3>1, <2>3, <1>2, Zenon
  <2> QED
    BY <2>1, <2>4, <2>5, <2>6, Zenon
<1>8. ASSUME NEW x \in D, NEW y \in D, x # y
      PROVE  <<x, y>> \in R \/ <<y, x>> \in R
  <2>1. x < y \/ y < x
    BY <1>1, <1>8
  <2> QED
    BY <2>1, <1>2, <1>4, Zenon
<1> QED
  BY <1>6, <1>7, <1>8, Zenon DEF StrictOrder, D, R

\* The ranks number the places in that order.
LEMMA RankIs ==
    ASSUME NEW l \in Seq(Subscription)
    PROVE  /\ \A i \in DOMAIN l : Rank(l, i) \in DOMAIN l
           /\ \A i, j \in DOMAIN l : <<i, j>> \in SortOrder(l) => Rank(l, i) < Rank(l, j)
           /\ \A k \in DOMAIN l : \E i \in DOMAIN l : Rank(l, i) = k
<1> DEFINE D == DOMAIN l
           R == SortOrder(l)
           P(i) == Predecessors(D, R, i)
<1>1. D = 1 .. Len(l) /\ Len(l) \in Nat
  OBVIOUS
<1>2. IsFiniteSet(D) /\ Cardinality(D) = Len(l)
  BY <1>1, FS_Interval
<1>3. \A i \in D : Rank(l, i) = 1 + Cardinality(P(i))
  <2>1. ASSUME NEW i \in D
        PROVE  P(i) = {j \in D :
                  \/ Below(HealthScore(l[i]), HealthScore(l[j]))
                  \/ ~Below(HealthScore(l[j]), HealthScore(l[i])) /\ j < i}
    BY DEF Predecessors, SortOrder
  <2> QED
    BY <2>1, Zenon DEF Rank
<1>4. StrictOrder(D, R)
  BY SortOrderIsStrict
<1> HIDE DEF R
<1>5. /\ \A i \in D : Cardinality(P(i)) \in 0 .. Cardinality(D) - 1
      /\ \A i, j \in D : <<i, j>> \in R => Cardinality(P(i)) < Cardinality(P(j))
      /\ \A k \in 0 .. Cardinality(D) - 1 : \E i \in D : Cardinality(P(i)) = k
  BY <1>2, <1>4, Ranking
<1> HIDE DEF D, P
<1>6. \A i \in D : Rank(l, i) \in D
  BY <1>1, <1>2, <1>3, <1>5
<1>7. ASSUME NEW i \in D, NEW j \in D, <<i, j>> \in R
      PROVE  Rank(l, i) < Rank(l, j)
  <2>1. Cardinality(P(i)) < Cardinality(P(j))
    BY <1>5, <1>7
  <2>2. Cardinality(P(i)) \in Int /\ Cardinality(P(j)) \in Int
    BY <1>1, <1>2, <1>5
  <2> QED
    BY <2>1, <2>2, <1>3
<1>8. ASSUME NEW k \in D
      PROVE  \E i \in D : Rank(l, i) = k
  <2>1. k - 1 \in 0 .. Cardinality(D) - 1 /\ 1 + (k - 1) = k
    BY <1>1, <1>2
  <2>2. PICK i \in D : Cardinality(P(i)) = k - 1
    BY <2>1, <1>5
  <2>3. Rank(l, i) = k
    BY <2>1, <2>2, <1>3, Zenon
  <2> QED
    BY <2>3
<1> QED
  BY <1>6, <1>7, <1>8 DEF D, R

\* The sort keeps what it is given and puts no worse score first.
LEMMA SortedIs ==
    ASSUME NEW subs, NEW l, Listed(l, subs)
    PROVE  /\ Listed(Sorted(l), subs)
           /\ Len(Sorted(l)) = Len(l)
           /\ \A k, m \in DOMAIN Sorted(l) : k < m =>
                 ~Below(HealthScore(Sorted(l)[k]), HealthScore(Sorted(l)[m]))
<1> DEFINE D == DOMAIN l
           R == SortOrder(l)
           at == [k \in D |-> CHOOSE i \in D : Rank(l, i) = k]
           t == Sorted(l)
<1>1. /\ l \in Seq(Subscription) /\ D = 1 .. Len(l) /\ Len(l) \in Nat
      /\ \A i, j \in D : l[i].id = l[j].id => i = j
  BY DEF Listed
<1>2. /\ \A i \in D : Rank(l, i) \in D
      /\ \A i, j \in D : <<i, j>> \in R => Rank(l, i) < Rank(l, j)
      /\ \A k \in D : \E i \in D : Rank(l, i) = k
  BY <1>1, RankIs
<1>3. \A k \in D : at[k] \in D /\ Rank(l, at[k]) = k
  BY <1>2, Zenon
<1>4. t = [k \in D |-> l[at[k]]]
  BY DEF Sorted
<1>5. StrictOrder(D, R)
  BY <1>1, SortOrderIsStrict
<1> HIDE DEF D, R, at, t
<1>6. DOMAIN t = D /\ \A k \in D : t[k] = l[at[k]]
  BY <1>4
<1>7. \A i, j \in D : Rank(l, i) = Rank(l, j) => i = j
  <2>1. \A i, j \in D : i # j => Rank(l, i) < Rank(l, j) \/ Rank(l, j) < Rank(l, i)
    BY <1>2, <1>5, Zenon DEF StrictOrder
  <2>2. \A i \in D : Rank(l, i) \in Int
    BY <1>1, <1>2
  <2> QED
    BY <2>1, <2>2
<1>8. t \in Seq(Subscription) /\ Len(t) = Len(l)
  <2>1. \A i \in D : l[i] \in Subscription
    BY <1>1 DEF D
  <2>2. t \in [1 .. Len(l) -> Subscription]
    BY <2>1, <1>1, <1>3, <1>4
  <2> QED
    BY <2>2, <1>1
<1>9. ASSUME NEW i \in DOMAIN t, NEW j \in DOMAIN t, t[i].id = t[j].id
      PROVE  i = j
  <2>1. l[at[i]].id = l[at[j]].id /\ at[i] \in D /\ at[j] \in D
    BY <1>3, <1>6, <1>9, Zenon
  <2>2. at[i] = at[j]
    BY <2>1, <1>1, Zenon
  <2> QED
    BY <2>2, <1>3, <1>6, Zenon
<1>10. ToSet(t) = ToSet(l)
  <2>1. ASSUME NEW i \in D
        PROVE  l[i] \in ToSet(t)
    <3>1. at[Rank(l, i)] = i
      BY <1>2, <1>3, <1>7, Zenon
    <3> QED
      BY <3>1, <1>2, <1>6, Zenon DEF ToSet
  <2>2. \A k \in DOMAIN t : t[k] \in ToSet(l)
    BY <1>3, <1>6, Zenon DEF ToSet, D
  <2> QED
    BY <2>1, <2>2, Zenon DEF ToSet, D
<1>11. Listed(t, subs)
  BY <1>8, <1>9, <1>10, Zenon DEF Listed
<1>12. ASSUME NEW k \in DOMAIN t, NEW m \in DOMAIN t, k < m
       PROVE  ~Below(HealthScore(t[k]), HealthScore(t[m]))
  <2>1. k \in Int /\ m \in Int /\ at[k] # at[m]
    BY <1>1, <1>3, <1>6, <1>12
  <2>2. <<at[m], at[k]>> \notin R
    BY <2>1, <1>2, <1>3, <1>6, <1>12
  <2>3. <<at[k], at[m]>> \in R
    BY <2>1, <2>2, <1>3, <1>5, <1>6, Zenon DEF StrictOrder
  <2>4. \/ Below(HealthScore(l[at[m]]), HealthScore(l[at[k]]))
        \/ ~Below(HealthScore(l[at[k]]), HealthScore(l[at[m]]))
    BY <2>3 DEF R, SortOrder
  <2>5. HealthScore(t[k]) \in Fraction /\ HealthScore(t[m]) \in Fraction
    <3>1. t[k] \in Subscription /\ t[m] \in Subscription
      BY <1>8
    <3> QED
      BY <3>1, HealthTyped
  <2> QED
    BY <2>4, <2>5, <1>6, BelowAsymmetric
<1> QED
  BY <1>8, <1>11, <1>12 DEF t

-----------------------------------------------------------------------------
\* The merge.

\* The n-th outbound of a round is the i-th one of list at[n]; every list that
\* is long enough has its turn, in order.
InRound(lists, i, s, at) ==
    /\ at \in [1 .. Len(s) -> 1 .. Len(lists)]
    /\ \A n \in 1 .. Len(s) : i <= Len(lists[at[n]]) /\ s[n] = lists[at[n]][i]
    /\ \A m, n \in 1 .. Len(s) : m < n => at[m] < at[n]
    /\ \A k \in 1 .. Len(lists) : i <= Len(lists[k]) => \E n \in 1 .. Len(s) : at[n] = k

\* A round takes one outbound of every list that is long enough.
LEMMA RoundIs ==
    ASSUME NEW S, NEW lists \in Seq(Seq(S)), NEW i \in Nat \ {0}
    PROVE  Round(lists, i) \in Seq(S) /\ \E at : InRound(lists, i, Round(lists, i), at)
<1> DEFINE ss == [k \in DOMAIN lists |-> IF i <= Len(lists[k]) THEN <<lists[k][i]>> ELSE << >>]
           s == Round(lists, i)
<1>1. /\ DOMAIN lists = 1 .. Len(lists) /\ Len(lists) \in Nat
      /\ \A k \in 1 .. Len(lists) : lists[k] \in Seq(S)
  OBVIOUS
<1>2. ASSUME NEW k \in 1 .. Len(lists)
      PROVE  /\ i <= Len(lists[k]) => ss[k] = <<lists[k][i]>> /\ lists[k][i] \in S
             /\ ~ (i <= Len(lists[k])) => ss[k] = << >>
             /\ ss[k] \in Seq(S)
  <2>1. i <= Len(lists[k]) => lists[k][i] \in S
    BY <1>1
  <2> QED
    BY <2>1, <1>1
<1>3. ss \in Seq(Seq(S)) /\ Len(ss) = Len(lists)
  <2>1. ss \in [1 .. Len(lists) -> Seq(S)]
    BY <1>1, <1>2
  <2> QED
    BY <2>1, <1>1
<1>4. s = FlattenSeq(ss)
  BY Zenon DEF Round
<1> HIDE DEF ss, s
<1>5. s \in Seq(S) /\ \E row, col : Laid(ss, Len(ss), s, row, col)
  BY <1>3, <1>4, FlattenLaid
<1>6. PICK row, col : Laid(ss, Len(lists), s, row, col)
  BY <1>3, <1>5, Zenon
<1>7. Len(s) \in Nat
  BY <1>5
<1>8. ASSUME NEW n \in 1 .. Len(s)
      PROVE  /\ row[n] \in 1 .. Len(lists) /\ col[n] = 1
             /\ i <= Len(lists[row[n]]) /\ s[n] = lists[row[n]][i]
  <2>1. /\ row[n] \in 1 .. Len(lists)
        /\ col[n] \in 1 .. Len(ss[row[n]]) /\ s[n] = ss[row[n]][col[n]]
    BY <1>6 DEF Laid
  <2>2. i <= Len(lists[row[n]])
    BY <2>1, <1>2
  <2>3. ss[row[n]] = <<lists[row[n]][i]>>
    BY <2>1, <2>2, <1>2
  <2>4. col[n] = 1
    BY <2>1, <2>3
  <2> QED
    BY <2>1, <2>2, <2>3, <2>4
<1>9. ASSUME NEW m \in 1 .. Len(s), NEW n \in 1 .. Len(s), m < n
      PROVE  row[m] < row[n]
  <2>1. row[m] < row[n] \/ (row[m] = row[n] /\ col[m] < col[n])
    BY <1>9, <1>6, Zenon DEF Laid
  <2>2. col[m] = 1 /\ col[n] = 1
    BY <1>8
  <2> QED
    BY <2>1, <2>2
<1>10. ASSUME NEW k \in 1 .. Len(lists), i <= Len(lists[k])
       PROVE  \E n \in 1 .. Len(s) : row[n] = k
  <2>1. ss[k] = <<lists[k][i]>> /\ Len(<<lists[k][i]>>) = 1
    BY <1>10, <1>2
  <2>2. 1 \in 1 .. Len(ss[k])
    BY <2>1
  <2> QED
    BY <2>2, <1>6, Zenon DEF Laid
<1>11. row \in [1 .. Len(s) -> 1 .. Len(lists)]
  BY <1>6, Zenon DEF Laid
<1>12. InRound(lists, i, s, row)
  BY <1>8, <1>9, <1>10, <1>11, Zenon DEF InRound
<1> QED
  BY <1>5, <1>12, Zenon DEF s

\* max(len(lst) for lst in tagged_lists).
LEMMA LongestIs ==
    ASSUME NEW S, NEW lists \in Seq(Seq(S)), Len(lists) # 0
    PROVE  LET longest == Max({Len(lists[k]) : k \in DOMAIN lists})
           IN  longest \in Nat /\ \A k \in DOMAIN lists : Len(lists[k]) <= longest
<1> DEFINE L == {Len(lists[k]) : k \in DOMAIN lists}
           f == [k \in 1 .. Len(lists) |-> Len(lists[k])]
<1>1. Len(lists) \in Nat \ {0} /\ DOMAIN lists = 1 .. Len(lists)
  OBVIOUS
<1>2. f \in [1 .. Len(lists) -> Nat]
  OBVIOUS
<1>3. PICK k \in 1 .. Len(lists) : \A l \in 1 .. Len(lists) : f[l] <= f[k]
  BY <1>1, <1>2, Greatest
<1>4. L \subseteq Nat
  BY <1>2
<1>5. Len(lists[k]) \in L /\ \A y \in L : y <= Len(lists[k])
  BY <1>1, <1>3
<1> HIDE DEF L
<1>6. \E x \in L : \A y \in L : x >= y
  BY <1>4, <1>5
<1>7. Max(L) \in L /\ \A y \in L : Max(L) >= y
  BY <1>6, Zenon DEF Max
<1> QED
  BY <1>4, <1>7 DEF L

\* The n-th outbound of the pool is the one that list col[n] has at row[n]: all
\* are there, row by row and in each row list by list.
Dealt(lists, p, row, col) ==
    /\ row \in [1 .. Len(p) -> Nat] /\ col \in [1 .. Len(p) -> 1 .. Len(lists)]
    /\ \A n \in 1 .. Len(p) :
          row[n] \in 1 .. Len(lists[col[n]]) /\ p[n] = lists[col[n]][row[n]]
    /\ \A m, n \in 1 .. Len(p) : m < n =>
          row[m] < row[n] \/ (row[m] = row[n] /\ col[m] < col[n])
    /\ \A k \in 1 .. Len(lists) : \A i \in 1 .. Len(lists[k]) :
          \E n \in 1 .. Len(p) : row[n] = i /\ col[n] = k

\* The merge deals out every element of every list once, in rounds.
LEMMA RoundRobinIs ==
    ASSUME NEW S, NEW lists \in Seq(Seq(S)), Len(lists) # 0
    PROVE  /\ RoundRobin(lists) \in Seq(S)
           /\ \E row, col : Dealt(lists, RoundRobin(lists), row, col)
<1> DEFINE N == Max({Len(lists[k]) : k \in DOMAIN lists})
           ss == [i \in 1 .. N |-> Round(lists, i)]
           at == [i \in 1 .. N |-> CHOOSE f : InRound(lists, i, Round(lists, i), f)]
           p == RoundRobin(lists)
<1>1. /\ DOMAIN lists = 1 .. Len(lists) /\ Len(lists) \in Nat
      /\ \A k \in 1 .. Len(lists) : lists[k] \in Seq(S) /\ Len(lists[k]) \in Nat
  OBVIOUS
<1>2. N \in Nat /\ \A k \in 1 .. Len(lists) : Len(lists[k]) <= N
  BY <1>1, LongestIs
<1>3. p = FlattenSeq(ss)
  BY Zenon DEF RoundRobin
<1> HIDE DEF N
<1>4. \A i \in 1 .. N : ss[i] \in Seq(S) /\ InRound(lists, i, ss[i], at[i])
  <2>1. ASSUME NEW i \in 1 .. N
        PROVE  ss[i] \in Seq(S) /\ InRound(lists, i, ss[i], at[i])
    <3>1. i \in Nat \ {0}
      BY <1>2
    <3>2. Round(lists, i) \in Seq(S) /\ \E f : InRound(lists, i, Round(lists, i), f)
      BY <3>1, RoundIs
    <3> QED
      BY <3>2, Zenon
  <2> QED
    BY <2>1
<1>5. ss \in Seq(Seq(S)) /\ Len(ss) = N
  <2>1. ss \in [1 .. N -> Seq(S)]
    BY <1>4
  <2> QED
    BY <2>1, <1>2
<1> HIDE DEF ss, at, p
<1>6. p \in Seq(S) /\ \E r, c : Laid(ss, Len(ss), p, r, c)
  BY <1>3, <1>5, FlattenLaid
<1>7. PICK r, c : Laid(ss, N, p, r, c)
  BY <1>5, <1>6, Zenon
<1> DEFINE col == [n \in 1 .. Len(p) |-> at[r[n]][c[n]]]
<1>8. ASSUME NEW n \in 1 .. Len(p)
      PROVE  /\ r[n] \in 1 .. N /\ c[n] \in 1 .. Len(ss[r[n]]) /\ p[n] = ss[r[n]][c[n]]
             /\ col[n] = at[r[n]][c[n]] /\ InRound(lists, r[n], ss[r[n]], at[r[n]])
             /\ col[n] \in 1 .. Len(lists)
             /\ r[n] <= Len(lists[col[n]]) /\ p[n] = lists[col[n]][r[n]]
  <2>1. r[n] \in 1 .. N /\ c[n] \in 1 .. Len(ss[r[n]]) /\ p[n] = ss[r[n]][c[n]]
    BY <1>7 DEF Laid
  <2>2. col[n] = at[r[n]][c[n]]
    OBVIOUS
  <2>3. InRound(lists, r[n], ss[r[n]], at[r[n]])
    BY <2>1, <1>4, Zenon
  <2> HIDE DEF col
  <2>4. /\ at[r[n]][c[n]] \in 1 .. Len(lists)
        /\ r[n] <= Len(lists[at[r[n]][c[n]]])
        /\ ss[r[n]][c[n]] = lists[at[r[n]][c[n]]][r[n]]
    <3> DEFINE g == at[r[n]]
               t == ss[r[n]]
               j == c[n]
               q == r[n]
    <3>1. InRound(lists, q, t, g) /\ j \in 1 .. Len(t)
      BY <2>1, <2>3
    <3> HIDE DEF g, t, j, q
    <3>2. g[j] \in 1 .. Len(lists) /\ q <= Len(lists[g[j]]) /\ t[j] = lists[g[j]][q]
      BY <3>1 DEF InRound
    <3> QED
      BY <3>2 DEF g, t, j, q
  <2> QED
    BY <2>1, <2>2, <2>3, <2>4, Zenon
<1>9. ASSUME NEW m \in 1 .. Len(p), NEW n \in 1 .. Len(p), m < n
      PROVE  r[m] < r[n] \/ (r[m] = r[n] /\ col[m] < col[n])
  <2>1. r[m] < r[n] \/ (r[m] = r[n] /\ c[m] < c[n])
    BY <1>7, <1>9, Zenon DEF Laid
  <2>2. ASSUME r[m] = r[n], c[m] < c[n]
        PROVE  col[m] < col[n]
    <3>1. at[r[n]][c[m]] < at[r[n]][c[n]]
      <4>1. c[m] \in 1 .. Len(ss[r[n]]) /\ c[n] \in 1 .. Len(ss[r[n]])
        BY <1>8, <2>2, Zenon
      <4> QED
        BY <4>1, <1>8, <2>2, Zenon DEF InRound
    <3> QED
      BY <3>1, <1>8, <2>2, Zenon
  <2> QED
    BY <2>1, <2>2
<1>10. ASSUME NEW k \in 1 .. Len(lists), NEW i \in 1 .. Len(lists[k])
       PROVE  \E n \in 1 .. Len(p) : r[n] = i /\ col[n] = k
  <2>1. i \in 1 .. N /\ i <= Len(lists[k])
    BY <1>1, <1>2
  <2>2. InRound(lists, i, ss[i], at[i])
    BY <2>1, <1>4, Zenon
  <2>3. PICK j \in 1 .. Len(ss[i]) : at[i][j] = k
    BY <2>1, <2>2, Zenon DEF InRound
  <2>4. PICK n \in 1 .. Len(p) : r[n] = i /\ c[n] = j
    BY <2>1, <2>3, <1>7, Zenon DEF Laid
  <2>5. col[n] = k
    BY <2>3, <2>4
  <2> QED
    BY <2>4, <2>5
<1>11. r \in [1 .. Len(p) -> Nat] /\ col \in [1 .. Len(p) -> 1 .. Len(lists)]
  <2>1. r \in [1 .. Len(p) -> 1 .. N]
    BY <1>7, Zenon DEF Laid
  <2>2. r \in [1 .. Len(p) -> Nat]
    BY <2>1, <1>2
  <2> QED
    BY <2>2, <1>8
<1>12. \A n \in 1 .. Len(p) : r[n] \in 1 .. Len(lists[col[n]])
  <2>1. ASSUME NEW n \in 1 .. Len(p)
        PROVE  r[n] \in 1 .. Len(lists[col[n]])
    <3> HIDE DEF col
    <3>1. r[n] \in 1 .. N /\ r[n] <= Len(lists[col[n]]) /\ Len(lists[col[n]]) \in Nat
      BY <1>1, <1>8
    <3> QED
      BY <3>1, <1>2
  <2> QED
    BY <2>1
<1> HIDE DEF col
<1>13. Dealt(lists, p, r, col)
  BY <1>8, <1>9, <1>10, <1>11, <1>12, Zenon DEF Dealt
<1> QED
  BY <1>6, <1>13, Zenon DEF p

\* The i-th outbound of the k-th subscription of a list, in the pool.
InPool(l, k, i) ==
    [tag |-> <<k - 1, i - 1>>, addresses |-> l[k].outbounds[i],
     sub_id |-> l[k].id, group_id |-> l[k].group_id]

\* The pool of a list that is sorted by health.
Merged(l, p, row, col) ==
    /\ \A k, m \in DOMAIN l : k < m => ~Below(HealthScore(l[k]), HealthScore(l[m]))
    /\ row \in [1 .. Len(p) -> Nat] /\ col \in [1 .. Len(p) -> Nat]
    /\ \A n \in 1 .. Len(p) :
          /\ col[n] \in DOMAIN l /\ row[n] \in DOMAIN l[col[n]].outbounds
          /\ p[n] = InPool(l, col[n], row[n])
    /\ \A m, n \in 1 .. Len(p) : m < n =>
          row[m] < row[n] \/ (row[m] = row[n] /\ col[m] < col[n])
    /\ \A k \in DOMAIN l : \A i \in DOMAIN l[k].outbounds :
          \E n \in 1 .. Len(p) : row[n] = i /\ col[n] = k

\* A list of the merge.
LEMMA TaggedIs ==
    ASSUME NEW l \in Seq(Subscription), NEW k \in DOMAIN l
    PROVE  /\ Tagged(l[k], k) \in Seq(Outbound)
           /\ DOMAIN Tagged(l[k], k) = DOMAIN l[k].outbounds
           /\ 1 .. Len(Tagged(l[k], k)) = DOMAIN l[k].outbounds
           /\ \A i \in DOMAIN l[k].outbounds : Tagged(l[k], k)[i] = InPool(l, k, i)
<1> DEFINE obs == l[k].outbounds
           t == Tagged(l[k], k)
<1>1. /\ l[k] \in Subscription /\ k \in Nat \ {0}
  OBVIOUS
<1>2. /\ obs \in Seq(SUBSET Address) /\ l[k].id \in Nat /\ l[k].group_id \in Group \cup {NoGroup}
  BY <1>1 DEF Subscription
<1>3. /\ DOMAIN obs = 1 .. Len(obs) /\ Len(obs) \in Nat
      /\ \A i \in 1 .. Len(obs) : obs[i] \in SUBSET Address
  BY <1>2
<1>4. t = [i \in DOMAIN obs |-> InPool(l, k, i)]
  BY DEF Tagged, InPool
<1>5. ASSUME NEW i \in 1 .. Len(obs)
      PROVE  InPool(l, k, i) \in Outbound
  <2>1. k - 1 \in Nat /\ i - 1 \in Nat /\ obs[i] \in SUBSET Address
    BY <1>1, <1>3
  <2> QED
    BY <2>1, <1>2 DEF InPool, Outbound
<1> HIDE DEF obs, t
<1>6. t \in [1 .. Len(obs) -> Outbound]
  BY <1>3, <1>4, <1>5
<1>7. t \in Seq(Outbound) /\ Len(t) = Len(obs)
  BY <1>3, <1>6
<1> QED
  BY <1>3, <1>4, <1>7 DEF obs, t

\* _build_pool as a whole.
LEMMA PoolIs ==
    ASSUME NEW subs, Rows(subs)
    PROVE  /\ BuildPool(subs) \in Seq(Outbound)
           /\ \E l, row, col : Listed(l, subs) /\ Merged(l, BuildPool(subs), row, col)
<1> DEFINE l == Sorted(Scored(subs))
           lists == [k \in DOMAIN l |-> Tagged(l[k], k)]
           p == BuildPool(subs)
<1>1. /\ Listed(l, subs)
      /\ \A k, m \in DOMAIN l : k < m => ~Below(HealthScore(l[k]), HealthScore(l[m]))
  BY ScoredIs, SortedIs
<1>2. p = IF l = <<>> THEN <<>> ELSE RoundRobin(lists)
  BY Zenon DEF BuildPool
<1> HIDE DEF l, p
<1>3. l \in Seq(Subscription)
  BY <1>1 DEF Listed
<1>4. CASE l = <<>>
  <2> DEFINE f == [n \in 1 .. 0 |-> 0]
  <2>1. p = <<>> /\ p \in Seq(Outbound) /\ Len(p) = 0
    BY <1>2, <1>4
  <2>2. f \in [1 .. 0 -> Nat] /\ 1 .. 0 = {} /\ DOMAIN l = {}
    BY <1>4
  <2> HIDE DEF f
  <2>3. Merged(l, p, f, f)
    BY <2>1, <2>2, Zenon DEF Merged
  <2> QED
    BY <2>1, <2>3, <1>1, Zenon DEF p
<1>5. CASE l # <<>>
  <2>1. Len(l) # 0 /\ Len(l) \in Nat /\ DOMAIN l = 1 .. Len(l)
    BY <1>3, <1>5
  <2>2. \A k \in DOMAIN l :
          /\ lists[k] \in Seq(Outbound) /\ 1 .. Len(lists[k]) = DOMAIN l[k].outbounds
          /\ \A i \in DOMAIN l[k].outbounds : lists[k][i] = InPool(l, k, i)
    BY <1>3, TaggedIs
  <2>3. lists \in Seq(Seq(Outbound)) /\ Len(lists) = Len(l)
    <3>1. lists \in [1 .. Len(l) -> Seq(Outbound)]
      BY <2>1, <2>2
    <3> QED
      BY <3>1, <2>1
  <2>4. p = RoundRobin(lists)
    BY <1>2, <1>5
  <2> HIDE DEF lists
  <2>5. p \in Seq(Outbound) /\ \E row, col : Dealt(lists, p, row, col)
    BY <2>1, <2>3, <2>4, RoundRobinIs
  <2>6. PICK row, col : Dealt(lists, p, row, col)
    BY <2>5
  <2>7. row \in [1 .. Len(p) -> Nat] /\ col \in [1 .. Len(p) -> Nat]
    <3>1. row \in [1 .. Len(p) -> Nat] /\ col \in [1 .. Len(p) -> 1 .. Len(l)]
      BY <2>6, <2>3 DEF Dealt
    <3> QED
      BY <3>1, <2>1
  <2>8. ASSUME NEW n \in 1 .. Len(p)
        PROVE  /\ col[n] \in DOMAIN l /\ row[n] \in DOMAIN l[col[n]].outbounds
               /\ p[n] = InPool(l, col[n], row[n])
    <3>1. /\ col[n] \in 1 .. Len(lists)
          /\ row[n] \in 1 .. Len(lists[col[n]]) /\ p[n] = lists[col[n]][row[n]]
      BY <2>6 DEF Dealt
    <3>2. col[n] \in DOMAIN l
      BY <3>1, <2>1, <2>3
    <3>3. row[n] \in DOMAIN l[col[n]].outbounds
      BY <3>1, <3>2, <2>2
    <3> QED
      BY <3>1, <3>2, <3>3, <2>2, Zenon
  <2>9. \A k \in DOMAIN l : \A i \in DOMAIN l[k].outbounds :
            \E n \in 1 .. Len(p) : row[n] = i /\ col[n] = k
    <3>1. DOMAIN l = 1 .. Len(lists)
      BY <2>1, <2>3
    <3>2. ASSUME NEW k \in DOMAIN l, NEW i \in DOMAIN l[k].outbounds
          PROVE  \E n \in 1 .. Len(p) : row[n] = i /\ col[n] = k
      <4>1. k \in 1 .. Len(lists) /\ i \in 1 .. Len(lists[k])
        <5>1. 1 .. Len(lists[k]) = DOMAIN l[k].outbounds
          BY <2>2
        <5> QED
          BY <3>1, <3>2, <5>1
      <4> QED
        BY <4>1, <2>6, Zenon DEF Dealt
    <3> QED
      BY <3>2
  <2>10. \A m, n \in 1 .. Len(p) : m < n =>
            row[m] < row[n] \/ (row[m] = row[n] /\ col[m] < col[n])
    BY <2>6, Zenon DEF Dealt
  <2>11. Merged(l, p, row, col)
    BY <1>1, <2>7, <2>8, <2>9, <2>10, Zenon DEF Merged
  <2> QED
    BY <2>5, <2>11, <1>1, Zenon DEF p
<1> QED
  BY <1>4, <1>5

-----------------------------------------------------------------------------
\* The rules.

\* apply_address_filters keeps what Kept lets through.
LEMMA FilteredIs ==
    ASSUME NEW p \in Seq(Outbound), NEW rules, NEW dns
    PROVE  /\ Filtered(p, rules, dns) \in Seq(Outbound)
           /\ ToSet(Filtered(p, rules, dns)) = {ob \in ToSet(p) : Kept(ob, rules, dns)}
           /\ \E at : Selected(p, {i \in DOMAIN p : Kept(p[i], rules, dns)},
                               Filtered(p, rules, dns), at)
<1> DEFINE I == {i \in DOMAIN p : Kept(p[i], rules, dns)}
           s == Where(p, I)
<1>1. Filtered(p, rules, dns) = s
  BY Zenon DEF Filtered
<1>2. s \in Seq(Outbound) /\ \E at : Selected(p, I, s, at)
  BY WhereKeeps
<1>3. ToSet(s) = {p[i] : i \in DOMAIN p \cap I}
  BY WhereRange
<1> HIDE DEF s
<1>4. ToSet(s) = {ob \in ToSet(p) : Kept(ob, rules, dns)}
  BY <1>3, Zenon DEF ToSet
<1> QED
  BY <1>1, <1>2, <1>4, Zenon

-----------------------------------------------------------------------------
\* The selection.

\* A key is the id of a group or of a subscription, never both.
LEMMA KeyTyped ==
    ASSUME NEW ob \in Outbound
    PROVE  GroupKey(ob) \in Group \cup Nat
BY DEF GroupKey, Outbound

\* The dict of groups has every key once.
LEMMA GroupKeysAre ==
    ASSUME NEW p \in Seq(Outbound)
    PROVE  /\ GroupKeys(p) \in Seq(Group \cup Nat)
           /\ \A k, m \in DOMAIN GroupKeys(p) : GroupKeys(p)[k] = GroupKeys(p)[m] => k = m
           /\ ToSet(GroupKeys(p)) = {GroupKey(p[i]) : i \in DOMAIN p}
<1> DEFINE keys == [i \in DOMAIN p |-> GroupKey(p[i])]
           I == {i \in DOMAIN p : \A j \in 1 .. i - 1 : keys[j] # keys[i]}
           s == Where(keys, I)
<1>1. /\ DOMAIN p = 1 .. Len(p) /\ Len(p) \in Nat /\ \A i \in 1 .. Len(p) : p[i] \in Outbound
  OBVIOUS
<1>2. keys \in Seq(Group \cup Nat) /\ Len(keys) = Len(p) /\ DOMAIN keys = DOMAIN p
  <2>1. \A i \in 1 .. Len(p) : GroupKey(p[i]) \in Group \cup Nat
    BY <1>1, KeyTyped
  <2>2. keys \in [1 .. Len(p) -> Group \cup Nat]
    BY <1>1, <2>1
  <2> QED
    BY <1>1, <2>2
<1>3. GroupKeys(p) = s
  BY Zenon DEF GroupKeys
<1>4. \A i \in DOMAIN p : keys[i] = GroupKey(p[i])
  OBVIOUS
<1> HIDE DEF keys
<1>5. s \in Seq(Group \cup Nat) /\ \E at : Selected(keys, I, s, at)
  BY <1>2, WhereKeeps
<1>6. ToSet(s) = {keys[i] : i \in DOMAIN keys \cap I}
  BY <1>2, WhereRange
<1> HIDE DEF s
<1>7. PICK at : Selected(keys, I, s, at)
  BY <1>5
<1>8. DOMAIN s = 1 .. Len(s) /\ Len(s) \in Nat
  BY <1>5
<1>9. \A n \in 1 .. Len(s) : at[n] \in I /\ at[n] \in 1 .. Len(p) /\ s[n] = keys[at[n]]
  BY <1>2, <1>7 DEF Selected
<1>10. ASSUME NEW k \in DOMAIN s, NEW m \in DOMAIN s, s[k] = s[m], k < m
       PROVE  FALSE
  <2>1. at[k] < at[m]
    BY <1>7, <1>8, <1>10, Zenon DEF Selected
  <2>2. at[k] \in 1 .. at[m] - 1
    BY <2>1, <1>1, <1>8, <1>9
  <2>3. keys[at[k]] # keys[at[m]]
    BY <2>2, <1>8, <1>9
  <2> QED
    BY <2>3, <1>8, <1>9, <1>10
<1>11. \A k, m \in DOMAIN s : s[k] = s[m] => k = m
  <2>1. \A k, m \in DOMAIN s : k # m => k < m \/ m < k
    BY <1>8
  <2> QED
    BY <2>1, <1>10, Zenon
<1>12. ASSUME NEW i \in DOMAIN p
       PROVE  keys[i] \in ToSet(s)
  <2> DEFINE T == {j \in DOMAIN p : keys[j] = keys[i]}
  <2>1. T \subseteq Nat /\ T # {}
    BY <1>1
  <2>2. PICK j \in T : \A m \in T : j <= m
    BY <2>1, Least
  <2>3. \A m \in 1 .. j - 1 : keys[m] # keys[j]
    BY <2>2, <1>1
  <2>4. j \in I /\ j \in DOMAIN keys /\ keys[j] = keys[i]
    BY <2>2, <2>3, <1>2
  <2> QED
    BY <2>4, <1>6, Zenon
<1>13. ToSet(s) = {GroupKey(p[i]) : i \in DOMAIN p}
  BY <1>2, <1>4, <1>6, <1>12, Zenon
<1> QED
  BY <1>3, <1>5, <1>11, <1>13

\* What is selected, as places in the pool: those of the chosen subscriptions,
\* each once.
Placed(p, t, s, at) ==
    /\ at \in [1 .. Len(s) -> 1 .. Len(p)]
    /\ \A n \in 1 .. Len(s) :
          s[n] = p[at[n]] /\ p[at[n]].sub_id = Chosen(p, GroupKey(p[at[n]]), t)
    /\ \A m, n \in 1 .. Len(s) : at[m] = at[n] => m = n
    /\ \A i \in 1 .. Len(p) : p[i].sub_id = Chosen(p, GroupKey(p[i]), t)
          => \E n \in 1 .. Len(s) : at[n] = i

\* The outbounds of the chosen subscriptions, each once.
LEMMA OfChosenIs ==
    ASSUME NEW p \in Seq(Outbound), NEW t
    PROVE  /\ OfChosen(p, t) \in Seq(Outbound)
           /\ \E at : Placed(p, t, OfChosen(p, t), at)
<1> DEFINE keys == GroupKeys(p)
           I(key) == {i \in OfKey(p, key) : p[i].sub_id = Chosen(p, key, t)}
           of(key) == Where(p, I(key))
           ss == [k \in DOMAIN keys |-> of(keys[k])]
           at == [k \in DOMAIN keys |-> CHOOSE f : Selected(p, I(keys[k]), ss[k], f)]
           s == OfChosen(p, t)
<1>1. s = FlattenSeq(ss)
  BY Zenon DEF OfChosen
<1>2. /\ keys \in Seq(Group \cup Nat)
      /\ \A k, m \in DOMAIN keys : keys[k] = keys[m] => k = m
      /\ ToSet(keys) = {GroupKey(p[i]) : i \in DOMAIN p}
  BY GroupKeysAre
<1>3. \A key : of(key) \in Seq(Outbound) /\ \E f : Selected(p, I(key), of(key), f)
  BY WhereKeeps
<1>4. /\ DOMAIN p = 1 .. Len(p) /\ Len(p) \in Nat
      /\ \A i \in 1 .. Len(p) : \A key :
            i \in I(key) <=> GroupKey(p[i]) = key /\ p[i].sub_id = Chosen(p, key, t)
  BY DEF OfKey
<1> HIDE DEF keys, I, of, s
<1>5. \A k \in DOMAIN keys : ss[k] \in Seq(Outbound) /\ Selected(p, I(keys[k]), ss[k], at[k])
  BY <1>3, Zenon
<1>6. DOMAIN keys = 1 .. Len(keys) /\ Len(keys) \in Nat
  BY <1>2
<1>7. ss \in Seq(Seq(Outbound)) /\ Len(ss) = Len(keys)
  <2>1. ss \in [1 .. Len(keys) -> Seq(Outbound)]
    BY <1>5, <1>6
  <2> QED
    BY <2>1, <1>6
<1> HIDE DEF ss, at
<1>8. s \in Seq(Outbound) /\ \E r, c : Laid(ss, Len(ss), s, r, c)
  BY <1>1, <1>7, FlattenLaid
<1>9. PICK r, c : Laid(ss, Len(keys), s, r, c)
  BY <1>7, <1>8, Zenon
<1>10. Len(s) \in Nat
  BY <1>8
<1> DEFINE place == [n \in 1 .. Len(s) |-> at[r[n]][c[n]]]
<1>11. \A n \in 1 .. Len(s) :
          /\ r[n] \in DOMAIN keys /\ c[n] \in 1 .. Len(ss[r[n]]) /\ s[n] = ss[r[n]][c[n]]
          /\ Selected(p, I(keys[r[n]]), ss[r[n]], at[r[n]])
  BY <1>5, <1>6, <1>9 DEF Laid
<1>12. ASSUME NEW n \in 1 .. Len(s)
       PROVE  /\ place[n] \in 1 .. Len(p) /\ place[n] \in I(keys[r[n]]) /\ s[n] = p[place[n]]
              /\ GroupKey(p[place[n]]) = keys[r[n]]
              /\ p[place[n]].sub_id = Chosen(p, GroupKey(p[place[n]]), t)
  <2>1. place[n] = at[r[n]][c[n]]
    OBVIOUS
  <2> HIDE DEF place
  <2>2. /\ at[r[n]][c[n]] \in I(keys[r[n]])
        /\ ss[r[n]][c[n]] = p[at[r[n]][c[n]]]
        /\ at[r[n]] \in [1 .. Len(ss[r[n]]) -> 1 .. Len(p)]
    BY <1>11, Zenon DEF Selected
  <2>3. at[r[n]][c[n]] \in 1 .. Len(p)
    BY <2>2, <1>11
  <2>4. place[n] \in 1 .. Len(p) /\ place[n] \in I(keys[r[n]]) /\ s[n] = p[place[n]]
    BY <2>1, <2>2, <2>3, <1>11, Zenon
  <2> QED
    BY <2>4, <1>4, Zenon
<1>a. place \in [1 .. Len(s) -> 1 .. Len(p)]
  BY <1>12
<1>b. \A n \in 1 .. Len(s) : place[n] = at[r[n]][c[n]]
  OBVIOUS
<1> HIDE DEF place
<1>13. ASSUME NEW m \in 1 .. Len(s), NEW n \in 1 .. Len(s), place[m] = place[n]
       PROVE  m = n
  <2>1. keys[r[m]] = keys[r[n]]
    <3>1. GroupKey(p[place[m]]) = keys[r[m]] /\ GroupKey(p[place[n]]) = keys[r[n]]
      BY <1>12
    <3> QED
      BY <3>1, <1>13
  <2>2. r[m] = r[n]
    BY <2>1, <1>2, <1>11, Zenon
  <2>3. at[r[n]][c[m]] = at[r[n]][c[n]]
    BY <1>13, <1>b, <2>2
  <2>4. ~ (c[m] < c[n]) /\ ~ (c[n] < c[m])
    <3>1. \A i, j \in 1 .. Len(ss[r[n]]) : i < j => at[r[n]][i] < at[r[n]][j]
      BY <1>11, Zenon DEF Selected
    <3>2. c[m] \in 1 .. Len(ss[r[n]]) /\ c[n] \in 1 .. Len(ss[r[n]])
      BY <1>11, <2>2, Zenon
    <3>3. at[r[n]][c[n]] \in Int
      <4>1. place[n] \in 1 .. Len(p) /\ place[n] = at[r[n]][c[n]]
        BY <1>12, <1>b
      <4> QED
        BY <4>1, <1>4
    <3> QED
      BY <3>1, <3>2, <3>3, <2>3
  <2>5. ~ (m < n) /\ ~ (n < m)
    <3>1. \A i, j \in 1 .. Len(s) : i < j => r[i] < r[j] \/ (r[i] = r[j] /\ c[i] < c[j])
      BY <1>9, Zenon DEF Laid
    <3>2. r[n] \in Int
      BY <1>6, <1>11
    <3> QED
      BY <3>1, <3>2, <2>2, <2>4
  <2> QED
    BY <2>5, <1>10
<1>14. ASSUME NEW i \in 1 .. Len(p), p[i].sub_id = Chosen(p, GroupKey(p[i]), t)
       PROVE  \E n \in 1 .. Len(s) : place[n] = i
  <2>1. PICK k \in DOMAIN keys : keys[k] = GroupKey(p[i])
    <3>1. GroupKey(p[i]) \in ToSet(keys)
      BY <1>2, <1>4, <1>14
    <3> QED
      BY <3>1, Zenon DEF ToSet
  <2>2. i \in I(keys[k])
    BY <2>1, <1>4, <1>14, Zenon
  <2>3. PICK j \in 1 .. Len(ss[k]) : at[k][j] = i
    BY <2>2, <1>5, Zenon DEF Selected
  <2>4. PICK n \in 1 .. Len(s) : r[n] = k /\ c[n] = j
    <3>1. k \in 1 .. Len(keys)
      BY <2>1, <1>6
    <3> QED
      BY <3>1, <2>3, <1>9, Zenon DEF Laid
  <2>5. place[n] = i
    BY <2>3, <2>4, <1>b
  <2> QED
    BY <2>5
<1>15. Placed(p, t, s, place)
  BY <1>12, <1>13, <1>14, <1>a, Zenon DEF Placed
<1> QED
  BY <1>8, <1>15, Zenon DEF s

\* The slice has no place twice, wrapped around or not.
LEMMA SliceIs ==
    ASSUME NEW S, NEW selected \in Seq(S), NEW offset \in Nat
    PROVE  LET n == Len(selected)
               s == Slice(selected, offset)
           IN  /\ s \in Seq(S) /\ Len(s) = IF PerUser <= n THEN PerUser ELSE n
               /\ \A i \in 1 .. Len(s) :
                     /\ ((offset + i - 1) % n) + 1 \in 1 .. n
                     /\ s[i] = selected[((offset + i - 1) % n) + 1]
               /\ \A i, j \in 1 .. Len(s) : i # j =>
                     ((offset + i - 1) % n) + 1 # ((offset + j - 1) % n) + 1
<1> DEFINE n == Len(selected)
           m == IF PerUser <= n THEN PerUser ELSE n
           f == [i \in 1 .. m |-> ((offset + i - 1) % n) + 1]
           s == Slice(selected, offset)
<1>1. n \in Nat /\ PerUser \in Nat \ {0} /\ m \in Nat /\ m <= n
  BY ConstantsAssumption
<1>2. Min({PerUser, n}) = m
  BY <1>1, MinOfTwo
<1>3. s = [i \in 1 .. m |-> selected[f[i]]]
  BY <1>2 DEF Slice
<1>4. ASSUME NEW i \in 1 .. m
      PROVE  f[i] \in 1 .. n /\ selected[f[i]] \in S
  <2>1. n > 0 /\ offset + i - 1 \in Nat
    BY <1>1, <1>4
  <2>2. (offset + i - 1) % n \in 0 .. n - 1
    BY <2>1, <1>1, ModDiv
  <2>3. f[i] \in 1 .. n
    BY <2>2, <1>1
  <2> QED
    BY <2>3
<1>5. ASSUME NEW i \in 1 .. m, NEW j \in 1 .. m, i < j
      PROVE  f[i] # f[j]
  <2>1. /\ n > 0 /\ offset + i - 1 \in Nat /\ offset + j - 1 \in Nat
        /\ offset + i - 1 < offset + j - 1 /\ offset + j - 1 < offset + i - 1 + n
    BY <1>1, <1>5
  <2>2. (offset + i - 1) % n # (offset + j - 1) % n
    BY <2>1, <1>1, ModApart
  <2>3. (offset + i - 1) % n \in Int /\ (offset + j - 1) % n \in Int
    BY <2>1, <1>1, ModDiv
  <2> QED
    BY <2>2, <2>3
<1>6. s \in Seq(S) /\ Len(s) = m
  <2> HIDE DEF f, s, m
  <2>1. s \in [1 .. m -> S]
    BY <1>3, <1>4
  <2> QED
    BY <2>1, <1>1
<1>7. \A i, j \in 1 .. m : i # j => f[i] # f[j]
  <2> HIDE DEF f
  <2>1. \A i, j \in 1 .. m : i # j => i < j \/ j < i
    BY <1>1
  <2> QED
    BY <2>1, <1>5, Zenon
<1>8. \A i \in 1 .. m : f[i] = ((offset + i - 1) % n) + 1
  OBVIOUS
<1> HIDE DEF f, s, m
<1>9. \A i \in 1 .. m : s[i] = selected[f[i]]
  BY <1>3
<1>10. \A i \in 1 .. Len(s) :
          /\ ((offset + i - 1) % n) + 1 \in 1 .. n
          /\ s[i] = selected[((offset + i - 1) % n) + 1]
  BY <1>4, <1>6, <1>8, <1>9, Zenon
<1>11. \A i, j \in 1 .. Len(s) : i # j =>
          ((offset + i - 1) % n) + 1 # ((offset + j - 1) % n) + 1
  BY <1>6, <1>7, <1>8, Zenon
<1> QED
  BY <1>6, <1>10, <1>11, Zenon DEF s, m

\* Sorted ids, counted from 0, are ids.
LEMMA NthIdIs ==
    ASSUME NEW ids \in SUBSET Nat, IsFiniteSet(ids), NEW n \in 0 .. Cardinality(ids) - 1
    PROVE  NthId(ids, n) \in ids
<1> DEFINE R == {e \in ids \X ids : e[1] < e[2]}
<1>1. \A x, y \in ids : <<x, y>> \in R <=> x < y
  OBVIOUS
<1> HIDE DEF R
<1>2. StrictOrder(ids, R)
  BY <1>1 DEF StrictOrder
<1>3. PICK x \in ids : Cardinality(Predecessors(ids, R, x)) = n
  BY <1>2, Ranking
<1>4. Predecessors(ids, R, x) = {y \in ids : y < x}
  BY <1>1, Zenon DEF Predecessors
<1>5. \E z \in ids : Cardinality({y \in ids : y < z}) = n
  BY <1>3, <1>4
<1> QED
  BY <1>5, Zenon DEF NthId

\* sorted() is given finitely many ids.
LEMMA IdsAreFinite ==
    ASSUME NEW p \in Seq(Outbound), NEW key
    PROVE  IsFiniteSet(SubIds(p, key)) /\ SubIds(p, key) \in SUBSET Nat
<1> DEFINE D == OfKey(p, key)
           ids == SubIds(p, key)
           f == [j \in D |-> p[j].sub_id]
<1>1. /\ DOMAIN p = 1 .. Len(p) /\ Len(p) \in Nat /\ \A j \in DOMAIN p : p[j] \in Outbound
  OBVIOUS
<1>2. D \in SUBSET DOMAIN p
  BY DEF OfKey
<1>3. IsFiniteSet(D)
  <2>1. IsFiniteSet(DOMAIN p)
    BY <1>1, FS_Interval
  <2> QED
    BY <2>1, <1>2, FS_Subset
<1>4. ids = {p[j].sub_id : j \in D}
  BY Zenon DEF SubIds
<1>5. ids \in SUBSET Nat
  <2>1. \A j \in DOMAIN p : p[j].sub_id \in Nat
    BY <1>1 DEF Outbound
  <2> HIDE DEF ids, D
  <2> QED
    BY <2>1, <1>2, <1>4
<1> HIDE DEF D, ids
<1>6. f \in Surjection(D, ids)
  BY <1>4 DEF Surjection
<1>7. IsFiniteSet(ids)
  BY <1>3, <1>6, FS_Surjection
<1> QED
  BY <1>5, <1>7 DEF ids

\* The id that the digest chooses is one of the group.
LEMMA ChosenIs ==
    ASSUME NEW p \in Seq(Outbound), NEW i \in DOMAIN p,
           NEW t, t.digest \in [Group -> Digests]
    PROVE  Chosen(p, GroupKey(p[i]), t) \in SubIds(p, GroupKey(p[i]))
<1> DEFINE key == GroupKey(p[i])
           ids == SubIds(p, key)
<1>1. p[i].sub_id \in ids
  BY DEF SubIds, OfKey
<1> HIDE DEF ids
<1>2. IsFiniteSet(ids) /\ ids \in SUBSET Nat
  BY IdsAreFinite DEF ids
<1>3. Cardinality(ids) \in Nat /\ Cardinality(ids) # 0
  BY <1>1, <1>2, FS_CardinalityType, FS_EmptySet
<1>4. Digest(t, key) \in Nat
  <2>1. t.digest \in [Group -> Digests] /\ Digests \subseteq Nat
    BY ConstantsAssumption
  <2> HIDE DEF key
  <2> QED
    BY <2>1 DEF Digest
<1>5. Digest(t, key) % Cardinality(ids) \in 0 .. Cardinality(ids) - 1
  BY <1>3, <1>4, ModDiv
<1>6. NthId(ids, Digest(t, key) % Cardinality(ids)) \in ids
  BY <1>1, <1>2, <1>5, NthIdIs
<1> QED
  BY <1>6, Zenon DEF Chosen, ids

-----------------------------------------------------------------------------
\* The request.

\* What each stage leaves is a function of the input and the token.
IInv ==
    /\ input \in Inputs
    /\ stage \in {"read", "built", "filtered", "selected"}
    /\ age \in 0 .. CacheHours
    /\ stage = "read" => pool = <<>>
    /\ stage = "built" => pool = BuildPool(input.subs)
    /\ stage \in {"filtered", "selected"} =>
          pool = Filtered(BuildPool(input.subs), input.rules, input.dns)
    /\ stage = "selected" => token \in Token /\ outbounds = SelectOutbounds(pool, token)
    /\ stage # "selected" => token = Null /\ outbounds = <<>>

\* Every step keeps IInv.
LEMMA Invariance == Spec => []IInv
<1>1. Init => IInv
  BY ConstantsAssumption DEF Init, IInv
<1>2. IInv /\ [Next]_vars => IInv'
  <2> SUFFICES ASSUME IInv, [Next]_vars PROVE IInv'
    OBVIOUS
  <2>1. CASE Build
    BY <2>1 DEF IInv, Build
  <2>2. CASE ApplyAddressFilters
    BY <2>2 DEF IInv, ApplyAddressFilters
  <2>3. CASE Keep
    BY <2>3, ConstantsAssumption DEF IInv, Keep
  <2>4. CASE SelectUserOutbounds
    BY <2>4 DEF IInv, SelectUserOutbounds
  <2>5. CASE UNCHANGED vars
    BY <2>5 DEF IInv, vars
  <2> QED
    BY <2>1, <2>2, <2>3, <2>4, <2>5 DEF Next
<1> QED
  BY <1>1, <1>2, PTL DEF Spec
\* An outbound of a pool is one of a healthy subscription, and no two have the
\* same tag.
OfHealthy(p, subs) ==
    /\ p \in Seq(Outbound)
    /\ \A ob \in ToSet(p) : \E sub \in ToSet(subs) : Healthy(sub) /\ sub.id = ob.sub_id
    /\ \A i, j \in 1 .. Len(p) : p[i].tag = p[j].tag => i = j

\* That is what _build_pool returns.
LEMMA BuiltIsOfHealthy ==
    ASSUME NEW subs, Rows(subs)
    PROVE  OfHealthy(BuildPool(subs), subs)
<1> DEFINE p == BuildPool(subs)
<1>1. p \in Seq(Outbound) /\ \E l, row, col : Listed(l, subs) /\ Merged(l, p, row, col)
  BY PoolIs
<1> HIDE DEF p
<1>2. PICK l, row, col : Listed(l, subs) /\ Merged(l, p, row, col)
  BY <1>1, Zenon
<1>3. DOMAIN p = 1 .. Len(p) /\ Len(p) \in Nat
  BY <1>1
<1>4. l \in Seq(Subscription) /\ DOMAIN l = 1 .. Len(l) /\ Len(l) \in Nat
  BY <1>2 DEF Listed
<1>5. \A n \in 1 .. Len(p) :
        /\ col[n] \in DOMAIN l /\ row[n] \in DOMAIN l[col[n]].outbounds
        /\ p[n] = InPool(l, col[n], row[n])
  BY <1>2, Zenon DEF Merged
<1>6. ASSUME NEW n \in 1 .. Len(p)
      PROVE  /\ p[n].tag = <<col[n] - 1, row[n] - 1>> /\ p[n].sub_id = l[col[n]].id
             /\ col[n] \in Int /\ row[n] \in Int
  <2>1. col[n] \in Int
    BY <1>4, <1>5
  <2>2. row[n] \in Int
    <3>1. l[col[n]].outbounds \in Seq(SUBSET Address)
      <4>1. l[col[n]] \in Subscription
        BY <1>4, <1>5
      <4> QED
        BY <4>1 DEF Subscription
    <3>2. row[n] \in DOMAIN l[col[n]].outbounds
      BY <1>5
    <3> HIDE DEF p
    <3> QED
      BY <3>1, <3>2
  <2>3. p[n].tag = <<col[n] - 1, row[n] - 1>> /\ p[n].sub_id = l[col[n]].id
    <3>1. p[n] = InPool(l, col[n], row[n])
      BY <1>5
    <3> QED
      BY <3>1 DEF InPool
  <2> QED
    BY <2>1, <2>2, <2>3
<1>7. ASSUME NEW ob \in ToSet(p)
      PROVE  \E sub \in ToSet(subs) : Healthy(sub) /\ sub.id = ob.sub_id
  <2>1. PICK n \in 1 .. Len(p) : ob = p[n]
    BY <1>3, <1>7 DEF ToSet
  <2>2. l[col[n]] \in ToSet(l) /\ ob.sub_id = l[col[n]].id
    BY <2>1, <1>5, <1>6, Zenon DEF ToSet
  <2> QED
    BY <2>2, <1>2, Zenon DEF Listed
<1>8. ASSUME NEW i \in 1 .. Len(p), NEW j \in 1 .. Len(p), p[i].tag = p[j].tag
      PROVE  i = j
  <2>1. col[i] = col[j] /\ row[i] = row[j]
    BY <1>6, <1>8
  <2>2. ~ (i < j) /\ ~ (j < i)
    <3>1. \A m, n \in 1 .. Len(p) : m < n => row[m] < row[n] \/ (row[m] = row[n] /\ col[m] < col[n])
      BY <1>2, Zenon DEF Merged
    <3> QED
      BY <3>1, <2>1, <1>6
  <2> QED
    BY <2>2, <1>3
<1> QED
  BY <1>1, <1>7, <1>8, Zenon DEF OfHealthy, p

\* The rules take nothing but outbounds away.
LEMMA FilteredIsOfHealthy ==
    ASSUME NEW p, NEW subs, OfHealthy(p, subs), NEW rules, NEW dns
    PROVE  OfHealthy(Filtered(p, rules, dns), subs)
<1> DEFINE f == Filtered(p, rules, dns)
           I == {i \in DOMAIN p : Kept(p[i], rules, dns)}
<1>1. p \in Seq(Outbound)
  BY DEF OfHealthy
<1>2. /\ f \in Seq(Outbound) /\ ToSet(f) \subseteq ToSet(p)
      /\ \E at : Selected(p, I, f, at)
  <2>1. /\ f \in Seq(Outbound) /\ ToSet(f) = {ob \in ToSet(p) : Kept(ob, rules, dns)}
        /\ \E at : Selected(p, I, f, at)
    BY <1>1, FilteredIs, Zenon
  <2> HIDE DEF f, I
  <2> QED
    BY <2>1, Zenon
<1> HIDE DEF f, I
<1>3. PICK at : Selected(p, I, f, at)
  BY <1>2
<1>4. ASSUME NEW i \in 1 .. Len(f), NEW j \in 1 .. Len(f), f[i].tag = f[j].tag
      PROVE  i = j
  <2>1. /\ at[i] \in 1 .. Len(p) /\ at[j] \in 1 .. Len(p) /\ f[i] = p[at[i]] /\ f[j] = p[at[j]]
        /\ i < j => at[i] < at[j]
        /\ j < i => at[j] < at[i]
    BY <1>3 DEF Selected
  <2>2. at[i] = at[j]
    BY <2>1, <1>4, Zenon DEF OfHealthy
  <2> QED
    BY <2>1, <2>2, <1>1, <1>2
<1> QED
  BY <1>2, <1>4, Zenon DEF OfHealthy, f

\* What a user is given are places of the pool, each once; all places of the
\* chosen subscriptions, if there are fewer than PerUser.
Served(p, t, o, at) ==
    /\ at \in [1 .. Len(o) -> 1 .. Len(p)]
    /\ \A n \in 1 .. Len(o) :
          o[n] = p[at[n]] /\ p[at[n]].sub_id = Chosen(p, GroupKey(p[at[n]]), t)
    /\ \A m, n \in 1 .. Len(o) : at[m] = at[n] => m = n
    /\ Len(o) < PerUser =>
          \A i \in 1 .. Len(p) : p[i].sub_id = Chosen(p, GroupKey(p[i]), t)
              => \E n \in 1 .. Len(o) : at[n] = i

\* That is what select_user_outbounds returns.
LEMMA ServedIs ==
    ASSUME NEW p \in Seq(Outbound), NEW t \in Token
    PROVE  /\ SelectOutbounds(p, t) \in Seq(Outbound)
           /\ Len(SelectOutbounds(p, t)) = Min({PerUser, Len(OfChosen(p, t))})
           /\ \E at : Served(p, t, SelectOutbounds(p, t), at)
<1> DEFINE s == OfChosen(p, t)
           N == Len(s)
           o == SelectOutbounds(p, t)
           f == [n \in 1 .. Len(o) |-> ((t.offset + n - 1) % N) + 1]
<1>1. s \in Seq(Outbound) /\ N \in Nat /\ \E a : Placed(p, t, s, a)
  BY OfChosenIs
<1>2. PICK a : Placed(p, t, s, a)
  BY <1>1
<1>3. t.offset \in Nat /\ PerUser \in Nat
  BY ConstantsAssumption DEF Token
<1>4. o = Slice(s, t.offset)
  BY DEF SelectOutbounds
<1>5. /\ o \in Seq(Outbound) /\ Len(o) = IF PerUser <= N THEN PerUser ELSE N
      /\ \A i \in 1 .. Len(o) :
            /\ ((t.offset + i - 1) % N) + 1 \in 1 .. N
            /\ o[i] = s[((t.offset + i - 1) % N) + 1]
      /\ \A i, j \in 1 .. Len(o) : i # j =>
            ((t.offset + i - 1) % N) + 1 # ((t.offset + j - 1) % N) + 1
  <2> HIDE DEF o, s
  <2> QED
    BY <1>1, <1>3, <1>4, SliceIs
<1>6. \A i \in 1 .. Len(o) : f[i] = ((t.offset + i - 1) % N) + 1
  OBVIOUS
<1> HIDE DEF f, o, s, N
<1>7. /\ \A i \in 1 .. Len(o) : f[i] \in 1 .. N /\ o[i] = s[f[i]]
      /\ \A i, j \in 1 .. Len(o) : i # j => f[i] # f[j]
  <2>1. ASSUME NEW i \in 1 .. Len(o)
        PROVE  f[i] \in 1 .. N /\ o[i] = s[f[i]]
    BY <1>5, <1>6
  <2>2. ASSUME NEW i \in 1 .. Len(o), NEW j \in 1 .. Len(o), i # j
        PROVE  f[i] # f[j]
    BY <2>2, <1>5, <1>6
  <2> QED
    BY <2>1, <2>2, Zenon
<1> DEFINE at == [n \in 1 .. Len(o) |-> a[f[n]]]
<1>8. \A n \in 1 .. Len(o) : at[n] = a[f[n]]
  OBVIOUS
<1>9. /\ a \in [1 .. N -> 1 .. Len(p)]
      /\ \A n \in 1 .. N : s[n] = p[a[n]] /\ p[a[n]].sub_id = Chosen(p, GroupKey(p[a[n]]), t)
      /\ \A m, n \in 1 .. N : a[m] = a[n] => m = n
      /\ \A i \in 1 .. Len(p) : p[i].sub_id = Chosen(p, GroupKey(p[i]), t)
            => \E n \in 1 .. N : a[n] = i
  BY <1>2, Zenon DEF Placed, N
<1>10. at \in [1 .. Len(o) -> 1 .. Len(p)]
  BY <1>7, <1>9
<1> HIDE DEF at
<1>11. \A n \in 1 .. Len(o) :
          o[n] = p[at[n]] /\ p[at[n]].sub_id = Chosen(p, GroupKey(p[at[n]]), t)
  <2> TAKE n \in 1 .. Len(o)
  <2>1. f[n] \in 1 .. N /\ o[n] = s[f[n]] /\ at[n] = a[f[n]]
    BY <1>7, <1>8
  <2>2. /\ s[f[n]] = p[a[f[n]]]
        /\ p[a[f[n]]].sub_id = Chosen(p, GroupKey(p[a[f[n]]]), t)
    BY <2>1, <1>9, Zenon
  <2> QED
    BY <2>1, <2>2, Zenon
<1>12. \A m, n \in 1 .. Len(o) : at[m] = at[n] => m = n
  <2> SUFFICES ASSUME NEW m \in 1 .. Len(o), NEW n \in 1 .. Len(o), at[m] = at[n]
               PROVE  m = n
    OBVIOUS
  <2>1. /\ f[m] \in 1 .. N /\ at[m] = a[f[m]] /\ f[n] \in 1 .. N /\ at[n] = a[f[n]]
        /\ m # n => f[m] # f[n]
    BY <1>7, <1>8
  <2>2. f[m] = f[n]
    <3>1. a[f[m]] = a[f[n]]
      BY <2>1, at[m] = at[n]
    <3> QED
      BY <2>1, <3>1, <1>9
  <2> QED
    BY <2>1, <2>2
<1>13. ASSUME Len(o) < PerUser,
              NEW i \in 1 .. Len(p), p[i].sub_id = Chosen(p, GroupKey(p[i]), t)
       PROVE  \E n \in 1 .. Len(o) : at[n] = i
  <2>1. N \in Nat
    BY <1>1 DEF N
  <2>2. Len(o) = N
    BY <2>1, <1>3, <1>5, <1>13
  <2>3. f \in Injection(1 .. N, 1 .. N)
    <3>1. f \in [1 .. N -> 1 .. N]
      <4>1. f = [n \in 1 .. N |-> ((t.offset + n - 1) % N) + 1]
        BY <2>2, Zenon DEF f
      <4>2. \A n \in 1 .. N : f[n] \in 1 .. N
        BY <2>2, <1>7, Zenon
      <4> QED
        BY <4>1, <4>2
    <3>2. \A i_1, i_2 \in 1 .. N : f[i_1] = f[i_2] => i_1 = i_2
      BY <2>2, <1>7, Zenon
    <3> QED
      BY <3>1, <3>2 DEF Injection, IsInjective
  <2>4. IsFiniteSet(1 .. N)
    BY <2>1, FS_Interval
  <2>5. f \in Surjection(1 .. N, 1 .. N)
    <3>1. Cardinality(1 .. N) = Cardinality(1 .. N)
      OBVIOUS
    <3> QED
      BY <2>3, <2>4, FS_Injection, Zenon
  <2>6. PICK k \in 1 .. N : a[k] = i
    BY <1>9, <1>13, Zenon
  <2>7. PICK n \in 1 .. N : f[n] = k
    BY <2>5, <2>6 DEF Surjection
  <2> QED
    BY <2>2, <2>6, <2>7, <1>8
<1>14. Len(o) = Min({PerUser, N})
  BY <1>1, <1>3, <1>5, MinOfTwo
<1>15. Served(p, t, o, at)
  BY <1>10, <1>11, <1>12, <1>13, Zenon DEF Served
<1> QED
  BY <1>5, <1>14, <1>15, Zenon DEF o, s, N

\* The pool of every stage.
LEMMA PoolOfHealthy ==
    ASSUME IInv
    PROVE  OfHealthy(pool, input.subs)
<1>1. OfHealthy(<< >>, input.subs)
  BY DEF OfHealthy, ToSet
<1>2. OfHealthy(BuildPool(input.subs), input.subs)
  BY BuiltIsOfHealthy, InputHasRows DEF IInv
<1>3. OfHealthy(Filtered(BuildPool(input.subs), input.rules, input.dns), input.subs)
  BY <1>2, FilteredIsOfHealthy
<1> QED
  BY <1>1, <1>2, <1>3, Zenon DEF IInv

\* The user is given outbounds of the pool.
LEMMA ServedFromPool ==
    ASSUME IInv
    PROVE  outbounds \in Seq(Outbound) /\ ToSet(outbounds) \subseteq ToSet(pool)
<1>1. pool \in Seq(Outbound)
  BY PoolOfHealthy DEF OfHealthy
<1>2. CASE stage = "selected"
  <2>1. token \in Token /\ outbounds = SelectOutbounds(pool, token)
    BY <1>2 DEF IInv
  <2>2. /\ outbounds \in Seq(Outbound)
        /\ \E at : Served(pool, token, outbounds, at)
    BY <2>1, <1>1, ServedIs
  <2>3. PICK at : /\ at \in [1 .. Len(outbounds) -> 1 .. Len(pool)]
                  /\ \A n \in 1 .. Len(outbounds) : outbounds[n] = pool[at[n]]
    BY <2>2, Zenon DEF Served
  <2>4. DOMAIN outbounds = 1 .. Len(outbounds) /\ DOMAIN pool = 1 .. Len(pool)
    BY <1>1, <2>2
  <2> QED
    BY <2>2, <2>3, <2>4 DEF ToSet
<1>3. CASE stage # "selected"
  <2>1. outbounds = << >>
    BY <1>3 DEF IInv
  <2> QED
    BY <2>1 DEF ToSet
<1> QED
  BY <1>2, <1>3

\* TypeOK: _build_pool, apply_address_filters and select_user_outbounds return
\* outbounds of their pool, with the tag and the group that the next stage needs.
THEOREM TypeCorrect == Spec => []TypeOK
<1>1. IInv => TypeOK
  <2> SUFFICES ASSUME IInv PROVE TypeOK
    OBVIOUS
  <2>1. pool \in Seq(Outbound)
    BY PoolOfHealthy DEF OfHealthy
  <2>2. ToSet(pool) \subseteq Outbound
    BY <2>1 DEF ToSet
  <2>3. ToSet(outbounds) \subseteq ToSet(pool)
    BY ServedFromPool
  <2>4. /\ stage \in {"read", "built", "filtered", "selected"}
        /\ age \in 0 .. CacheHours /\ token \in Token \cup {Null}
    BY DEF IInv
  <2> QED
    BY <2>2, <2>3, <2>4, Zenon DEF TypeOK, Outbound
<1> QED
  BY <1>1, Invariance, PTL

\* EndedIsNotServed: what the threshold of _health_score leaves of a month is
\* longer than the cache keeps a pool, for every threshold and every TTL of which
\* that is true.
THEOREM EndedIsNotServedHolds == Spec => []EndedIsNotServed
<1>1. IInv => EndedIsNotServed
  <2> SUFFICES ASSUME IInv, MinHealth[1] * 720 > CacheHours * MinHealth[2],
                      NEW ob \in ToSet(outbounds), NEW sub \in ToSet(input.subs),
                      sub.id = ob.sub_id
               PROVE  sub.expires_in = Null \/ sub.expires_in > age
    BY DEF EndedIsNotServed
  <2>1. /\ input.subs \in Seq(Subscription)
        /\ \A i, j \in DOMAIN input.subs : input.subs[i].id = input.subs[j].id => i = j
    BY ConstantsAssumption, Zenon DEF IInv
  <2>2. PICK s \in ToSet(input.subs) : Healthy(s) /\ s.id = ob.sub_id
    <3>1. ob \in ToSet(pool)
      BY ServedFromPool
    <3> QED
      BY <3>1, PoolOfHealthy, Zenon DEF OfHealthy
  <2>3. s = sub
    BY <2>1, <2>2, Zenon DEF ToSet
  <2>4. sub \in Subscription
    BY <2>1 DEF ToSet
  <2> DEFINE n == MinHealth[1]
             d == MinHealth[2]
             e == sub.expires_in
  <2>5. n \in Nat /\ d \in Nat \ {0} /\ CacheHours \in Nat /\ age \in 0 .. CacheHours
    BY ConstantsAssumption DEF IInv
  <2>6. n * 720 > CacheHours * d
    OBVIOUS
  <2>7. n = 0 \/ e = Null \/ e * d >= 720 * n
    BY <2>2, <2>3, Zenon DEF Healthy
  <2>8. e \in Int \cup {Null}
    BY <2>4 DEF Subscription
  <2> HIDE DEF n, d, e
  <2>9. n # 0
    <3>1. CacheHours * d >= 0
      BY <2>5
    <3> QED
      BY <3>1, <2>5, <2>6
  <2>10. SUFFICES ASSUME e # Null PROVE e > age
    BY DEF e
  <2>11. SUFFICES ASSUME e <= CacheHours PROVE FALSE
    BY <2>5, <2>8, <2>10
  <2>12. e * d <= CacheHours * d
    BY <2>5, <2>8, <2>10, <2>11
  <2>13. e * d \in Int /\ CacheHours * d \in Int /\ n * 720 = 720 * n
    BY <2>5, <2>8, <2>10
  <2> QED
    BY <2>5, <2>6, <2>7, <2>9, <2>10, <2>12, <2>13
<1> QED
  BY <1>1, Invariance, PTL

\* The rules of an action, as Kept looks at them.
LEMMA MatchesIs ==
    ASSUME NEW ob, NEW dns, NEW rules, NEW action
    PROVE  Matches(ob, dns, PatternsOf(rules, action))
               <=> \E r \in rules : r.action = action /\ Candidates(ob, dns) \cap r.pattern # {}
<1>1. \A p : p \in PatternsOf(rules, action)
               <=> \E r \in rules : r.action = action /\ p = r.pattern
  BY DEF PatternsOf
<1> QED
  BY <1>1, Zenon DEF Matches

\* Kept, in terms of the rules that hit.
LEMMA KeptIs ==
    ASSUME NEW ob, NEW dns, NEW rules
    PROVE  LET hits(action) == \E r \in rules : r.action = action
                                   /\ Candidates(ob, dns) \cap r.pattern # {}
           IN  Kept(ob, rules, dns) <=>
                 \/ ob.addresses = {}
                 \/ /\ ~hits("block")
                    /\ (\A r \in rules : r.action # "allow") \/ hits("allow")
<1>1. PatternsOf(rules, "allow") = {} <=> \A r \in rules : r.action # "allow"
  BY DEF PatternsOf
<1>2. \A action : Matches(ob, dns, PatternsOf(rules, action))
          <=> \E r \in rules : r.action = action /\ Candidates(ob, dns) \cap r.pattern # {}
  BY MatchesIs
<1> QED
  BY <1>1, <1>2, Zenon DEF Kept

\* ServedRespectsRules: select_user_outbounds takes from the pool that
\* apply_address_filters left, and of that every outbound was let through by the
\* rules, looked at through the addresses its names resolved to.
THEOREM ServedRespectsRulesHolds == Spec => []ServedRespectsRules
<1>1. IInv => ServedRespectsRules
  <2> SUFFICES ASSUME IInv PROVE ServedRespectsRules
    OBVIOUS
  <2>1. ASSUME NEW ob \in ToSet(outbounds)
        PROVE  Kept(ob, input.rules, input.dns)
    <3>1. stage = "selected"
      <4>1. SUFFICES ASSUME stage # "selected" PROVE FALSE
        OBVIOUS
      <4>2. outbounds = << >>
        BY <4>1 DEF IInv
      <4> QED
        BY <4>2, <2>1 DEF ToSet
    <3>2. pool = Filtered(BuildPool(input.subs), input.rules, input.dns)
      BY <3>1 DEF IInv
    <3>3. BuildPool(input.subs) \in Seq(Outbound)
      BY BuiltIsOfHealthy, InputHasRows DEF OfHealthy, IInv
    <3>4. ToSet(pool) = {x \in ToSet(BuildPool(input.subs)) : Kept(x, input.rules, input.dns)}
      BY <3>2, <3>3, FilteredIs
    <3>5. ob \in ToSet(pool)
      BY <2>1, ServedFromPool
    <3> QED
      BY <3>4, <3>5
  <2> SUFFICES ASSUME NEW ob \in ToSet(outbounds), ob.addresses # {}
               PROVE  LET addrs == ob.addresses \cup
                                   UNION {input.dns[d] : d \in Domain \cap ob.addresses}
                          hits(action) == {r \in input.rules :
                                              r.action = action /\ r.pattern \cap addrs # {}}
                      IN  /\ hits("block") = {}
                          /\ (\E r \in input.rules : r.action = "allow") => hits("allow") # {}
    BY DEF ServedRespectsRules
  <2> DEFINE addrs == ob.addresses \cup UNION {input.dns[d] : d \in Domain \cap ob.addresses}
             hit(r) == Candidates(ob, input.dns) \cap r.pattern # {}
  <2>2. Candidates(ob, input.dns) = addrs
    BY DEF Candidates
  <2>3. \A r : hit(r) <=> r.pattern \cap addrs # {}
    BY <2>2
  <2> HIDE DEF addrs
  <2>4. /\ ~ \E r \in input.rules : r.action = "block" /\ hit(r)
        /\ \/ \A r \in input.rules : r.action # "allow"
           \/ \E r \in input.rules : r.action = "allow" /\ hit(r)
    BY <2>1, KeptIs
  <2> HIDE DEF hit
  <2>5. /\ {r \in input.rules : r.action = "block" /\ r.pattern \cap addrs # {}} = {}
        /\ (\E r \in input.rules : r.action = "allow")
              => {r \in input.rules : r.action = "allow" /\ r.pattern \cap addrs # {}} # {}
    BY <2>3, <2>4
  <2> QED
    BY <2>5, Zenon DEF addrs
<1> QED
  BY <1>1, Invariance, PTL

\* RulesAreMonotone: apply_address_filters with one more rule, whatever the rules,
\* the pool and the answers of the resolver.
THEOREM RulesAreMonotoneHolds == Spec => []RulesAreMonotone
<1>1. IInv => RulesAreMonotone
  <2> SUFFICES ASSUME IInv, stage = "built", NEW r \in Rule
               PROVE  LET before == ToSet(Filtered(pool, input.rules, input.dns))
                          after == ToSet(Filtered(pool, input.rules \cup {r}, input.dns))
                      IN  IF r.action = "allow" /\ \E q \in input.rules : q.action = "allow"
                          THEN before \subseteq after
                          ELSE after \subseteq before
    BY DEF RulesAreMonotone
  <2> DEFINE more == input.rules \cup {r}
             hit(ob, q) == Candidates(ob, input.dns) \cap q.pattern # {}
             hits(ob, rules, action) == \E q \in rules : q.action = action /\ hit(ob, q)
             kept(ob, rules) ==
                \/ ob.addresses = {}
                \/ /\ ~hits(ob, rules, "block")
                   /\ (\A q \in rules : q.action # "allow") \/ hits(ob, rules, "allow")
  <2>1. pool \in Seq(Outbound)
    BY PoolOfHealthy DEF OfHealthy
  <2>2. \A ob, rules : Kept(ob, rules, input.dns) <=> kept(ob, rules)
    BY KeptIs
  <2>3. ASSUME NEW rules
        PROVE  ToSet(Filtered(pool, rules, input.dns)) = {ob \in ToSet(pool) : kept(ob, rules)}
    BY <2>1, <2>2, FilteredIs
  <2>4. r.action \in {"block", "allow"}
    BY DEF Rule
  <2> HIDE DEF hit
  <2>5. CASE r.action = "allow" /\ \E q \in input.rules : q.action = "allow"
    <3>1. ASSUME NEW ob, kept(ob, input.rules)
          PROVE  kept(ob, more)
      BY <3>1, <2>5
    <3>2. ToSet(Filtered(pool, input.rules, input.dns)) \subseteq ToSet(Filtered(pool, more, input.dns))
      BY <2>3, <3>1, Zenon
    <3> QED
      BY <3>2, <2>5, Zenon
  <2>6. CASE ~ (r.action = "allow" /\ \E q \in input.rules : q.action = "allow")
    <3>1. ASSUME NEW ob, kept(ob, more)
          PROVE  kept(ob, input.rules)
      BY <3>1, <2>6, <2>4
    <3>2. ToSet(Filtered(pool, more, input.dns)) \subseteq ToSet(Filtered(pool, input.rules, input.dns))
      BY <2>3, <3>1, Zenon
    <3> QED
      BY <3>2, <2>6, Zenon
  <2> QED
    BY <2>5, <2>6
<1> QED
  BY <1>1, Invariance, PTL
\* PoolIsRoundRobin: the filter, the stable sort by descending health score and the
\* round-robin merge of _build_pool give the order that is stated without them.
THEOREM PoolIsRoundRobinHolds == Spec => []PoolIsRoundRobin
<1>1. IInv => PoolIsRoundRobin
  <2> SUFFICES ASSUME IInv, stage = "built" PROVE PoolIsRoundRobin
    BY DEF PoolIsRoundRobin
  <2> DEFINE subs == input.subs
             sub(ob) == subs[CHOOSE i \in DOMAIN subs : subs[i].id = ob.sub_id]
             there == {<<ob.sub_id, ob.tag[2]>> : ob \in ToSet(pool)}
             wanted == UNION {{<<s.id, i - 1>> : i \in DOMAIN s.outbounds} :
                                 s \in {x \in ToSet(subs) : Healthy(x)}}
  <2>1. /\ subs \in Seq(Subscription)
        /\ \A i, j \in DOMAIN subs : subs[i].id = subs[j].id => i = j
    BY ConstantsAssumption, Zenon DEF IInv
  <2>2. pool = BuildPool(subs)
    BY DEF IInv
  <2>3. pool \in Seq(Outbound) /\ \E l, row, col : Listed(l, subs) /\ Merged(l, pool, row, col)
    BY <2>2, PoolIs, InputHasRows DEF IInv
  <2>4. PICK l, row, col : Listed(l, subs) /\ Merged(l, pool, row, col)
    BY <2>3, Zenon
  <2> HIDE DEF subs
  <2>5. l \in Seq(Subscription) /\ DOMAIN l = 1 .. Len(l) /\ Len(l) \in Nat
    BY <2>4 DEF Listed
  <2>6. DOMAIN pool = 1 .. Len(pool) /\ Len(pool) \in Nat
    BY <2>3
  <2>7. ASSUME NEW n \in DOMAIN pool
        PROVE  /\ col[n] \in DOMAIN l /\ col[n] \in Int
               /\ row[n] \in DOMAIN l[col[n]].outbounds /\ row[n] \in Int
               /\ pool[n].tag = <<col[n] - 1, row[n] - 1>> /\ pool[n].sub_id = l[col[n]].id
               /\ l[col[n]] \in ToSet(subs) /\ Healthy(l[col[n]])
    <3>1. /\ col[n] \in DOMAIN l /\ row[n] \in DOMAIN l[col[n]].outbounds
          /\ pool[n] = InPool(l, col[n], row[n])
      BY <2>4, <2>6, Zenon DEF Merged
    <3>2. row[n] \in Nat
      BY <2>4, <2>6 DEF Merged
    <3>3. l[col[n]] \in ToSet(subs) /\ Healthy(l[col[n]])
      <4>1. l[col[n]] \in ToSet(l)
        BY <3>1, Zenon DEF ToSet
      <4> QED
        BY <4>1, <2>4, Zenon DEF Listed
    <3>4. pool[n].tag = <<col[n] - 1, row[n] - 1>> /\ pool[n].sub_id = l[col[n]].id
      BY <3>1 DEF InPool
    <3>5. col[n] \in Int
      BY <3>1, <2>5
    <3> QED
      BY <3>1, <3>2, <3>3, <3>4, <3>5
  <2>8. there \subseteq wanted
    <3>1. ASSUME NEW ob \in ToSet(pool)
          PROVE  <<ob.sub_id, ob.tag[2]>> \in wanted
      <4>1. PICK n \in DOMAIN pool : ob = pool[n]
        BY <3>1, Zenon DEF ToSet
      <4>2. ob.sub_id = l[col[n]].id /\ ob.tag[2] = row[n] - 1
        BY <4>1, <2>7
      <4> DEFINE s == l[col[n]]
      <4>3. s \in {x \in ToSet(subs) : Healthy(x)} /\ row[n] \in DOMAIN s.outbounds
        BY <2>7, Zenon
      <4>4. <<ob.sub_id, ob.tag[2]>> \in {<<s.id, i - 1>> : i \in DOMAIN s.outbounds}
        BY <4>2, <4>3
      <4> HIDE DEF s
      <4> QED
        BY <4>3, <4>4
    <3> QED
      BY <3>1
  <2>9. wanted \subseteq there
    <3>1. ASSUME NEW s \in ToSet(subs), Healthy(s), NEW i \in DOMAIN s.outbounds
          PROVE  <<s.id, i - 1>> \in there
      <4>1. s \in Subscription
        BY <2>1 DEF ToSet
      <4>2. s.outbounds \in Seq(SUBSET Address)
        BY <4>1 DEF Subscription
      <4>3. s.outbounds # << >>
        BY <3>1, <4>2
      <4>4. PICK k \in DOMAIN l : l[k] = s
        BY <3>1, <4>3, <2>4, Zenon DEF Listed, ToSet
      <4>5. PICK n \in 1 .. Len(pool) : row[n] = i /\ col[n] = k
        BY <4>4, <2>4, <3>1, Zenon DEF Merged
      <4>6. pool[n].sub_id = s.id /\ pool[n].tag[2] = i - 1 /\ pool[n] \in ToSet(pool)
        BY <4>4, <4>5, <2>6, <2>7 DEF ToSet
      <4> QED
        BY <4>6, Zenon
    <3> HIDE DEF there
    <3> QED
      BY <3>1
  <2>10. \A n \in DOMAIN pool : sub(pool[n]) = l[col[n]]
    <3> TAKE n \in DOMAIN pool
    <3>1. PICK i \in DOMAIN subs : subs[i] = l[col[n]]
      BY <2>7 DEF ToSet
    <3>2. subs[i].id = pool[n].sub_id
      BY <3>1, <2>7
    <3>3. \A j \in DOMAIN subs : subs[j].id = pool[n].sub_id => j = i
      BY <3>2, <2>1, Zenon DEF subs
    <3>4. (CHOOSE j \in DOMAIN subs : subs[j].id = pool[n].sub_id) = i
      BY <3>2, <3>3, Zenon
    <3> QED
      BY <3>1, <3>4, Zenon
  <2>11. ASSUME NEW i \in DOMAIN pool, NEW j \in DOMAIN pool, i < j
         PROVE  \/ pool[i].tag[2] < pool[j].tag[2]
                \/ /\ pool[i].tag[2] = pool[j].tag[2]
                   /\ pool[i].tag[1] < pool[j].tag[1]
                   /\ ~Below(HealthScore(sub(pool[i])), HealthScore(sub(pool[j])))
    <3>1. row[i] < row[j] \/ (row[i] = row[j] /\ col[i] < col[j])
      BY <2>4, <2>6, <2>11, Zenon DEF Merged
    <3>2. col[i] < col[j] => ~Below(HealthScore(l[col[i]]), HealthScore(l[col[j]]))
      BY <2>4, <2>7, Zenon DEF Merged
    <3>3. sub(pool[i]) = l[col[i]] /\ sub(pool[j]) = l[col[j]]
      BY <2>10
    <3> HIDE DEF sub
    <3>4. /\ row[i] < row[j] => pool[i].tag[2] < pool[j].tag[2]
          /\ row[i] = row[j] => pool[i].tag[2] = pool[j].tag[2]
          /\ col[i] < col[j] => pool[i].tag[1] < pool[j].tag[1]
      BY <2>7
    <3> QED
      BY <3>1, <3>2, <3>3, <3>4, Zenon
  <2>12. there = wanted
    BY <2>8, <2>9
  <2> HIDE DEF there, wanted, sub
  <2> QED
    BY <2>11, <2>12, Zenon DEF PoolIsRoundRobin, there, wanted, sub, subs
<1> QED
  BY <1>1, Invariance, PTL

\* The order of the rows does not decide what a group has to offer.
LEMMA SubIdsAre ==
    ASSUME NEW p \in Seq(Outbound), NEW key, NEW x
    PROVE  x \in SubIds(p, key)
               <=> \E ob \in ToSet(p) : GroupKey(ob) = key /\ ob.sub_id = x
BY DEF SubIds, OfKey, ToSet

\* Tables with the same rows offer the same in a group.
LEMMA SameOffer ==
    ASSUME NEW a, NEW b, Rows(a), Rows(b), ToSet(a) \subseteq ToSet(b),
           NEW rules, NEW dns, NEW key
    PROVE  SubIds(Filtered(BuildPool(a), rules, dns), key)
               \subseteq SubIds(Filtered(BuildPool(b), rules, dns), key)
<1> DEFINE p == BuildPool(a)
           q == BuildPool(b)
           f == Filtered(p, rules, dns)
           g == Filtered(q, rules, dns)
<1>1. /\ p \in Seq(Outbound) /\ \E l, row, col : Listed(l, a) /\ Merged(l, p, row, col)
      /\ q \in Seq(Outbound) /\ \E l, row, col : Listed(l, b) /\ Merged(l, q, row, col)
  BY PoolIs
<1> HIDE DEF p, q
<1>2. PICK l, row, col : Listed(l, a) /\ Merged(l, p, row, col)
  BY <1>1, Zenon
<1>3. PICK m, r, c : Listed(m, b) /\ Merged(m, q, r, c)
  BY <1>1, Zenon
<1>4. /\ f \in Seq(Outbound) /\ ToSet(f) = {ob \in ToSet(p) : Kept(ob, rules, dns)}
      /\ g \in Seq(Outbound) /\ ToSet(g) = {ob \in ToSet(q) : Kept(ob, rules, dns)}
  BY <1>1, FilteredIs
<1> HIDE DEF f, g
<1>5. ASSUME NEW ob \in ToSet(f)
      PROVE  \E o \in ToSet(g) : GroupKey(o) = GroupKey(ob) /\ o.sub_id = ob.sub_id
  <2>1. PICK n \in 1 .. Len(p) : ob = p[n]
    <3>1. ob \in ToSet(p) /\ DOMAIN p = 1 .. Len(p)
      BY <1>1, <1>4, <1>5
    <3> QED
      BY <3>1, Zenon DEF ToSet
  <2>2. /\ col[n] \in DOMAIN l /\ row[n] \in DOMAIN l[col[n]].outbounds
        /\ ob = InPool(l, col[n], row[n])
    BY <2>1, <1>2, Zenon DEF Merged
  <2>3. l[col[n]] \in ToSet(m)
    BY <2>2, <1>2, <1>3, Zenon DEF Listed, ToSet
  <2>4. PICK k \in DOMAIN m : m[k] = l[col[n]]
    BY <2>3, Zenon DEF ToSet
  <2>5. PICK j \in 1 .. Len(q) : r[j] = row[n] /\ c[j] = k
    <3>1. row[n] \in DOMAIN m[k].outbounds
      BY <2>2, <2>4
    <3> QED
      BY <3>1, <1>3, Zenon DEF Merged
  <2>6. q[j] = InPool(m, k, row[n])
    BY <2>5, <1>3, Zenon DEF Merged
  <2>7. /\ q[j].addresses = ob.addresses /\ q[j].sub_id = ob.sub_id
        /\ q[j].group_id = ob.group_id
    BY <2>2, <2>4, <2>6 DEF InPool
  <2>8. Kept(q[j], rules, dns)
    <3>1. Kept(ob, rules, dns)
      BY <1>4, <1>5
    <3>2. Candidates(q[j], dns) = Candidates(ob, dns)
      BY <2>7, Zenon DEF Candidates
    <3> QED
      BY <3>1, <3>2, <2>7, KeptIs, Zenon
  <2>9. q[j] \in ToSet(g)
    BY <1>1, <1>4, <2>8 DEF ToSet
  <2>10. GroupKey(q[j]) = GroupKey(ob)
    BY <2>7, Zenon DEF GroupKey
  <2> QED
    BY <2>7, <2>9, <2>10
<1>6. \A x : /\ x \in SubIds(f, key) <=> \E ob \in ToSet(f) : GroupKey(ob) = key /\ ob.sub_id = x
             /\ x \in SubIds(g, key) <=> \E ob \in ToSet(g) : GroupKey(ob) = key /\ ob.sub_id = x
  BY <1>4, SubIdsAre
<1>7. \A x : x \in SubIds(f, key) => x \in SubIds(g, key)
  BY <1>5, <1>6, Zenon
<1> QED
  BY <1>7, Zenon DEF f, g, p, q

\* The rows in another order are the same rows.
LEMMA ReversedRows ==
    ASSUME NEW subs, Rows(subs)
    PROVE  Rows(Reverse(subs)) /\ ToSet(Reverse(subs)) = ToSet(subs)
<1> DEFINE n == Len(subs)
           r == Reverse(subs)
<1>1. /\ subs \in Seq(Subscription) /\ n \in Nat /\ DOMAIN subs = 1 .. n
      /\ \A i, j \in DOMAIN subs : subs[i].id = subs[j].id => i = j
  BY DEF Rows
<1>2. r = [i \in 1 .. n |-> subs[n - i + 1]]
  BY DEF Reverse
<1> HIDE DEF n, r
<1>3. \A i \in 1 .. n : n - i + 1 \in DOMAIN subs /\ r[i] = subs[n - i + 1]
  BY <1>1, <1>2
<1>4. r \in Seq(Subscription) /\ DOMAIN r = 1 .. n
  <2>1. r \in [1 .. n -> Subscription]
    BY <1>1, <1>2, <1>3
  <2> QED
    BY <2>1, <1>1
<1>5. ASSUME NEW i \in DOMAIN r, NEW j \in DOMAIN r, r[i].id = r[j].id
      PROVE  i = j
  <2>1. n - i + 1 = n - j + 1
    BY <1>1, <1>3, <1>4, <1>5
  <2> QED
    BY <2>1, <1>1, <1>4
<1>6. ToSet(r) = ToSet(subs)
  <2>1. \A i \in 1 .. n : \E j \in 1 .. n : r[i] = subs[j]
    BY <1>1, <1>3
  <2>2. \A i \in 1 .. n : \E j \in 1 .. n : subs[i] = r[j]
    <3> TAKE i \in 1 .. n
    <3>1. n - i + 1 \in 1 .. n /\ n - (n - i + 1) + 1 = i
      BY <1>1
    <3>2. r[n - i + 1] = subs[i]
      BY <3>1, <1>3
    <3> QED
      BY <3>1, <3>2
  <2> QED
    <3>1. /\ ToSet(r) = {r[i] : i \in 1 .. n}
          /\ ToSet(subs) = {subs[i] : i \in 1 .. n}
      BY <1>1, <1>4, Zenon DEF ToSet
    <3> QED
      BY <2>1, <2>2, <3>1
<1> QED
  BY <1>4, <1>5, <1>6, Zenon DEF Rows, r

\* StickyProvider: the group's subscription is chosen by a digest of token and
\* group among the ids that take part, and neither the order of the rows nor the
\* rest of the pool decides which ids these are.
THEOREM StickyProviderHolds == Spec => []StickyProvider
<1>1. IInv => StickyProvider
  <2> SUFFICES ASSUME IInv, stage = "selected", NEW rules,
                      NEW key,
                      \/ rules = input.rules
                      \/ SubIds(Filtered(BuildPool(Reverse(input.subs)), rules, input.dns), key)
                            = SubIds(pool, key)
               PROVE  Chosen(Filtered(BuildPool(Reverse(input.subs)), rules, input.dns), key, token)
                          = Chosen(pool, key, token)
    BY Zenon DEF StickyProvider
  <2> DEFINE rebuilt == Filtered(BuildPool(Reverse(input.subs)), rules, input.dns)
  <2>1. pool = Filtered(BuildPool(input.subs), input.rules, input.dns)
    BY DEF IInv
  <2>2. /\ Rows(input.subs) /\ Rows(Reverse(input.subs))
        /\ ToSet(Reverse(input.subs)) = ToSet(input.subs)
    BY InputHasRows, ReversedRows DEF IInv
  <2>3. SubIds(rebuilt, key) = SubIds(pool, key)
    <3>1. CASE rules = input.rules
      <4>1. /\ ToSet(Reverse(input.subs)) \subseteq ToSet(input.subs)
            /\ ToSet(input.subs) \subseteq ToSet(Reverse(input.subs))
        BY <2>2
      <4>2. /\ SubIds(rebuilt, key) \subseteq SubIds(pool, key)
            /\ SubIds(pool, key) \subseteq SubIds(rebuilt, key)
        BY <2>1, <2>2, <3>1, <4>1, SameOffer
      <4> HIDE DEF rebuilt
      <4> QED
        BY <4>2
    <3> QED
      BY <3>1
  <2> HIDE DEF rebuilt
  <2>4. Chosen(rebuilt, key, token) = Chosen(pool, key, token)
    BY <2>3, Zenon DEF Chosen
  <2> QED
    BY <2>4, Zenon DEF rebuilt
<1> QED
  BY <1>1, Invariance, PTL
\* OneProviderPerGroup: the grouping, the choice and the slice that wraps around
\* of select_user_outbounds.
THEOREM OneProviderPerGroupHolds == Spec => []OneProviderPerGroup
<1>1. IInv => OneProviderPerGroup
  <2> SUFFICES ASSUME IInv, stage = "selected" PROVE OneProviderPerGroup
    BY DEF OneProviderPerGroup
  <2>1. token \in Token /\ outbounds = SelectOutbounds(pool, token)
    BY DEF IInv
  <2>2. /\ pool \in Seq(Outbound) /\ DOMAIN pool = 1 .. Len(pool)
        /\ \A i, j \in 1 .. Len(pool) : pool[i].tag = pool[j].tag => i = j
    <3>1. pool \in Seq(Outbound) /\ \A i, j \in 1 .. Len(pool) : pool[i].tag = pool[j].tag => i = j
      BY PoolOfHealthy DEF OfHealthy
    <3> QED
      BY <3>1
  <2>3. /\ outbounds \in Seq(Outbound) /\ DOMAIN outbounds = 1 .. Len(outbounds)
        /\ Len(outbounds) = Min({PerUser, Len(OfChosen(pool, token))})
        /\ \E at : Served(pool, token, outbounds, at)
    BY <2>1, <2>2, ServedIs
  <2>4. PICK at : Served(pool, token, outbounds, at)
    BY <2>3
  <2>5. \A n \in DOMAIN outbounds :
            /\ at[n] \in 1 .. Len(pool) /\ outbounds[n] = pool[at[n]]
            /\ outbounds[n].sub_id = Chosen(pool, GroupKey(outbounds[n]), token)
    <3> TAKE n \in DOMAIN outbounds
    <3>1. n \in 1 .. Len(outbounds)
      BY <2>3
    <3>2. at \in [1 .. Len(outbounds) -> 1 .. Len(pool)]
      BY <2>4, Zenon DEF Served
    <3>3. /\ outbounds[n] = pool[at[n]]
          /\ pool[at[n]].sub_id = Chosen(pool, GroupKey(pool[at[n]]), token)
      BY <3>1, <2>4, Zenon DEF Served
    <3>4. at[n] \in 1 .. Len(pool)
      BY <3>1, <3>2
    <3> QED
      BY <3>3, <3>4
  <2>6. \A i, j \in DOMAIN outbounds : i # j => outbounds[i].tag # outbounds[j].tag
    <3> SUFFICES ASSUME NEW i \in DOMAIN outbounds, NEW j \in DOMAIN outbounds,
                        outbounds[i].tag = outbounds[j].tag
                 PROVE  i = j
      BY Zenon
    <3>1. at[i] = at[j]
      <4>1. pool[at[i]].tag = pool[at[j]].tag
        BY <2>5
      <4> QED
        BY <4>1, <2>2, <2>5, Zenon
    <3> QED
      BY <3>1, <2>3, <2>4, Zenon DEF Served
  <2>7. \A i, j \in DOMAIN outbounds : GroupKey(outbounds[i]) = GroupKey(outbounds[j])
            => outbounds[i].sub_id = outbounds[j].sub_id
    <3> SUFFICES ASSUME NEW i \in DOMAIN outbounds, NEW j \in DOMAIN outbounds,
                        GroupKey(outbounds[i]) = GroupKey(outbounds[j])
                 PROVE  outbounds[i].sub_id = outbounds[j].sub_id
      BY Zenon
    <3>1. /\ outbounds[i].sub_id = Chosen(pool, GroupKey(outbounds[i]), token)
          /\ outbounds[j].sub_id = Chosen(pool, GroupKey(outbounds[j]), token)
      BY <2>5, Zenon
    <3> QED
      BY <3>1
  <2>8. ASSUME Len(outbounds) < PerUser, NEW ob \in ToSet(pool)
        PROVE  \E x \in ToSet(outbounds) : GroupKey(x) = GroupKey(ob)
    <3>1. PICK i \in 1 .. Len(pool) : ob = pool[i]
      BY <2>2, <2>8, Zenon DEF ToSet
    <3>2. Chosen(pool, GroupKey(ob), token) \in SubIds(pool, GroupKey(ob))
      <4>1. token.digest \in [Group -> Digests]
        BY <2>1 DEF Token
      <4> QED
        BY <4>1, <3>1, <2>2, ChosenIs
    <3>3. PICK j \in 1 .. Len(pool) : /\ GroupKey(pool[j]) = GroupKey(ob)
                                      /\ pool[j].sub_id = Chosen(pool, GroupKey(ob), token)
      BY <3>2, <2>2 DEF SubIds, OfKey
    <3>4. pool[j].sub_id = Chosen(pool, GroupKey(pool[j]), token)
      BY <3>3
    <3>5. PICK n \in 1 .. Len(outbounds) : at[n] = j
      BY <3>4, <2>4, <2>8, Zenon DEF Served
    <3>6. outbounds[n] \in ToSet(outbounds) /\ outbounds[n] = pool[j]
      BY <3>5, <2>3, <2>5, Zenon DEF ToSet
    <3> QED
      BY <3>3, <3>6
  <2> QED
    BY <2>3, <2>6, <2>7, <2>8, Zenon DEF OneProviderPerGroup
<1> QED
  BY <1>1, Invariance, PTL

\* In a pool where every group has one subscription, the selection is a
\* rearrangement of the pool.
LEMMA Ungrouped ==
    ASSUME NEW p \in Seq(Outbound), NEW t, t.digest \in [Group -> Digests],
           \A key \in ToSet(GroupKeys(p)) : Cardinality(SubIds(p, key)) = 1,
           NEW at, Placed(p, t, OfChosen(p, t), at)
    PROVE  /\ Len(OfChosen(p, t)) = Len(p)
           /\ \A i \in 1 .. Len(p) : \E n \in 1 .. Len(p) : at[n] = i
<1> DEFINE s == OfChosen(p, t)
<1>1. s \in Seq(Outbound) /\ Len(s) \in Nat
  BY OfChosenIs
<1>2. DOMAIN p = 1 .. Len(p) /\ Len(p) \in Nat
  OBVIOUS
<1> HIDE DEF s
<1>3. ASSUME NEW i \in 1 .. Len(p)
      PROVE  p[i].sub_id = Chosen(p, GroupKey(p[i]), t)
  <2> DEFINE key == GroupKey(p[i])
             ids == SubIds(p, key)
  <2>1. key \in ToSet(GroupKeys(p))
    BY <1>2, GroupKeysAre
  <2>2. p[i].sub_id \in ids /\ Chosen(p, key, t) \in ids
    <3>1. p[i].sub_id \in ids
      BY <1>2 DEF SubIds, OfKey
    <3> QED
      BY <3>1, <1>2, ChosenIs
  <2>3. IsFiniteSet(ids) /\ Cardinality(ids) = 1
    BY <2>1, <1>2, IdsAreFinite
  <2> HIDE DEF key, ids
  <2>4. PICK x : ids = {x}
    BY <2>3, FS_Singleton
  <2> QED
    BY <2>2, <2>4 DEF key
<1>4. /\ at \in [1 .. Len(s) -> 1 .. Len(p)]
      /\ \A m, n \in 1 .. Len(s) : at[m] = at[n] => m = n
      /\ \A i \in 1 .. Len(p) : \E n \in 1 .. Len(s) : at[n] = i
  BY <1>3, Zenon DEF Placed, s
<1>5. /\ IsFiniteSet(1 .. Len(s)) /\ Cardinality(1 .. Len(s)) = Len(s)
      /\ Cardinality(1 .. Len(p)) = Len(p)
  <2>1. ASSUME NEW n \in Nat
        PROVE  IsFiniteSet(1 .. n) /\ Cardinality(1 .. n) = n
    BY FS_Interval
  <2> QED
    BY <1>1, <1>2, <2>1, Zenon
<1>6. Cardinality(1 .. Len(p)) = Cardinality(1 .. Len(s))
  BY <1>4, <1>5, OneToOne
<1>7. Len(s) = Len(p)
  BY <1>5, <1>6
<1> QED
  BY <1>4, <1>7, Zenon DEF s

\* The offset does not decide which subscription is chosen.
LEMMA ChosenByDigests ==
    ASSUME NEW p, NEW t, NEW u, t.digest = u.digest
    PROVE  OfChosen(p, t) = OfChosen(p, u)
<1>1. \A key : Chosen(p, key, t) = Chosen(p, key, u)
  BY Zenon DEF Chosen, Digest
<1> DEFINE of(v, key) == Where(p, {i \in OfKey(p, key) : p[i].sub_id = Chosen(p, key, v)})
           keys == GroupKeys(p)
<1>2. \A key : of(t, key) = of(u, key)
  <2> TAKE key
  <2>1. {i \in OfKey(p, key) : p[i].sub_id = Chosen(p, key, t)}
           = {i \in OfKey(p, key) : p[i].sub_id = Chosen(p, key, u)}
    BY <1>1
  <2> QED
    BY <2>1, Zenon
<1> HIDE DEF of, keys
<1>3. [k \in DOMAIN keys |-> of(t, keys[k])] = [k \in DOMAIN keys |-> of(u, keys[k])]
  BY <1>2
<1>4. \A v : OfChosen(p, v) = FlattenSeq([k \in DOMAIN keys |-> of(v, keys[k])])
  BY Zenon DEF OfChosen, of, keys
<1> QED
  BY <1>3, <1>4

\* EqualShareUngrouped: the slice of select_user_outbounds starts at an offset that
\* takes every value and wraps around, so that it passes every place as often as
\* it is long.
THEOREM EqualShareUngroupedHolds == Spec => []EqualShareUngrouped
<1>1. IInv => EqualShareUngrouped
  <2> SUFFICES ASSUME IInv,
                      \A key \in ToSet(GroupKeys(pool)) : Cardinality(SubIds(pool, key)) = 1,
                      NEW ob \in ToSet(pool), NEW digest \in [Group -> Digests]
               PROVE  Cardinality({n \in 0 .. Len(pool) - 1 :
                          ob \in ToSet(SelectOutbounds(pool, [digest |-> digest, offset |-> n]))})
                          = Min({PerUser, Len(pool)})
    BY Zenon DEF EqualShareUngrouped
  <2> DEFINE N == Len(pool)
             m == Min({PerUser, N})
             t(n) == [digest |-> digest, offset |-> n]
             s == OfChosen(pool, t(0))
             given == {n \in 0 .. N - 1 : ob \in ToSet(SelectOutbounds(pool, t(n)))}
  <2>1. /\ pool \in Seq(Outbound) /\ DOMAIN pool = 1 .. N /\ N \in Nat
        /\ \A i, j \in 1 .. N : pool[i].tag = pool[j].tag => i = j
    <3>1. pool \in Seq(Outbound) /\ \A i, j \in 1 .. Len(pool) : pool[i].tag = pool[j].tag => i = j
      BY PoolOfHealthy DEF OfHealthy
    <3> QED
      BY <3>1
  <2>2. \A n : t(n).digest = digest /\ t(n).offset = n
    OBVIOUS
  <2>3. PICK i \in 1 .. N : ob = pool[i]
    BY <2>1, Zenon DEF ToSet
  <2>4. N > 0 /\ PerUser \in Nat
    BY <2>1, <2>3, ConstantsAssumption
  <2>5. m = (IF PerUser <= N THEN PerUser ELSE N) /\ m \in Nat /\ m <= N
    BY <2>1, <2>4, MinOfTwo
  <2> HIDE DEF t
  <2>6. \A n : OfChosen(pool, t(n)) = s
    BY <2>2, ChosenByDigests
  <2>7. s \in Seq(Outbound) /\ \E at : Placed(pool, t(0), s, at)
    BY <2>1, OfChosenIs
  <2>8. PICK at : Placed(pool, t(0), s, at)
    BY <2>7
  <2>9. Len(s) = N /\ \A k \in 1 .. N : \E n \in 1 .. N : at[n] = k
    BY <2>1, <2>2, <2>8, Ungrouped
  <2> HIDE DEF s, N, m
  <2>10. PICK q \in 1 .. N : at[q] = i
    BY <2>9
  <2>11. \A n \in 1 .. N : at[n] \in 1 .. N /\ s[n] = pool[at[n]] /\ (at[n] = at[q] => n = q)
    <3>1. /\ at \in [1 .. N -> 1 .. N]
          /\ \A n \in 1 .. N : s[n] = pool[at[n]]
          /\ \A k, n \in 1 .. N : at[k] = at[n] => k = n
      BY <2>8, <2>9, Zenon DEF Placed, N
    <3> QED
      BY <3>1, <2>10
  <2>12. \A n \in 1 .. N : s[n] = ob <=> n = q
    <3> TAKE n \in 1 .. N
    <3>1. s[n] = pool[at[n]] /\ at[n] \in 1 .. N /\ (at[n] = i => n = q)
      BY <2>10, <2>11
    <3>2. pool[at[n]] = ob => at[n] = i
      BY <2>1, <2>3, <3>1, Zenon
    <3>3. s[q] = ob
      BY <2>3, <2>10, <2>11
    <3> QED
      BY <3>1, <3>2, <3>3
  <2>13. ASSUME NEW n \in 0 .. N - 1
         PROVE  ob \in ToSet(SelectOutbounds(pool, t(n)))
                    <=> \E k \in 1 .. m : ((n + k - 1) % N) + 1 = q
    <3> DEFINE o == Slice(s, n)
    <3>1. SelectOutbounds(pool, t(n)) = o
      BY <2>2, <2>6, Zenon DEF SelectOutbounds
    <3>2. /\ o \in Seq(Outbound) /\ Len(o) = m
          /\ \A k \in 1 .. Len(o) : /\ ((n + k - 1) % N) + 1 \in 1 .. N
                                    /\ o[k] = s[((n + k - 1) % N) + 1]
      <4>1. n \in Nat
        BY <2>1
      <4> HIDE DEF o
      <4>2. /\ Slice(s, n) \in Seq(Outbound)
            /\ Len(Slice(s, n)) = IF PerUser <= Len(s) THEN PerUser ELSE Len(s)
            /\ \A k \in 1 .. Len(Slice(s, n)) :
                  /\ ((n + k - 1) % Len(s)) + 1 \in 1 .. Len(s)
                  /\ Slice(s, n)[k] = s[((n + k - 1) % Len(s)) + 1]
        BY <4>1, <2>7, SliceIs
      <4> QED
        BY <4>2, <2>5, <2>9 DEF o
    <3> HIDE DEF o
    <3>3. \A k \in 1 .. m : o[k] = ob <=> ((n + k - 1) % N) + 1 = q
      BY <3>2, <2>12
    <3>4. DOMAIN o = 1 .. m
      BY <3>2
    <3>5. ob \in ToSet(o) <=> \E k \in 1 .. m : o[k] = ob
      BY <3>4 DEF ToSet
    <3> QED
      BY <3>1, <3>3, <3>5, Zenon
  <2>14. given = {n \in 0 .. N - 1 : \E k \in 1 .. m : ((n + k - 1) % N) + 1 = q}
    BY <2>13
  <2>15. Cardinality({n \in 0 .. N - 1 : \E k \in 1 .. m : ((n + k - 1) % N) + 1 = q}) = m
    <3>1. N \in Nat /\ N > 0 /\ m \in Nat /\ m <= N /\ q \in 1 .. N
      BY <2>1, <2>4, <2>5
    <3> QED
      BY <3>1, Circle, Zenon
  <2> QED
    BY <2>14, <2>15, Zenon DEF t, N, m
<1> QED
  BY <1>1, Invariance, PTL

==============================================================================
