-------------------------- MODULE ChunkCacheProof ---------------------------
(***************************************************************************)
(* The chunk cache for any number of workers and chunks, any sizes, any    *)
(* maximum and any reads: bytes are exact, a chunk is decoded by one       *)
(* thread at a time, and readers get what they asked for.                  *)
(***************************************************************************)
EXTENDS ChunkCache, NumberInduction, SequenceTheorems

-----------------------------------------------------------------------------
(* The bytes of a sequence of chunks.                                      *)

\* The sum exists and satisfies its equations.
LEMMA WeightsSum ==
    ASSUME NEW s \in Seq(Keys)
    PROVE  /\ Weights(s)[0] = 0
           /\ \A n \in 1..Len(s) : Weights(s)[n] = Weights(s)[n - 1] + Size[s[n]]
           /\ \A n \in 0..Len(s) : Weights(s)[n] \in Nat
  <1>. DEFINE Sum(f) == f = [n \in 0..Len(s) |-> IF n = 0 THEN 0 ELSE f[n - 1] + Size[s[n]]]
              Sums(f, k) == \A n \in 0..k : f[n] = IF n = 0 THEN 0 ELSE f[n - 1] + Size[s[n]]
              S == {k \in 0..Len(s) : \E f \in [0..k -> Nat] : Sums(f, k)}
  <1>1. Len(s) \in Nat /\ \A n \in 1..Len(s) : Size[s[n]] \in Nat
    BY SizeAssumption
  <1>2. ASSUME NEW k \in 0..Len(s), \A y \in 0..(k - 1) : y \in S
        PROVE  k \in S
    <2>1. CASE k = 0
      <3>1. 0..k = {0}
        BY <2>1
      <3>2. [n \in 0..k |-> 0] \in [0..k -> Nat] /\ Sums([n \in 0..k |-> 0], k)
        BY <3>1
      <3>. QED
        BY <3>2
    <2>2. CASE k # 0
      <3>1. k - 1 \in 0..(k - 1)
        BY <2>2
      <3>2. PICK f \in [0..(k - 1) -> Nat] : Sums(f, k - 1)
        BY <1>2, <3>1
      <3>. DEFINE g == [n \in 0..k |-> IF n = k THEN f[k - 1] + Size[s[k]] ELSE f[n]]
      <3>3. \A n \in 0..k : n # k => n \in 0..(k - 1)
        OBVIOUS
      <3>4. g \in [0..k -> Nat]
        BY <1>1, <2>2, <3>1, <3>3
      <3>5. \A n \in 0..k : n # 0 => n - 1 \in 0..k /\ n - 1 # k /\ g[n - 1] = f[n - 1]
        OBVIOUS
      <3>6. \A n \in 0..k : g[n] = IF n = 0 THEN 0 ELSE f[n - 1] + Size[s[n]]
        BY <2>2, <3>2, <3>3
      <3>7. Sums(g, k)
        <4>. HIDE DEF g
        <4>. QED
          BY <3>5, <3>6
      <3>. HIDE DEF g
      <3>. QED
        BY <3>4, <3>7
    <2>. QED
      BY <2>1, <2>2
  <1>3. Len(s) \in S
    <2>. HIDE DEF S
    <2>1. \A x \in 0..Len(s) : x \in S
      BY <1>1, <1>2, UpTo
    <2>. QED
      BY <1>1, <2>1
  <1>4. PICK f \in [0..Len(s) -> Nat] : Sums(f, Len(s))
    BY <1>3
  <1>5. Sum(f)
    BY <1>4
  <1>6. PICK g : Sum(g) /\ Weights(s) = g
    <2>1. Weights(s) = CHOOSE h : Sum(h)
      BY DEF Weights
    <2>2. Sum(CHOOSE h : Sum(h))
      <3>. HIDE DEF Sum
      <3>. QED
        BY <1>5
    <2>. HIDE DEF Sum
    <2>. QED
      BY <2>1, <2>2
  <1>7. \A n \in 0..Len(s) : g[n] = IF n = 0 THEN 0 ELSE g[n - 1] + Size[s[n]]
    BY <1>6
  <1>8. \A n \in 0..Len(s) : g[n] \in Nat
    <2>. DEFINE T == {n \in 0..Len(s) : g[n] \in Nat}
    <2>1. ASSUME NEW x \in 0..Len(s), \A y \in 0..(x - 1) : y \in T
          PROVE  x \in T
      <3>1. CASE x = 0
        BY <1>7, <3>1
      <3>2. CASE x # 0
        <4>1. x - 1 \in 0..(x - 1) /\ x \in 1..Len(s)
          BY <3>2
        <4>2. g[x - 1] \in Nat
          BY <2>1, <4>1
        <4>. QED
          BY <1>1, <1>7, <3>2, <4>1, <4>2
      <3>. QED
        BY <3>1, <3>2
    <2>2. \A x \in 0..Len(s) : x \in T
      <3>. HIDE DEF T
      <3>. QED
        BY <1>1, <2>1, UpTo
    <2>. QED
      BY <2>2
  <1>9. \A n \in 1..Len(s) : n \in 0..Len(s) /\ n # 0
    OBVIOUS
  <1>. QED
    BY <1>1, <1>6, <1>7, <1>8, <1>9

\* The m chunks of s after the first a are those of t after the first b.
Alike(s, a, t, b, m) ==
    /\ s \in Seq(Keys) /\ t \in Seq(Keys) /\ a \in Nat /\ b \in Nat /\ m \in Nat
    /\ a + m <= Len(s) /\ b + m <= Len(t)
    /\ \A j \in 1..m : s[a + j] = t[b + j]

\* Equal stretches weigh the same, wherever they are.
LEMMA StretchWeight ==
    ASSUME NEW s, NEW t, NEW a, NEW b, NEW m, Alike(s, a, t, b, m)
    PROVE  Weights(s)[a + m] + Weights(t)[b] = Weights(t)[b + m] + Weights(s)[a]
  <1>. USE DEF Alike
  <1>. DEFINE S == {j \in 0..m : Weights(s)[a + j] + Weights(t)[b]
                                    = Weights(t)[b + j] + Weights(s)[a]}
  <1>0. Len(s) \in Nat /\ Len(t) \in Nat
    OBVIOUS
  <1>1. \A j \in 0..m : a + j \in 0..Len(s) /\ b + j \in 0..Len(t)
    BY <1>0
  <1>2. \A j \in 0..m : Weights(s)[a + j] \in Nat /\ Weights(t)[b + j] \in Nat
    BY <1>1, WeightsSum
  <1>3. a \in 0..Len(s) /\ b \in 0..Len(t)
    BY <1>0
  <1>4. Weights(s)[a] \in Nat /\ Weights(t)[b] \in Nat
    BY <1>3, WeightsSum
  <1>5. ASSUME NEW x \in 0..m, \A y \in 0..(x - 1) : y \in S
        PROVE  x \in S
    <2>1. CASE x = 0
      <3>1. a + x = a /\ b + x = b
        BY <2>1
      <3>. QED
        BY <1>4, <3>1
    <2>2. CASE x # 0
      <3>1. /\ x - 1 \in 0..(x - 1) /\ x \in 1..m /\ x - 1 \in 0..m
            /\ a + x \in 1..Len(s) /\ (a + x) - 1 = a + (x - 1)
            /\ b + x \in 1..Len(t) /\ (b + x) - 1 = b + (x - 1)
        BY <1>0, <2>2
      <3>2. Weights(s)[a + (x - 1)] + Weights(t)[b] = Weights(t)[b + (x - 1)] + Weights(s)[a]
        BY <1>5, <3>1
      <3>3. Weights(s)[a + x] = Weights(s)[a + (x - 1)] + Size[s[a + x]]
        BY <3>1, WeightsSum
      <3>4. Weights(t)[b + x] = Weights(t)[b + (x - 1)] + Size[t[b + x]]
        BY <3>1, WeightsSum
      <3>5. s[a + x] = t[b + x] /\ Size[s[a + x]] \in Nat
        <4>1. s[a + x] = t[b + x]
          BY <3>1
        <4>2. s[a + x] \in Keys
          BY <3>1
        <4>. QED
          BY <4>1, <4>2, SizeAssumption
      <3>6. Weights(s)[a + (x - 1)] \in Nat /\ Weights(t)[b + (x - 1)] \in Nat
        BY <1>2, <3>1
      <3>. HIDE DEF S
      <3>7. Weights(s)[a + x] + Weights(t)[b] = Weights(t)[b + x] + Weights(s)[a]
        <4>. DEFINE p == Weights(s)[a + (x - 1)]
                    q == Weights(t)[b + (x - 1)]
                    u == Weights(t)[b]
                    v == Weights(s)[a]
                    d == Size[s[a + x]]
        <4>1. p \in Nat /\ q \in Nat /\ u \in Nat /\ v \in Nat /\ d \in Nat /\ p + u = q + v
          BY <1>4, <3>2, <3>5, <3>6
        <4>2. Weights(s)[a + x] = p + d /\ Weights(t)[b + x] = q + d
          BY <3>3, <3>4, <3>5
        <4>. HIDE DEF p, q, d
        <4>3. (p + d) + u = (q + d) + v
          <5>. HIDE DEF u, v
          <5>. QED
            BY <4>1
        <4>. QED
          BY <4>2, <4>3
      <3>. QED
        BY <3>7 DEF S
    <2>. QED
      BY <2>1, <2>2
  <1>6. \A x \in 0..m : x \in S
    <2>. HIDE DEF S
    <2>. QED
      BY <1>5, UpTo
  <1>7. m \in 0..m
    OBVIOUS
  <1>. QED
    BY <1>6, <1>7

\* Two sequences that agree on their first m chunks.
LEMMA PrefixWeight ==
    ASSUME NEW s \in Seq(Keys), NEW t \in Seq(Keys), NEW m \in Nat,
           m <= Len(s), m <= Len(t), \A j \in 1..m : s[j] = t[j]
    PROVE  Weights(s)[m] = Weights(t)[m]
  <1>. DEFINE z == 0
  <1>1. z \in Nat /\ z + m = m /\ \A j \in 1..m : z + j = j
    OBVIOUS
  <1>2. Weights(s)[z] = 0 /\ Weights(t)[z] = 0
    BY WeightsSum
  <1>3. Weights(s)[m] \in Nat /\ Weights(t)[m] \in Nat
    <2>1. m \in 0..Len(s) /\ m \in 0..Len(t)
      OBVIOUS
    <2>. QED
      BY <2>1, WeightsSum
  <1>. HIDE DEF z
  <1>4. \A j \in 1..m : s[z + j] = t[z + j]
    BY <1>1
  <1>5. Weights(s)[z + m] + Weights(t)[z] = Weights(t)[z + m] + Weights(s)[z]
    <2>1. Alike(s, z, t, z, m)
      BY <1>1, <1>4 DEF Alike
    <2>. QED
      BY <2>1, StretchWeight
  <1>. QED
    BY <1>1, <1>2, <1>3, <1>5

LEMMA AppendWeight ==
    ASSUME NEW s \in Seq(Keys), NEW k \in Keys
    PROVE  Append(s, k) \in Seq(Keys) /\ Weight(Append(s, k)) = Weight(s) + Size[k]
  <1>. DEFINE t == Append(s, k)
  <1>1. /\ t \in Seq(Keys) /\ Len(s) \in Nat /\ Len(t) = Len(s) + 1 /\ t[Len(t)] = k
        /\ Len(s) <= Len(s) /\ Len(s) <= Len(t)
        /\ \A j \in 1..Len(s) : t[j] = s[j]
    OBVIOUS
  <1>. HIDE DEF t
  <1>2. Weights(t)[Len(s)] = Weights(s)[Len(s)]
    BY <1>1, PrefixWeight, Zenon
  <1>3. Len(t) \in 1..Len(t) /\ Len(t) - 1 = Len(s)
    BY <1>1
  <1>4. Weights(t)[Len(t)] = Weights(t)[Len(s)] + Size[k]
    BY <1>1, <1>3, WeightsSum
  <1>. QED
    BY <1>1, <1>2, <1>4 DEF t, Weight

LEMMA SuffixWeight ==
    ASSUME NEW s \in Seq(Keys), NEW n \in 0..Len(s)
    PROVE  /\ SubSeq(s, n + 1, Len(s)) \in Seq(Keys)
           /\ Weight(SubSeq(s, n + 1, Len(s))) + Weights(s)[n] = Weight(s)
  <1>. DEFINE t == SubSeq(s, n + 1, Len(s))
              m == Len(s) - n
              z == 0
  <1>1. /\ t \in Seq(Keys) /\ Len(s) \in Nat /\ m \in Nat /\ Len(t) = m /\ n \in Nat
        /\ z \in Nat /\ z + m = m /\ n + m = Len(s)
    OBVIOUS
  <1>2. \A j \in 1..m : t[z + j] = s[n + j]
    OBVIOUS
  <1>3. z + m <= Len(t) /\ n + m <= Len(s)
    <2>. HIDE DEF t, m
    <2>. QED
      BY <1>1
  <1>4. Weights(t)[z] = 0
    BY <1>1, WeightsSum
  <1>. HIDE DEF t, m, z
  <1>5. Weights(t)[z + m] + Weights(s)[n] = Weights(s)[n + m] + Weights(t)[z]
    <2>1. Alike(t, z, s, n, m)
      BY <1>1, <1>2, <1>3 DEF Alike
    <2>. QED
      BY <2>1, StretchWeight
  <1>6. Weights(s)[Len(s)] \in Nat
    <2>1. Len(s) \in 0..Len(s)
      BY <1>1
    <2>. QED
      BY <2>1, WeightsSum
  <1>. QED
    BY <1>1, <1>4, <1>5, <1>6 DEF t, Weight

LEMMA RemoveWeight ==
    ASSUME NEW s \in Seq(Keys), NEW i \in 1..Len(s)
    PROVE  /\ RemoveAt(s, i) \in Seq(Keys)
           /\ Len(RemoveAt(s, i)) = Len(s) - 1
           /\ \A j \in 1..(Len(s) - 1) : RemoveAt(s, i)[j] = IF j < i THEN s[j] ELSE s[j + 1]
           /\ Weight(RemoveAt(s, i)) + Size[s[i]] = Weight(s)
  <1>. DEFINE t == RemoveAt(s, i)
              a == i - 1
              m == Len(s) - i
              front == SubSeq(s, 1, a)
              back == SubSeq(s, i + 1, Len(s))
  <1>1. /\ Len(s) \in Nat /\ i \in Nat /\ a \in Nat /\ m \in Nat
        /\ a + m = Len(s) - 1 /\ i + m = Len(s) /\ a + 1 = i /\ i - 1 = a
        /\ a \in 0..Len(s) /\ a + m \in 0..(Len(s) - 1) /\ Len(s) - 1 \in Nat
        /\ a \in 0..(Len(s) - 1) /\ i \in 0..Len(s) /\ Len(s) \in 0..Len(s)
    OBVIOUS
  <1>2. /\ front \in Seq(Keys) /\ Len(front) = a /\ \A j \in 1..a : front[j] = s[j]
        /\ back \in Seq(Keys) /\ Len(back) = m /\ \A j \in 1..m : back[j] = s[i + j]
    OBVIOUS
  <1>3. t = front \o back
    BY DEF RemoveAt
  <1>. HIDE DEF t, front, back
  <1>4. /\ t \in Seq(Keys) /\ Len(t) = Len(s) - 1
        /\ \A j \in 1..a : t[j] = s[j]
    <2>1. /\ t \in Seq(Keys) /\ Len(t) = a + m
          /\ \A j \in 1..a : t[j] = front[j]
      <3>1. /\ front \o back \in Seq(Keys)
            /\ Len(front \o back) = Len(front) + Len(back)
            /\ \A j \in 1..Len(front) + Len(back) :
                   (front \o back)[j] = IF j <= Len(front) THEN front[j] ELSE back[j - Len(front)]
        BY <1>2, ConcatProperties
      <3>2. \A j \in 1..a : j \in 1..(a + m) /\ j <= a
        BY <1>1
      <3>. HIDE DEF a, m
      <3>. QED
        BY <1>2, <1>3, <3>1, <3>2
    <2>. QED
      BY <1>1, <1>2, <2>1
  <1>5. \A j \in 1..m : t[a + j] = s[i + j]
    <2>1. \A j \in 1..m : t[a + j] = back[j]
      <3>1. \A j \in 1..Len(front) + Len(back) :
                (front \o back)[j] = IF j <= Len(front) THEN front[j] ELSE back[j - Len(front)]
        BY <1>2, ConcatProperties
      <3>2. \A j \in 1..m : a + j \in 1..(a + m) /\ ~(a + j <= a) /\ (a + j) - a = j
        BY <1>1
      <3>. HIDE DEF a, m
      <3>. QED
        BY <1>2, <1>3, <3>1, <3>2
    <2>. QED
      BY <1>2, <2>1
  <1>6. ASSUME NEW j \in 1..(Len(s) - 1)
        PROVE  t[j] = IF j < i THEN s[j] ELSE s[j + 1]
    <2>1. CASE j < i
      BY <1>4, <2>1
    <2>2. CASE ~(j < i)
      <3>1. j - a \in 1..m /\ a + (j - a) = j /\ i + (j - a) = j + 1
        BY <1>1, <2>2
      <3>2. t[a + (j - a)] = s[i + (j - a)]
        BY <1>5, <3>1
      <3>. QED
        BY <2>2, <3>1, <3>2
    <2>. QED
      BY <2>1, <2>2
  <1>7. a <= Len(s) /\ a <= Len(t) /\ a + m <= Len(t) /\ i + m <= Len(s)
    BY <1>1, <1>4
  <1>. HIDE DEF a, m
  <1>8. Weights(t)[a] = Weights(s)[a]
    BY <1>1, <1>4, <1>7, PrefixWeight, Zenon
  <1>9. Weights(t)[a + m] + Weights(s)[i] = Weights(s)[i + m] + Weights(t)[a]
    <2>1. Alike(t, a, s, i, m)
      BY <1>1, <1>4, <1>5, <1>7 DEF Alike
    <2>. QED
      BY <2>1, StretchWeight
  <1>10. Weights(s)[i] = Weights(s)[a] + Size[s[i]]
    BY <1>1, WeightsSum
  <1>11. /\ Weights(s)[a] \in Nat /\ Weights(s)[Len(s)] \in Nat
         /\ Weights(t)[a + m] \in Nat /\ Size[s[i]] \in Nat
    BY <1>1, <1>4, WeightsSum, SizeAssumption
  <1>12. Weights(t)[a + m] + Size[s[i]] = Weights(s)[i + m]
    <2>. DEFINE p == Weights(t)[a + m]
                q == Weights(s)[i + m]
                u == Weights(s)[a]
                d == Size[s[i]]
    <2>1. p \in Nat /\ q \in Nat /\ u \in Nat /\ d \in Nat /\ p + (u + d) = q + u
      BY <1>1, <1>8, <1>9, <1>10, <1>11
    <2>. HIDE DEF p, q, u, d
    <2>2. p + d = q
      BY <2>1
    <2>. QED
      BY <2>2 DEF p, q, d
  <1>. QED
    BY <1>1, <1>4, <1>6, <1>12 DEF t, Weight

-----------------------------------------------------------------------------
(* What get and put do to the cache.                                       *)

Within(x, s) == \E i \in DOMAIN s : s[i] = x
Distinct(s) == \A i, j \in DOMAIN s : s[i] = s[j] => i = j

\* The cache holds s, of b bytes.
Exact(s, b) ==
    /\ s \in Seq(Keys) /\ b \in Nat
    /\ b = Weight(s) /\ b <= MaxBytes
    /\ Distinct(s)

LEMMA AppendDistinct ==
    ASSUME NEW s \in Seq(Keys), Distinct(s), NEW k \in Keys, ~Within(k, s)
    PROVE  /\ Distinct(Append(s, k))
           /\ \A x : Within(x, Append(s, k)) <=> Within(x, s) \/ x = k
  <1>. DEFINE t == Append(s, k)
              n == Len(s) + 1
  <1>1. /\ Len(s) \in Nat /\ DOMAIN s = 1..Len(s) /\ DOMAIN t = 1..n
        /\ n \in 1..n /\ t[n] = k /\ n \notin 1..Len(s)
        /\ \A j \in 1..n : j # n => j \in 1..Len(s)
        /\ \A j \in 1..Len(s) : j \in 1..n /\ t[j] = s[j]
    OBVIOUS
  <1>. HIDE DEF t, n
  <1>2. Distinct(t)
    BY <1>1 DEF Distinct, Within
  <1>3. \A x : Within(x, t) <=> Within(x, s) \/ x = k
    BY <1>1 DEF Within
  <1>. QED
    BY <1>2, <1>3 DEF t

\* What is left without k.
LEMMA OthersFacts ==
    ASSUME Exact(cache, bytes), NEW k \in Keys
    PROVE  /\ Others(k) \in Seq(Keys) /\ Distinct(Others(k)) /\ ~Within(k, Others(k))
           /\ \A x : Within(x, Others(k)) <=> Cached(x) /\ x # k
           /\ Cached(k) => Weight(Others(k)) + Size[k] = bytes
           /\ ~Cached(k) => Others(k) = cache
  <1>. USE DEF Exact
  <1>1. CASE ~Cached(k)
    <2>1. Others(k) = cache
      BY <1>1 DEF Others
    <2>. QED
      BY <1>1, <2>1 DEF Cached, Within
  <1>2. CASE Cached(k)
    <2>1. PICK i \in DOMAIN cache : cache[i] = k /\ Others(k) = RemoveAt(cache, i)
      BY <1>2 DEF Cached, Others
    <2>. DEFINE t == Others(k)
    <2>2. i \in 1..Len(cache) /\ Len(cache) \in Nat /\ DOMAIN cache = 1..Len(cache)
      OBVIOUS
    <2>3. /\ t \in Seq(Keys) /\ Len(t) = Len(cache) - 1
          /\ \A j \in 1..(Len(cache) - 1) : t[j] = IF j < i THEN cache[j] ELSE cache[j + 1]
          /\ Weight(t) + Size[cache[i]] = Weight(cache)
      BY <2>1, <2>2, RemoveWeight
    <2>4. DOMAIN t = 1..(Len(cache) - 1)
      <3>. HIDE DEF t
      <3>. QED
        BY <2>3
    <2>. HIDE DEF t
    <2>5. \A j \in DOMAIN t : IF j < i THEN j \in DOMAIN cache ELSE j + 1 \in DOMAIN cache
      BY <2>2, <2>4
    <2>6. Distinct(t)
      <3>. SUFFICES ASSUME NEW j \in DOMAIN t, NEW l \in DOMAIN t, t[j] = t[l] PROVE j = l
        BY DEF Distinct
      <3>. DEFINE a == IF j < i THEN j ELSE j + 1
                  b == IF l < i THEN l ELSE l + 1
      <3>1. a \in DOMAIN cache /\ b \in DOMAIN cache /\ cache[a] = cache[b]
        BY <2>3, <2>4, <2>5
      <3>2. a = b
        BY <3>1 DEF Distinct
      <3>. QED
        BY <2>2, <2>4, <3>2
    <2>7. ~Within(k, t)
      <3>. SUFFICES ASSUME NEW j \in DOMAIN t, t[j] = k PROVE FALSE
        BY DEF Within
      <3>. DEFINE a == IF j < i THEN j ELSE j + 1
      <3>1. a \in DOMAIN cache /\ cache[a] = k /\ a # i
        BY <2>2, <2>3, <2>4, <2>5
      <3>. QED
        BY <2>1, <3>1 DEF Distinct
    <2>8. ASSUME NEW x, Within(x, t)
          PROVE  Cached(x)
      <3>1. PICK j \in DOMAIN t : t[j] = x
        BY <2>8 DEF Within
      <3>. DEFINE a == IF j < i THEN j ELSE j + 1
      <3>2. a \in DOMAIN cache /\ cache[a] = x
        BY <2>3, <2>4, <2>5, <3>1
      <3>. QED
        BY <3>2 DEF Cached
    <2>9. ASSUME NEW x, Cached(x), x # k
          PROVE  Within(x, t)
      <3>1. PICK j \in DOMAIN cache : cache[j] = x
        BY <2>9 DEF Cached
      <3>. DEFINE a == IF j < i THEN j ELSE j - 1
      <3>2. j # i
        BY <2>1, <2>9, <3>1
      <3>3. a \in DOMAIN t /\ t[a] = x
        BY <2>2, <2>3, <2>4, <3>1, <3>2
      <3>. QED
        BY <3>3 DEF Within
    <2>. QED
      BY <1>2, <2>1, <2>3, <2>6, <2>7, <2>8, <2>9 DEF t
  <1>. QED
    BY <1>1, <1>2

\* A hit changes the order alone.
LEMMA TouchFacts ==
    ASSUME Exact(cache, bytes), NEW k \in Keys, Cached(k), Touch(k), UNCHANGED bytes
    PROVE  Exact(cache, bytes)' /\ \A x : Cached(x)' <=> Cached(x)
  <1>. DEFINE s == Others(k)
  <1>1. /\ s \in Seq(Keys) /\ Distinct(s) /\ ~Within(k, s)
        /\ \A x : Within(x, s) <=> Cached(x) /\ x # k
        /\ Weight(s) + Size[k] = bytes
    BY OthersFacts
  <1>2. cache' = Append(s, k)
    BY DEF Touch
  <1>. HIDE DEF s
  <1>3. cache' \in Seq(Keys) /\ Weight(cache') = bytes
    BY <1>1, <1>2, AppendWeight
  <1>4. Distinct(cache') /\ \A x : Within(x, cache') <=> Within(x, s) \/ x = k
    BY <1>1, <1>2, AppendDistinct
  <1>5. Exact(cache, bytes)'
    BY <1>3, <1>4 DEF Exact
  <1>6. \A x : Cached(x)' <=> Within(x, cache')
    BY DEF Cached, Within
  <1>. QED
    BY <1>1, <1>4, <1>5, <1>6

\* put keeps the count exact and adds nothing but k.
LEMMA StoreFacts ==
    ASSUME Exact(cache, bytes), NEW k \in Keys, Store(k)
    PROVE  Exact(cache, bytes)' /\ \A x : Cached(x)' => Cached(x) \/ x = k
  <1>. DEFINE s == Others(k)
              held == IF Cached(k) THEN bytes - Size[k] ELSE bytes
  <1>1. /\ s \in Seq(Keys) /\ Distinct(s) /\ ~Within(k, s)
        /\ \A x : Within(x, s) <=> Cached(x) /\ x # k
        /\ Cached(k) => Weight(s) + Size[k] = bytes
        /\ ~Cached(k) => s = cache
    BY OthersFacts
  <1>2. \A x : Cached(x)' <=> Within(x, cache')
    BY DEF Cached, Within
  <1>3. /\ Size[k] \in Nat /\ MaxBytes \in Nat /\ bytes \in Nat /\ bytes <= MaxBytes
        /\ bytes = Weight(cache)
    BY SizeAssumption DEF Exact
  <1>4. Weight(s) \in Nat
    <2>. HIDE DEF s
    <2>1. Len(s) \in 0..Len(s)
      BY <1>1
    <2>. QED
      BY <1>1, <2>1, WeightsSum DEF Weight
  <1>5. held = Weight(s) /\ held \in Nat /\ held <= MaxBytes
    <2>. HIDE DEF s
    <2>. QED
      BY <1>1, <1>3, <1>4
  <1>6. CASE cache' = s /\ bytes' = held
    <2>. HIDE DEF s, held
    <2>. QED
      BY <1>1, <1>2, <1>5, <1>6 DEF Exact
  <1>7. ASSUME Size[k] <= MaxBytes, NEW n \in 0..Len(s), Evicts(s, held, Size[k], n),
               cache' = Append(SubSeq(s, n + 1, Len(s)), k),
               bytes' = held - Weights(s)[n] + Size[k]
        PROVE  Exact(cache, bytes)' /\ \A x : Cached(x)' => Cached(x) \/ x = k
    <2>. HIDE DEF s, held
    <2>. DEFINE u == SubSeq(s, n + 1, Len(s))
    <2>1. /\ u \in Seq(Keys) /\ Len(s) \in Nat /\ n \in Nat /\ Len(u) = Len(s) - n
          /\ DOMAIN u = 1..(Len(s) - n) /\ DOMAIN s = 1..Len(s)
          /\ \A j \in 1..(Len(s) - n) : u[j] = s[n + j] /\ n + j \in 1..Len(s)
      BY <1>1
    <2>2. Weight(u) + Weights(s)[n] = Weight(s)
      BY <1>1, SuffixWeight
    <2>3. cache' = Append(u, k)
      BY <1>7
    <2>. HIDE DEF u
    <2>4. Distinct(u) /\ \A x : Within(x, u) => Within(x, s)
      <3>1. ASSUME NEW i \in DOMAIN u, NEW j \in DOMAIN u, u[i] = u[j]
            PROVE  i = j
        <4>. DEFINE a == n + i
                    b == n + j
        <4>1. /\ i \in Nat /\ j \in Nat /\ a \in DOMAIN s /\ b \in DOMAIN s
              /\ s[a] = s[b]
          BY <2>1, <3>1
        <4>2. a = b
          <5>. HIDE DEF a, b
          <5>. QED
            BY <1>1, <4>1 DEF Distinct
        <4>. QED
          BY <2>1, <4>1, <4>2
      <3>2. ASSUME NEW x, NEW j \in DOMAIN u, u[j] = x
            PROVE  Within(x, s)
        BY <2>1, <3>2 DEF Within
      <3>. QED
        BY <3>1, <3>2 DEF Distinct, Within
    <2>5. ~Within(k, u)
      BY <1>1, <2>4
    <2>6. cache' \in Seq(Keys) /\ Weight(cache') = Weight(u) + Size[k]
      BY <2>1, <2>3, AppendWeight
    <2>7. Distinct(cache') /\ \A x : Within(x, cache') <=> Within(x, u) \/ x = k
      BY <2>1, <2>3, <2>4, <2>5, AppendDistinct
    <2>8. Weights(s)[n] \in Nat /\ Weight(u) \in Nat
      <3>1. Len(u) \in 0..Len(u)
        BY <2>1
      <3>. QED
        BY <1>1, <2>1, <3>1, WeightsSum DEF Weight
    <2>9. n = Len(s) => Weights(s)[n] = Weight(s)
      BY DEF Weight
    <2>10. Weight(u) + Size[k] <= MaxBytes /\ bytes' = Weight(u) + Size[k] /\ bytes' \in Nat
      <3>. DEFINE y == Weight(u)
                  z == Size[k]
                  w == Weights(s)[n]
      <3>1. n = Len(s) \/ held + z <= MaxBytes + w
        BY <1>7 DEF Evicts
      <3>2. y \in Nat /\ z \in Nat /\ w \in Nat /\ y + w = held /\ z <= MaxBytes
        BY <1>3, <1>5, <1>7, <2>2, <2>8
      <3>3. n = Len(s) => w = held
        BY <1>5, <2>9
      <3>4. bytes' = held - w + z
        BY <1>7
      <3>. HIDE DEF y, z, w
      <3>5. y + z <= MaxBytes
        BY <1>3, <1>5, <3>1, <3>2, <3>3
      <3>6. bytes' = y + z /\ bytes' \in Nat
        BY <1>5, <3>2, <3>4
      <3>. QED
        BY <3>5, <3>6 DEF y, z
    <2>11. Exact(cache, bytes)'
      BY <2>6, <2>7, <2>10 DEF Exact
    <2>. QED
      BY <1>1, <1>2, <2>4, <2>7, <2>11
  <1>. QED
    BY <1>6, <1>7 DEF Store

-----------------------------------------------------------------------------
(* Types, and the bytes.                                                   *)

\* A worker between two chunks has one to go to, and one at a flight has it.
Ready(w) ==
    /\ w.pc \in Waiting \cup {"lookup"} => Len(w.got) < Len(w.read)
    /\ w.pc \in Waiting => w.flight \in Flights

WorkersOK == worker \in [Workers -> WorkerType] /\ \A t \in Workers : Ready(worker[t])

CacheOK == Exact(cache, bytes)

TablesOK ==
    /\ inflight \in [Keys -> Flights \cup {0}]
    /\ flights \in [Flights -> [set : BOOLEAN, value : Keys \cup {NoValue, Failure}]]

LoopOK ==
    /\ loop \in [read : Seq(Keys), seen : Nat]
    /\ loop # NoProbe => /\ loop.read \in Reads /\ loop.seen < Len(loop.read)
                         /\ Len(queue) < MaxQueue
    /\ queue \in Seq(Reads) /\ Len(queue) <= MaxQueue
    /\ closed \in BOOLEAN

TypeInv == CacheOK /\ TablesOK /\ WorkersOK /\ LoopOK

LEMMA WorkerFacts ==
    ASSUME TypeInv, NEW t \in Workers
    PROVE  /\ worker[t] \in WorkerType /\ Ready(worker[t])
           /\ worker[t].pc \in Waiting \cup {"lookup"}
                 => Wanted(t) \in Keys /\ Len(worker[t].got) + 1 \in 1..Len(worker[t].read)
           /\ worker[t].pc \in Waiting => worker[t].flight \in Flights
  <1>1. worker[t] \in WorkerType /\ Ready(worker[t])
    BY DEF TypeInv, WorkersOK
  <1>2. worker[t].read \in Seq(Keys) /\ Len(worker[t].got) \in Nat
    BY <1>1 DEF WorkerType
  <1>3. ASSUME worker[t].pc \in Waiting \cup {"lookup"}
        PROVE  Len(worker[t].got) + 1 \in 1..Len(worker[t].read)
    BY <1>1, <1>2, <1>3 DEF Ready
  <1>4. ASSUME worker[t].pc \in Waiting \cup {"lookup"}
        PROVE  Wanted(t) \in Keys
    BY <1>2, <1>3, <1>4 DEF Wanted
  <1>. QED
    BY <1>1, <1>3, <1>4 DEF Ready

LEMMA SetWorker ==
    ASSUME TypeInv, NEW t \in Workers, NEW w \in WorkerType, Ready(w),
           worker' = [worker EXCEPT ![t] = w]
    PROVE  WorkersOK'
  <1>1. worker \in [Workers -> WorkerType] /\ \A u \in Workers : Ready(worker[u])
    BY DEF TypeInv, WorkersOK
  <1>2. worker' \in [Workers -> WorkerType]
    BY <1>1
  <1>3. ASSUME NEW u \in Workers
        PROVE  Ready(worker'[u])
    BY <1>1
  <1>. QED
    BY <1>2, <1>3 DEF WorkersOK, Ready, Flights

LEMMA IdleOK == Idle \in WorkerType /\ Ready(Idle)
  BY DEF Idle, WorkerType, Ready, Waiting

LEMMA GotoOK ==
    ASSUME TypeInv, NEW t \in Workers, worker[t].pc \in Owning,
           NEW pc \in {"put", "land", "wake"}, Goto(t, pc)
    PROVE  WorkersOK'
  <1>. DEFINE w == [worker[t] EXCEPT !.pc = pc]
  <1>1. worker[t] \in WorkerType /\ Ready(worker[t]) /\ worker[t].pc \in Waiting
    BY WorkerFacts DEF Owning, Waiting
  <1>2. w \in WorkerType /\ Ready(w)
    BY <1>1 DEF WorkerType, Ready, Waiting
  <1>3. worker' = [worker EXCEPT ![t] = w]
    BY DEF Goto
  <1>. QED
    BY <1>2, <1>3, SetWorker

LEMMA ReceiveOK ==
    ASSUME TypeInv, NEW t \in Workers, worker[t].pc \in Waiting \cup {"lookup"},
           NEW v \in Keys \cup {NoValue}, Receive(t, v)
    PROVE  WorkersOK'
  <1>. DEFINE got == Append(worker[t].got, v)
              w == [pc |-> IF Len(got) = Len(worker[t].read) THEN "answer" ELSE "lookup",
                    read |-> worker[t].read, got |-> got, flight |-> 0]
  <1>1. /\ worker[t] \in WorkerType
        /\ Len(worker[t].got) + 1 \in 1..Len(worker[t].read)
    BY WorkerFacts
  <1>2. /\ got \in Seq(Keys \cup {NoValue}) /\ Len(got) = Len(worker[t].got) + 1
        /\ Len(worker[t].read) \in Nat
    BY <1>1 DEF WorkerType
  <1>3. w \in WorkerType /\ Ready(w)
    <2>. HIDE DEF got
    <2>1. w \in WorkerType
      BY <1>1, <1>2 DEF WorkerType
    <2>2. Ready(w)
      BY <1>1, <1>2 DEF Ready, Waiting
    <2>. QED
      BY <2>1, <2>2
  <1>4. worker' = [worker EXCEPT ![t] = w]
    BY DEF Receive
  <1>. QED
    BY <1>3, <1>4, SetWorker

LEMMA EmptyOK == Exact(<<>>, 0) /\ NoProbe \in [read : Seq(Keys), seen : Nat]
  <1>. DEFINE none == <<>>
  <1>1. none \in Seq(Keys) /\ Len(none) = 0 /\ DOMAIN none = {}
    OBVIOUS
  <1>2. Weight(none) = 0
    <2>. HIDE DEF none
    <2>. QED
      BY <1>1, WeightsSum DEF Weight
  <1>3. Exact(none, 0)
    <2>. HIDE DEF none
    <2>. QED
      BY <1>1, <1>2, SizeAssumption DEF Exact, Distinct
  <1>4. NoProbe \in [read : Seq(Keys), seen : Nat]
    BY DEF NoProbe
  <1>. QED
    BY <1>3, <1>4

LEMMA TypeInit == Init => TypeInv
  <1>. SUFFICES ASSUME Init PROVE TypeInv
    OBVIOUS
  <1>1. CacheOK
    BY EmptyOK DEF Init, CacheOK
  <1>2. WorkersOK
    BY IdleOK DEF Init, WorkersOK
  <1>3. TablesOK
    BY DEF Init, TablesOK
  <1>4. LoopOK
    <2>1. loop \in [read : Seq(Keys), seen : Nat]
      BY EmptyOK DEF Init
    <2>2. queue \in Seq(Reads) /\ Len(queue) <= MaxQueue
      BY QueueAssumption DEF Init
    <2>. QED
      BY <2>1, <2>2 DEF Init, LoopOK
  <1>. QED
    BY <1>1, <1>2, <1>3, <1>4 DEF TypeInv

\* Each part of TypeInv is about some of the variables.
LEMMA Unaffected ==
    /\ CacheOK /\ UNCHANGED <<cache, bytes>> => CacheOK'
    /\ TablesOK /\ UNCHANGED <<inflight, flights>> => TablesOK'
    /\ WorkersOK /\ UNCHANGED worker => WorkersOK'
    /\ LoopOK /\ UNCHANGED <<loop, queue, closed>> => LoopOK'
  <1>1. CacheOK /\ UNCHANGED <<cache, bytes>> => CacheOK'
    BY DEF CacheOK, Exact, Distinct
  <1>2. TablesOK /\ UNCHANGED <<inflight, flights>> => TablesOK'
    BY DEF TablesOK, Flights
  <1>3. WorkersOK /\ UNCHANGED worker => WorkersOK'
    BY DEF WorkersOK, Ready, Flights, WorkerType
  <1>4. LoopOK /\ UNCHANGED <<loop, queue, closed>> => LoopOK'
    BY DEF LoopOK
  <1>. QED
    BY <1>1, <1>2, <1>3, <1>4

LEMMA LoopType ==
    ASSUME TypeInv, (\E r \in Reads : Request(r)) \/ ProbeHit \/ ProbeMiss \/ Close
    PROVE  TypeInv'
  <1>1. CacheOK /\ TablesOK /\ WorkersOK /\ LoopOK
    BY DEF TypeInv
  <1>2. /\ loop \in [read : Seq(Keys), seen : Nat] /\ Reads \subseteq Seq(Keys)
        /\ queue \in Seq(Reads) /\ Len(queue) \in Nat /\ Len(queue) <= MaxQueue
        /\ \A r \in Reads : Len(r) \in Nat /\ 0 < Len(r)
        /\ MaxQueue \in Nat /\ closed \in BOOLEAN
    <2>1. \A r \in Reads : r \in Seq(Keys) /\ r # <<>>
      BY ReadsAssumption
    <2>2. \A r \in Reads : Len(r) # 0
      BY <2>1, EmptySeq
    <2>. QED
      BY <1>1, <2>1, <2>2, QueueAssumption DEF LoopOK
  <1>3. TablesOK' /\ WorkersOK'
    BY <1>1, Unaffected DEF Request, ProbeHit, ProbeMiss, Close
  <1>4. ASSUME NEW r \in Reads, Request(r)
        PROVE  TypeInv'
    <2>1. LoopOK'
      BY <1>2, <1>4 DEF Request, LoopOK
    <2>. QED
      BY <1>1, <1>3, <1>4, <2>1, Unaffected DEF Request, TypeInv
  <1>5. CASE ProbeHit
    <2>. DEFINE k == loop.read[loop.seen + 1]
    <2>1. loop # NoProbe /\ loop.read \in Reads /\ loop.seen < Len(loop.read)
      BY <1>1, <1>5 DEF ProbeHit, LoopOK
    <2>2. loop.seen + 1 \in 1..Len(loop.read) /\ k \in Keys
      BY <1>2, <2>1
    <2>3. CacheOK'
      BY <1>1, <1>5, <2>2, TouchFacts DEF ProbeHit, CacheOK
    <2>4. LoopOK'
      <3>1. \/ loop' = NoProbe
            \/ /\ loop' = [loop EXCEPT !.seen = @ + 1]
               /\ loop.seen + 1 # Len(loop.read)
        BY <1>5 DEF ProbeHit
      <3>2. loop' \in [read : Seq(Keys), seen : Nat]
        <4>1. [loop EXCEPT !.seen = @ + 1] \in [read : Seq(Keys), seen : Nat]
          <5>1. loop.seen + 1 \in Nat
            BY <1>2
          <5>. HIDE DEF k
          <5>. QED
            BY <1>2, <5>1
        <4>. QED
          BY <3>1, <4>1, EmptyOK
      <3>3. loop' # NoProbe => loop'.read \in Reads /\ loop'.seen < Len(loop'.read)
        BY <1>2, <2>1, <2>2, <3>1
      <3>4. Len(queue) < MaxQueue
        BY <1>1, <1>5 DEF ProbeHit, LoopOK
      <3>. QED
        BY <1>2, <1>5, <3>2, <3>3, <3>4 DEF ProbeHit, LoopOK
    <2>. QED
      BY <1>3, <2>3, <2>4 DEF TypeInv
  <1>6. CASE ProbeMiss
    <2>1. loop.read \in Reads /\ Len(queue) < MaxQueue
      BY <1>1, <1>6 DEF ProbeMiss, LoopOK
    <2>2. queue' \in Seq(Reads) /\ Len(queue') <= MaxQueue /\ loop' = NoProbe
      BY <1>2, <1>6, <2>1 DEF ProbeMiss
    <2>3. LoopOK'
      BY <1>2, <1>6, <2>2, EmptyOK DEF ProbeMiss, LoopOK
    <2>. QED
      BY <1>1, <1>3, <1>6, <2>3, Unaffected DEF ProbeMiss, TypeInv
  <1>7. CASE Close
    <2>1. CacheOK'
      BY <1>7, EmptyOK DEF Close, CacheOK
    <2>2. LoopOK'
      <3>1. <<>> \in Seq(Reads) /\ Len(queue') = 0
        BY <1>7 DEF Close
      <3>. QED
        BY <1>2, <1>7, <3>1, EmptyOK DEF Close, LoopOK
    <2>. QED
      BY <1>3, <2>1, <2>2 DEF TypeInv
  <1>. QED
    BY <1>4, <1>5, <1>6, <1>7

LEMMA WorkType ==
    ASSUME TypeInv, NEW t \in Workers, Take(t) \/ Work(t)
    PROVE  TypeInv'
  <1>1. CacheOK /\ TablesOK /\ WorkersOK /\ LoopOK
    BY DEF TypeInv
  <1>2. /\ worker[t] \in WorkerType /\ Ready(worker[t])
        /\ worker[t].pc \in Waiting \cup {"lookup"} => Wanted(t) \in Keys
        /\ worker[t].pc \in Waiting => worker[t].flight \in Flights
    BY WorkerFacts
  <1>3. CASE Take(t)
    <2>. DEFINE w == [pc |-> "lookup", read |-> Head(queue), got |-> <<>>, flight |-> 0]
    <2>1. queue \in Seq(Reads) /\ queue # <<>> /\ Len(queue) <= MaxQueue
      BY <1>1, <1>3 DEF Take, LoopOK
    <2>2. Head(queue) \in Reads /\ Tail(queue) \in Seq(Reads) /\ Len(Tail(queue)) = Len(queue) - 1
      BY <2>1
    <2>3. Head(queue) \in Seq(Keys) /\ Head(queue) # <<>>
      BY <2>2, ReadsAssumption
    <2>4. w \in WorkerType /\ Ready(w)
      <3>1. Len(Head(queue)) \in Nat /\ Len(Head(queue)) # 0 /\ Len(<<>>) = 0
        BY <2>3, EmptySeq
      <3>2. w \in WorkerType
        BY <2>3 DEF WorkerType
      <3>3. Ready(w)
        BY <3>1 DEF Ready, Waiting
      <3>. QED
        BY <3>2, <3>3
    <2>5. WorkersOK'
      BY <1>3, <2>4, SetWorker DEF Take
    <2>6. LoopOK'
      <3>1. Len(queue) \in Nat /\ MaxQueue \in Nat
        BY <2>1, QueueAssumption
      <3>. QED
        BY <1>1, <1>3, <2>1, <2>2, <3>1 DEF Take, LoopOK
    <2>. QED
      BY <1>1, <1>3, <2>5, <2>6, Unaffected DEF Take, TypeInv
  <1>4. ASSUME Work(t)
        PROVE  LoopOK'
    BY <1>1, <1>4, Unaffected DEF Work, Hit, Join, Own, Decode, Put, Land, Wake, Resume, Answer
  <1>5. CASE Hit(t)
    <2>1. CacheOK'
      BY <1>1, <1>2, <1>5, TouchFacts DEF Hit, At, CacheOK
    <2>2. WorkersOK'
      BY <1>2, <1>5, ReceiveOK DEF Hit, At
    <2>. QED
      BY <1>1, <1>4, <1>5, <2>1, <2>2, Unaffected DEF Hit, Work, TypeInv
  <1>6. CASE Join(t)
    <2>. DEFINE w == [worker[t] EXCEPT !.pc = "wait", !.flight = inflight[Wanted(t)]]
    <2>1. worker[t].pc = "lookup" /\ inflight[Wanted(t)] \in Flights
      BY <1>1, <1>2, <1>6 DEF Join, At, TablesOK
    <2>2. w \in WorkerType /\ Ready(w)
      BY <1>2, <2>1 DEF WorkerType, Ready, Waiting
    <2>3. worker' = [worker EXCEPT ![t] = w]
      BY <1>6 DEF Join
    <2>4. WorkersOK'
      <3>. HIDE DEF w
      <3>. QED
        BY <2>2, <2>3, SetWorker
    <2>. QED
      BY <1>1, <1>4, <1>6, <2>4, Unaffected DEF Join, Work, TypeInv
  <1>7. CASE Own(t)
    <2>1. PICK f \in Flights :
             /\ inflight' = [inflight EXCEPT ![Wanted(t)] = f]
             /\ flights' = [flights EXCEPT ![f] = [set |-> FALSE, value |-> NoValue]]
             /\ worker' = [worker EXCEPT ![t].pc = "decode", ![t].flight = f]
      BY <1>7 DEF Own, Unused
    <2>. DEFINE w == [worker[t] EXCEPT !.pc = "decode", !.flight = f]
    <2>2. worker[t].pc = "lookup"
      BY <1>7 DEF Own, At
    <2>3. w \in WorkerType /\ Ready(w)
      BY <1>2, <2>2 DEF WorkerType, Ready, Waiting
    <2>4. worker' = [worker EXCEPT ![t] = w]
      BY <2>1
    <2>5. WorkersOK'
      <3>. HIDE DEF w
      <3>. QED
        BY <2>3, <2>4, SetWorker
    <2>6. TablesOK'
      BY <1>1, <2>1 DEF TablesOK, Flights
    <2>. QED
      BY <1>1, <1>4, <1>7, <2>5, <2>6, Unaffected DEF Own, Work, TypeInv
  <1>8. CASE Decode(t)
    <2>1. TablesOK'
      BY <1>1, <1>2, <1>8 DEF Decode, At, TablesOK, Flights, Waiting
    <2>2. WorkersOK'
      BY <1>8, GotoOK DEF Decode, At, Owning
    <2>. QED
      BY <1>1, <1>4, <1>8, <2>1, <2>2, Unaffected DEF Decode, Work, TypeInv
  <1>9. CASE Put(t)
    <2>1. CacheOK'
      BY <1>1, <1>2, <1>9, StoreFacts DEF Put, At, CacheOK, Waiting
    <2>2. WorkersOK'
      BY <1>9, GotoOK DEF Put, At, Owning
    <2>. QED
      BY <1>1, <1>4, <1>9, <2>1, <2>2, Unaffected DEF Put, Work, TypeInv
  <1>10. CASE Land(t)
    <2>1. TablesOK'
      BY <1>1, <1>2, <1>10 DEF Land, At, TablesOK, Flights, Waiting
    <2>2. WorkersOK'
      BY <1>10, GotoOK DEF Land, At, Owning
    <2>. QED
      BY <1>1, <1>4, <1>10, <2>1, <2>2, Unaffected DEF Land, Work, TypeInv
  <1>11. CASE Wake(t)
    <2>1. TablesOK'
      BY <1>1, <1>2, <1>11 DEF Wake, At, TablesOK, Flights, Waiting
    <2>2. WorkersOK'
      BY <1>2, <1>11, ReceiveOK, SetWorker, IdleOK DEF Wake, At, Waiting, Fail
    <2>. QED
      BY <1>1, <1>4, <1>11, <2>1, <2>2, Unaffected DEF Wake, Work, TypeInv
  <1>12. CASE Resume(t)
    <2>1. flights[worker[t].flight].value \in Keys \cup {NoValue, Failure}
      BY <1>1, <1>2, <1>12 DEF Resume, At, TablesOK, Waiting
    <2>2. WorkersOK'
      BY <1>2, <1>12, <2>1, ReceiveOK, SetWorker, IdleOK DEF Resume, At, Waiting, Fail
    <2>. QED
      BY <1>1, <1>4, <1>12, <2>2, Unaffected DEF Resume, Work, TypeInv
  <1>13. CASE Answer(t)
    <2>1. WorkersOK'
      BY <1>13, SetWorker, IdleOK DEF Answer
    <2>. QED
      BY <1>1, <1>4, <1>13, <2>1, Unaffected DEF Answer, Work, TypeInv
  <1>. QED
    BY <1>3, <1>5, <1>6, <1>7, <1>8, <1>9, <1>10, <1>11, <1>12, <1>13 DEF Work

LEMMA TypeStep == TypeInv /\ [Next]_vars => TypeInv'
  <1>. SUFFICES ASSUME TypeInv, [Next]_vars PROVE TypeInv'
    OBVIOUS
  <1>1. CASE UNCHANGED vars
    BY <1>1, Unaffected DEF TypeInv, vars
  <1>. QED
    BY <1>1, LoopType, WorkType DEF Next

\* Every variable of every reachable state has its type.
THEOREM CacheTypes == Spec => []TypeOK
  <1>1. TypeInv => TypeOK
    <2>1. Seq(Reads) \subseteq Seq(Seq(Keys))
      BY ReadsAssumption
    <2>. QED
      BY <2>1 DEF TypeInv, TypeOK, CacheOK, Exact, TablesOK, WorkersOK, LoopOK
  <1>. QED
    BY <1>1, TypeInit, TypeStep, PTL DEF Spec

\* current_bytes is the bytes of the chunks that are cached and never more
\* than max_bytes, however many threads put and however often the cache is
\* cleared under them.
THEOREM Bytes == Spec => []BytesExact
  <1>1. TypeInv => BytesExact
    BY DEF TypeInv, CacheOK, Exact, BytesExact, Distinct
  <1>. QED
    BY <1>1, TypeInit, TypeStep, PTL DEF Spec

-----------------------------------------------------------------------------
(* Flights.                                                                *)

Flying == Owning \cup {"wake"}
Holding(t) == worker[t].pc \in Flying

\* The owner of a flight is alone, has it in the table until it lands, and
\* sets its event last.
Owners ==
    /\ \A t \in Workers : worker[t].pc \in Owning => inflight[Wanted(t)] = worker[t].flight
    /\ \A t \in Workers : Holding(t) => ~flights[worker[t].flight].set
    /\ \A t, u \in Workers :
          Holding(t) /\ Holding(u) /\ worker[t].flight = worker[u].flight => t = u

\* What a flight hands over is the chunk, or the failure to decode it.
Outcomes ==
    \A t \in Workers :
       /\ At(t, "put") => flights[worker[t].flight].value = Wanted(t)
       /\ At(t, "land") \/ At(t, "wake")
             => flights[worker[t].flight].value \in {Wanted(t), Failure}
       /\ At(t, "wait") /\ flights[worker[t].flight].set
             => flights[worker[t].flight].value \in {Wanted(t), Failure}

\* A chunk that is being produced is not cached.
Uncached == \A t \in Workers : worker[t].pc \in {"decode", "put"} => ~Cached(Wanted(t))

FlightInv == Owners /\ FlightsOwned /\ Outcomes /\ Uncached /\ RightPieces

LEMMA FlightInit == Init => FlightInv
  <1>. SUFFICES ASSUME Init PROVE FlightInv
    OBVIOUS
  <1>1. \A t \in Workers : worker[t].pc = "idle" /\ worker[t].got = <<>> /\ worker[t].read = <<>>
    BY DEF Init, Idle
  <1>2. Owners /\ Outcomes /\ Uncached
    BY <1>1 DEF Owners, Outcomes, Uncached, Holding, Flying, Owning, At
  <1>3. FlightsOwned
    BY <1>1 DEF Init, FlightsOwned, At
  <1>4. RightPieces
    <2>1. Len(<<>>) = 0 /\ SubSeq(<<>>, 1, 0) = <<>>
      OBVIOUS
    <2>. QED
      BY <1>1, <2>1 DEF RightPieces
  <1>. QED
    BY <1>2, <1>3, <1>4 DEF FlightInv

\* Only t moves, and it takes no piece it should not.
Moves(t) ==
    /\ \A u \in Workers : u # t => worker'[u] = worker[u]
    /\ worker'[t].got = SubSeq(worker'[t].read, 1, Len(worker'[t].got))

\* A worker with no flight of its own, before and after.
LEMMA Aside ==
    ASSUME FlightInv, NEW t \in Workers, ~Holding(t), worker'[t].pc \notin Waiting, Moves(t),
           UNCHANGED <<inflight, flights>>, \A x : Cached(x)' => Cached(x)
    PROVE  FlightInv'
  <1>1. /\ \A u \in Workers : u # t => worker'[u] = worker[u] /\ Wanted(u)' = Wanted(u)
        /\ worker'[t].pc \notin Flying /\ worker'[t].pc # "wait" /\ worker[t].pc \notin Flying
    BY DEF Moves, Wanted, Waiting, Flying, Owning, Holding
  <1>2. Owners'
    BY <1>1 DEF FlightInv, Owners, Holding, Flying
  <1>3. FlightsOwned'
    BY <1>1 DEF FlightInv, FlightsOwned, Flying, At
  <1>4. Outcomes'
    BY <1>1 DEF FlightInv, Outcomes, At, Flying, Owning
  <1>5. Uncached'
    BY <1>1 DEF FlightInv, Uncached, Flying, Owning
  <1>6. RightPieces'
    BY <1>1 DEF FlightInv, RightPieces, Moves
  <1>. QED
    BY <1>2, <1>3, <1>4, <1>5, <1>6 DEF FlightInv

\* Getting the chunk that is wanted makes one more right piece.
LEMMA ReceivePiece ==
    ASSUME TypeInv, FlightInv, NEW t \in Workers, worker[t].pc \in Waiting \cup {"lookup"},
           Receive(t, Wanted(t))
    PROVE  Moves(t) /\ worker'[t].pc \notin Waiting
  <1>. DEFINE read == worker[t].read
              n == Len(worker[t].got)
              got == Append(worker[t].got, Wanted(t))
  <1>1. worker \in [Workers -> WorkerType]
    BY DEF TypeInv, WorkersOK
  <1>2. /\ worker'[t].read = read /\ worker'[t].got = got
        /\ worker'[t].pc \in {"answer", "lookup"}
        /\ \A u \in Workers : u # t => worker'[u] = worker[u]
    BY <1>1 DEF Receive
  <1>3. /\ read \in Seq(Keys) /\ worker[t].got \in Seq(Keys \cup {NoValue})
        /\ n \in Nat /\ n + 1 \in 1..Len(read) /\ Wanted(t) = read[n + 1]
        /\ Wanted(t) \in Keys
    BY WorkerFacts DEF WorkerType, Wanted
  <1>4. worker[t].got = SubSeq(read, 1, n)
    BY DEF FlightInv, RightPieces
  <1>5. got = SubSeq(read, 1, n + 1) /\ Len(got) = n + 1
    <2>1. 1 \in 1..Len(read) /\ n + 1 \in 1..Len(read) /\ (n + 1) - 1 = n
      BY <1>3
    <2>2. SubSeq(read, 1, n + 1) = SubSeq(read, 1, n) \o <<read[n + 1]>>
      BY <1>3, <2>1, SubSeqRecursiveSecond
    <2>3. got = worker[t].got \o <<Wanted(t)>> /\ Len(got) = n + 1
      <3>. DEFINE S == Keys \cup {NoValue}
      <3>1. worker[t].got \in Seq(S) /\ Wanted(t) \in S
        BY <1>3
      <3>. HIDE DEF S
      <3>. QED
        BY <3>1, AppendIsConcat, AppendProperties
    <2>. HIDE DEF read, n, got
    <2>. QED
      BY <1>3, <1>4, <2>2, <2>3
  <1>6. worker'[t].got = SubSeq(worker'[t].read, 1, Len(worker'[t].got))
    <2>. HIDE DEF read, n, got
    <2>. QED
      BY <1>2, <1>5
  <1>. QED
    BY <1>2, <1>6 DEF Moves, Waiting

\* Two owners want different chunks: a chunk has one flight in the table.
LEMMA Rivals ==
    ASSUME Owners, NEW t \in Workers, NEW u \in Workers,
           worker[t].pc \in Owning, worker[u].pc \in Owning, t # u
    PROVE  Wanted(t) # Wanted(u)
  <1>1. inflight[Wanted(t)] = worker[t].flight /\ inflight[Wanted(u)] = worker[u].flight
    BY DEF Owners
  <1>2. worker[t].flight # worker[u].flight
    BY DEF Owners, Holding, Flying
  <1>. QED
    BY <1>1, <1>2

\* Only t moves, to pc, and it goes on with the same chunk.
GoesTo(t, pc) ==
    /\ \A u \in Workers : u # t => worker'[u] = worker[u]
    /\ \A u \in Workers : Wanted(u)' = Wanted(u)
    /\ worker'[t].pc = pc
    /\ worker'[t].read = worker[t].read /\ worker'[t].got = worker[t].got

LEMMA GotoFacts ==
    ASSUME TypeInv, NEW t \in Workers, NEW pc, Goto(t, pc)
    PROVE  GoesTo(t, pc) /\ worker'[t].flight = worker[t].flight
  <1>1. worker \in [Workers -> WorkerType]
    BY DEF TypeInv, WorkersOK
  <1>. QED
    BY <1>1 DEF Goto, GoesTo, Wanted, WorkerType

\* The pieces of a worker do not change while it is about the same chunk.
LEMMA SamePieces ==
    ASSUME RightPieces, NEW t \in Workers, NEW pc, GoesTo(t, pc)
    PROVE  RightPieces'
  <1>1. ASSUME NEW u \in Workers
        PROVE  worker'[u].got = worker[u].got /\ worker'[u].read = worker[u].read
    BY DEF GoesTo
  <1>. QED
    BY <1>1 DEF RightPieces

\* The flight that t joins has an owner, so its event is not set yet.
LEMMA JoinFlights ==
    ASSUME TypeInv, FlightInv, NEW t \in Workers, Join(t)
    PROVE  FlightInv'
  <1>. DEFINE k == Wanted(t)
              f == inflight[k]
  <1>1. worker \in [Workers -> WorkerType] /\ worker[t].pc = "lookup" /\ k \in Keys /\ f # 0
    BY WorkerFacts DEF TypeInv, WorkersOK, Join, At
  <1>2. GoesTo(t, "wait") /\ worker'[t].flight = f
    BY <1>1 DEF Join, GoesTo, Wanted, WorkerType
  <1>. HIDE DEF f, k
  <1>3. /\ \A u \in Workers : u # t => worker'[u] = worker[u]
        /\ \A u \in Workers : Wanted(u)' = Wanted(u)
        /\ worker'[t].pc = "wait" /\ worker'[t].flight = f
        /\ inflight' = inflight /\ flights' = flights /\ cache' = cache
    BY <1>2 DEF GoesTo, Join
  <1>4. PICK o \in Workers : worker[o].pc \in Owning /\ worker[o].flight = f /\ Wanted(o) = k
    BY <1>1 DEF FlightInv, FlightsOwned, f
  <1>5. o # t /\ ~flights[f].set
    BY <1>1, <1>4 DEF FlightInv, Owners, Holding, Flying, Owning
  <1>6. Owners'
    BY <1>3 DEF FlightInv, Owners, Holding, Flying, Owning
  <1>7. FlightsOwned'
    <2>1. ASSUME NEW u \in Workers, At(u, "wait")'
          PROVE  \/ flights'[worker'[u].flight].set
                 \/ \E v \in Workers : /\ worker'[v].pc \in Owning \cup {"wake"}
                                       /\ worker'[v].flight = worker'[u].flight
                                       /\ Wanted(v)' = Wanted(u)'
      <3>1. CASE u = t
        BY <1>3, <1>4, <1>5, <3>1 DEF k
      <3>2. CASE u # t
        BY <1>1, <1>3, <2>1, <3>2 DEF FlightInv, FlightsOwned, Owning, At
      <3>. QED
        BY <3>1, <3>2
    <2>2. ASSUME NEW x \in Keys, inflight'[x] # 0
          PROVE  \E v \in Workers : /\ worker'[v].pc \in Owning
                                    /\ worker'[v].flight = inflight'[x]
                                    /\ Wanted(v)' = x
      BY <1>1, <1>3, <2>2 DEF FlightInv, FlightsOwned, Owning
    <2>. QED
      BY <2>1, <2>2 DEF FlightsOwned
  <1>8. Outcomes'
    BY <1>3, <1>5 DEF FlightInv, Outcomes, At
  <1>9. Uncached'
    BY <1>3 DEF FlightInv, Uncached, Cached
  <1>10. RightPieces'
    BY <1>2, SamePieces DEF FlightInv
  <1>. QED
    BY <1>6, <1>7, <1>8, <1>9, <1>10 DEF FlightInv

\* Nobody refers to the flight that t starts, and nobody owns its chunk.
LEMMA OwnFlights ==
    ASSUME TypeInv, FlightInv, NEW t \in Workers, Own(t)
    PROVE  FlightInv'
  <1>. DEFINE k == Wanted(t)
  <1>1. /\ worker \in [Workers -> WorkerType] /\ worker[t].pc = "lookup" /\ k \in Keys
        /\ inflight[k] = 0 /\ ~Cached(k)
        /\ inflight \in [Keys -> Flights \cup {0}]
        /\ DOMAIN flights = Flights
    BY WorkerFacts DEF TypeInv, WorkersOK, TablesOK, Own, At
  <1>2. PICK f \in Flights :
           /\ \A u \in Workers : worker[u].flight # f
           /\ inflight' = [inflight EXCEPT ![k] = f]
           /\ flights' = [flights EXCEPT ![f] = [set |-> FALSE, value |-> NoValue]]
           /\ worker' = [worker EXCEPT ![t].pc = "decode", ![t].flight = f]
    BY DEF Own, Unused
  <1>3. GoesTo(t, "decode") /\ worker'[t].flight = f
    BY <1>1, <1>2 DEF GoesTo, Wanted, WorkerType
  <1>4. /\ inflight'[k] = f /\ \A x \in Keys : x # k => inflight'[x] = inflight[x]
        /\ ~flights'[f].set /\ flights'[f] = [set |-> FALSE, value |-> NoValue]
        /\ \A g \in Flights : g # f => flights'[g] = flights[g]
        /\ \A u \in Workers : u # t => worker'[u] = worker[u]
        /\ \A u \in Workers : Wanted(u)' = Wanted(u)
        /\ worker'[t].pc = "decode" /\ worker'[t].flight = f
        /\ cache' = cache
    BY <1>1, <1>2, <1>3 DEF GoesTo, Own
  <1>5. 0 \notin Flights
    BY DEF Flights
  <1>6. ASSUME NEW u \in Workers
        PROVE  /\ worker[u].pc \in Waiting => worker[u].flight \in Flights /\ Wanted(u) \in Keys
               /\ worker[u].pc \in Waiting => flights'[worker[u].flight] = flights[worker[u].flight]
               /\ worker[u].pc \in Owning => Wanted(u) # k
    <2>1. worker[u].pc \in Waiting => worker[u].flight \in Flights /\ Wanted(u) \in Keys
      BY WorkerFacts
    <2>2. worker[u].pc \in Owning => worker[u].pc \in Waiting
      BY DEF Owning, Waiting
    <2>3. worker[u].pc \in Owning => inflight[Wanted(u)] = worker[u].flight
      BY DEF FlightInv, Owners
    <2>. QED
      BY <1>1, <1>2, <1>4, <1>5, <2>1, <2>2, <2>3
  <1>. HIDE DEF k
  <1>7. Owners'
    <2>1. ASSUME NEW u \in Workers, worker'[u].pc \in Owning
          PROVE  inflight'[Wanted(u)'] = worker'[u].flight
      <3>1. CASE u = t
        BY <1>4, <3>1 DEF k
      <3>2. CASE u # t
        BY <1>4, <1>6, <2>1, <3>2 DEF FlightInv, Owners, Owning, Waiting
      <3>. QED
        BY <3>1, <3>2
    <2>2. ASSUME NEW u \in Workers, Holding(u)'
          PROVE  ~flights'[worker'[u].flight].set
      BY <1>4, <1>6, <2>2 DEF FlightInv, Owners, Holding, Flying, Owning, Waiting
    <2>3. ASSUME NEW u \in Workers, NEW v \in Workers, Holding(u)', Holding(v)',
                 worker'[u].flight = worker'[v].flight
          PROVE  u = v
      <3>1. u # t => worker'[u] = worker[u] /\ Holding(u) /\ worker'[u].flight # f
        BY <1>2, <1>4, <2>3 DEF Holding
      <3>2. v # t => worker'[v] = worker[v] /\ Holding(v) /\ worker'[v].flight # f
        BY <1>2, <1>4, <2>3 DEF Holding
      <3>3. CASE u # t /\ v # t
        BY <2>3, <3>1, <3>2, <3>3 DEF FlightInv, Owners
      <3>4. CASE u = t \/ v = t
        BY <1>4, <2>3, <3>1, <3>2, <3>4
      <3>. QED
        BY <3>3, <3>4
    <2>. QED
      BY <2>1, <2>2, <2>3 DEF Owners
  <1>8. FlightsOwned'
    <2>1. ASSUME NEW u \in Workers, At(u, "wait")'
          PROVE  \/ flights'[worker'[u].flight].set
                 \/ \E v \in Workers : /\ worker'[v].pc \in Owning \cup {"wake"}
                                       /\ worker'[v].flight = worker'[u].flight
                                       /\ Wanted(v)' = Wanted(u)'
      <3>1. u # t /\ At(u, "wait") /\ worker[u].pc \in Waiting
        BY <1>4, <2>1 DEF At, Waiting
      <3>2. flights'[worker[u].flight] = flights[worker[u].flight]
        BY <1>6, <3>1
      <3>3. CASE flights[worker[u].flight].set
        BY <1>4, <3>1, <3>2, <3>3
      <3>4. CASE ~flights[worker[u].flight].set
        <4>1. PICK v \in Workers : /\ worker[v].pc \in Owning \cup {"wake"}
                                   /\ worker[v].flight = worker[u].flight
                                   /\ Wanted(v) = Wanted(u)
          BY <3>1, <3>4 DEF FlightInv, FlightsOwned
        <4>2. v # t
          BY <1>1, <4>1 DEF Owning
        <4>. QED
          BY <1>4, <3>1, <4>1, <4>2
      <3>. QED
        BY <3>3, <3>4
    <2>2. ASSUME NEW x \in Keys, inflight'[x] # 0
          PROVE  \E v \in Workers : /\ worker'[v].pc \in Owning
                                    /\ worker'[v].flight = inflight'[x]
                                    /\ Wanted(v)' = x
      <3>1. CASE x = k
        BY <1>4, <3>1 DEF k, Owning
      <3>2. CASE x # k
        <4>1. PICK v \in Workers : /\ worker[v].pc \in Owning
                                   /\ worker[v].flight = inflight[x] /\ Wanted(v) = x
          BY <1>4, <2>2, <3>2 DEF FlightInv, FlightsOwned
        <4>2. v # t
          BY <1>1, <4>1 DEF Owning
        <4>. QED
          BY <1>4, <3>2, <4>1, <4>2
      <3>. QED
        BY <3>1, <3>2
    <2>. QED
      BY <2>1, <2>2 DEF FlightsOwned
  <1>9. Outcomes'
    <2>1. ASSUME NEW u \in Workers, u # t, worker[u].pc \in Waiting
          PROVE  flights'[worker'[u].flight] = flights[worker[u].flight]
      BY <1>4, <1>6, <2>1
    <2>. QED
      BY <1>4, <2>1 DEF FlightInv, Outcomes, At, Waiting
  <1>10. Uncached'
    BY <1>1, <1>4 DEF FlightInv, Uncached, Cached, k
  <1>11. RightPieces'
    BY <1>3, SamePieces DEF FlightInv
  <1>. QED
    BY <1>7, <1>8, <1>9, <1>10, <1>11 DEF FlightInv

\* So does dropping the read.
LEMMA IdlePiece ==
    ASSUME TypeInv, NEW t \in Workers, worker' = [worker EXCEPT ![t] = Idle]
    PROVE  Moves(t) /\ worker'[t].pc \notin Waiting
  <1>1. worker \in [Workers -> WorkerType]
    BY DEF TypeInv, WorkersOK
  <1>2. worker'[t] = Idle /\ \A u \in Workers : u # t => worker'[u] = worker[u]
    BY <1>1
  <1>3. Idle.read = <<>> /\ Idle.got = <<>> /\ Idle.pc = "idle"
    BY DEF Idle
  <1>4. Len(<<>>) = 0 /\ SubSeq(<<>>, 1, 0) = <<>>
    OBVIOUS
  <1>. QED
    BY <1>2, <1>3, <1>4 DEF Moves, Waiting

\* Who waits for the flight still waits: its event is not set.
LEMMA DecodeFlights ==
    ASSUME TypeInv, FlightInv, NEW t \in Workers, Decode(t)
    PROVE  FlightInv'
  <1>. DEFINE k == Wanted(t)
              f == worker[t].flight
  <1>1. worker[t].pc = "decode" /\ f \in Flights /\ DOMAIN flights = Flights
    BY WorkerFacts DEF TypeInv, TablesOK, Decode, At, Waiting
  <1>2. PICK pc \in {"put", "land"} :
           /\ Goto(t, pc)
           /\ \/ pc = "put" /\ flights' = [flights EXCEPT ![f].value = k]
              \/ pc = "land" /\ flights' = [flights EXCEPT ![f].value = Failure]
    BY DEF Decode
  <1>3. GoesTo(t, pc) /\ worker'[t].flight = f
    BY <1>2, GotoFacts
  <1>4. /\ \A u \in Workers : u # t => worker'[u] = worker[u]
        /\ \A u \in Workers : worker'[u].flight = worker[u].flight /\ Wanted(u)' = Wanted(u)
        /\ worker'[t].pc = pc
        /\ inflight' = inflight /\ cache' = cache
    BY <1>3 DEF GoesTo, Decode
  <1>5. /\ \A g \in Flights : flights'[g].set = flights[g].set
        /\ \A g \in Flights : g # f => flights'[g] = flights[g]
        /\ pc = "put" => flights'[f].value = k
        /\ pc = "land" => flights'[f].value = Failure
    <2>1. \A g \in Flights : flights[g] \in [set : BOOLEAN, value : Keys \cup {NoValue, Failure}]
      BY DEF TypeInv, TablesOK
    <2>. QED
      BY <1>1, <1>2, <2>1
  <1>6. \A u \in Workers : worker[u].pc \in Waiting => worker[u].flight \in Flights
    BY WorkerFacts
  <1>. HIDE DEF k, f
  <1>7. /\ \A u \in Workers : u # t /\ Holding(u) => worker[u].flight # f
        /\ ~flights[f].set
    BY <1>1 DEF FlightInv, Owners, Holding, Flying, Owning, f
  <1>8. Owners'
    BY <1>1, <1>4, <1>5, <1>6 DEF FlightInv, Owners, Holding, Flying, Owning, Waiting
  <1>9. FlightsOwned'
    <2>1. ASSUME NEW u \in Workers
          PROVE  /\ worker[u].pc \in Owning => worker'[u].pc \in Owning
                 /\ worker[u].pc \in Owning \cup {"wake"} => worker'[u].pc \in Owning \cup {"wake"}
                 /\ At(u, "wait")' => At(u, "wait") /\ flights'[worker[u].flight].set = flights[worker[u].flight].set
      BY <1>1, <1>4, <1>5, <1>6 DEF Owning, At, Waiting
    <2>. QED
      BY <1>4, <2>1 DEF FlightInv, FlightsOwned
  <1>10. Outcomes'
    <2>1. At(t, "put")' => flights'[f].value = k
      BY <1>4, <1>5 DEF At
    <2>2. At(t, "land")' => flights'[f].value = Failure
      BY <1>4, <1>5 DEF At
    <2>3. ~At(t, "wait")' /\ ~At(t, "wake")'
      BY <1>4 DEF At
    <2>4. ASSUME NEW u \in Workers, u # t, worker[u].pc \in {"put", "land", "wake"}
          PROVE  flights'[worker[u].flight] = flights[worker[u].flight]
      BY <1>5, <1>6, <1>7, <2>4 DEF Holding, Flying, Owning, Waiting
    <2>5. ASSUME NEW u \in Workers, u # t, At(u, "wait"), flights'[worker[u].flight].set
          PROVE  flights'[worker[u].flight] = flights[worker[u].flight]
      BY <1>1, <1>5, <1>6, <1>7, <2>5 DEF At, Waiting
    <2>6. ASSUME NEW u \in Workers, u # t
          PROVE  /\ At(u, "put")' => flights'[worker'[u].flight].value = Wanted(u)'
                 /\ At(u, "land")' \/ At(u, "wake")'
                       => flights'[worker'[u].flight].value \in {Wanted(u)', Failure}
                 /\ At(u, "wait")' /\ flights'[worker'[u].flight].set
                       => flights'[worker'[u].flight].value \in {Wanted(u)', Failure}
      BY <1>4, <2>4, <2>5, <2>6 DEF FlightInv, Outcomes, At
    <2>. QED
      BY <1>4, <2>1, <2>2, <2>3, <2>6 DEF Outcomes, f, k
  <1>11. Uncached'
    BY <1>1, <1>4 DEF FlightInv, Uncached, Cached
  <1>12. RightPieces'
    BY <1>3, SamePieces DEF FlightInv
  <1>. QED
    BY <1>8, <1>9, <1>10, <1>11, <1>12 DEF FlightInv

\* What t puts no other thread is producing.
LEMMA PutFlights ==
    ASSUME TypeInv, FlightInv, NEW t \in Workers, Put(t)
    PROVE  FlightInv'
  <1>1. worker[t].pc = "put" /\ Wanted(t) \in Keys
    BY WorkerFacts DEF Put, At, Waiting
  <1>2. GoesTo(t, "land") /\ worker'[t].flight = worker[t].flight
    BY GotoFacts DEF Put
  <1>3. \A x : Cached(x)' => Cached(x) \/ x = Wanted(t)
    BY <1>1, StoreFacts DEF Put, TypeInv, CacheOK
  <1>4. /\ \A u \in Workers : u # t => worker'[u] = worker[u]
        /\ \A u \in Workers : worker'[u].flight = worker[u].flight /\ Wanted(u)' = Wanted(u)
        /\ worker'[t].pc = "land"
        /\ inflight' = inflight /\ flights' = flights
    BY <1>2 DEF GoesTo, Put
  <1>5. Owners'
    BY <1>1, <1>4 DEF FlightInv, Owners, Holding, Flying, Owning
  <1>6. FlightsOwned'
    <2>1. ASSUME NEW u \in Workers
          PROVE  /\ worker[u].pc \in Owning => worker'[u].pc \in Owning
                 /\ worker[u].pc \in Owning \cup {"wake"} => worker'[u].pc \in Owning \cup {"wake"}
                 /\ At(u, "wait")' => At(u, "wait")
      BY <1>1, <1>4 DEF Owning, At
    <2>. QED
      BY <1>4, <2>1 DEF FlightInv, FlightsOwned
  <1>7. Outcomes'
    BY <1>1, <1>4 DEF FlightInv, Outcomes, At
  <1>8. Uncached'
    <2>1. ASSUME NEW u \in Workers, worker'[u].pc \in {"decode", "put"}
          PROVE  ~Cached(Wanted(u))'
      <3>1. u # t /\ worker[u].pc \in {"decode", "put"}
        BY <1>4, <2>1
      <3>2. Wanted(u) # Wanted(t) /\ ~Cached(Wanted(u))
        BY <1>1, <3>1, Rivals DEF FlightInv, Uncached, Owning
      <3>3. ~(Cached(Wanted(u)) \/ Wanted(u) = Wanted(t))
        BY <3>2
      <3>4. \A x : x = Wanted(u) => ~Cached(x)'
        BY <1>3, <3>3
      <3>. QED
        BY <1>4, <3>4 DEF Cached
    <2>. QED
      BY <2>1 DEF Uncached, Cached
  <1>9. RightPieces'
    BY <1>2, SamePieces DEF FlightInv
  <1>. QED
    BY <1>5, <1>6, <1>7, <1>8, <1>9 DEF FlightInv

\* Of the table, t takes out its own flight alone.
LEMMA LandFlights ==
    ASSUME TypeInv, FlightInv, NEW t \in Workers, Land(t)
    PROVE  FlightInv'
  <1>. DEFINE k == Wanted(t)
  <1>1. worker[t].pc = "land" /\ k \in Keys /\ inflight \in [Keys -> Flights \cup {0}]
    BY WorkerFacts DEF Land, At, Waiting, TypeInv, TablesOK
  <1>2. GoesTo(t, "wake") /\ worker'[t].flight = worker[t].flight
    BY GotoFacts DEF Land
  <1>3. /\ \A u \in Workers : u # t => worker'[u] = worker[u]
        /\ \A u \in Workers : worker'[u].flight = worker[u].flight /\ Wanted(u)' = Wanted(u)
        /\ worker'[t].pc = "wake"
        /\ flights' = flights /\ cache' = cache
        /\ inflight'[k] = 0 /\ \A x \in Keys : x # k => inflight'[x] = inflight[x]
    BY <1>1, <1>2 DEF GoesTo, Land
  <1>4. \A u \in Workers : u # t /\ worker[u].pc \in Owning => Wanted(u) # k /\ Wanted(u) \in Keys
    BY <1>1, Rivals, WorkerFacts DEF FlightInv, Owning, Waiting
  <1>. HIDE DEF k
  <1>5. Owners'
    BY <1>1, <1>3, <1>4 DEF FlightInv, Owners, Holding, Flying, Owning
  <1>6. FlightsOwned'
    <2>1. ASSUME NEW u \in Workers
          PROVE  /\ worker[u].pc \in Owning \cup {"wake"} => worker'[u].pc \in Owning \cup {"wake"}
                 /\ At(u, "wait")' => At(u, "wait")
      BY <1>3 DEF Owning, At
    <2>2. ASSUME NEW x \in Keys, inflight'[x] # 0
          PROVE  \E v \in Workers : /\ worker'[v].pc \in Owning
                                    /\ worker'[v].flight = inflight'[x]
                                    /\ Wanted(v)' = x
      <3>1. x # k /\ inflight'[x] = inflight[x]
        BY <1>3, <2>2
      <3>2. PICK v \in Workers : /\ worker[v].pc \in Owning
                                 /\ worker[v].flight = inflight[x] /\ Wanted(v) = x
        BY <2>2, <3>1 DEF FlightInv, FlightsOwned
      <3>3. v # t
        BY <3>1, <3>2 DEF k
      <3>. QED
        BY <1>3, <3>1, <3>2, <3>3
    <2>. QED
      BY <1>3, <2>1, <2>2 DEF FlightInv, FlightsOwned
  <1>7. Outcomes'
    BY <1>1, <1>3 DEF FlightInv, Outcomes, At
  <1>8. Uncached'
    BY <1>3 DEF FlightInv, Uncached, Cached
  <1>9. RightPieces'
    BY <1>2, SamePieces DEF FlightInv
  <1>. QED
    BY <1>5, <1>6, <1>7, <1>8, <1>9 DEF FlightInv

\* Who waits for the flight wants the chunk that t wanted.
LEMMA WakeFlights ==
    ASSUME TypeInv, FlightInv, NEW t \in Workers, Wake(t)
    PROVE  FlightInv'
  <1>. DEFINE k == Wanted(t)
              f == worker[t].flight
  <1>1. /\ worker[t].pc = "wake" /\ f \in Flights /\ DOMAIN flights = Flights
        /\ worker \in [Workers -> WorkerType]
    BY WorkerFacts DEF TypeInv, TablesOK, WorkersOK, Wake, At, Waiting
  <1>2. Moves(t) /\ worker'[t].pc \notin Waiting
    <2>1. CASE Fail(t)
      BY <1>1, <2>1, IdlePiece DEF Fail
    <2>2. CASE Receive(t, k)
      BY <1>1, <2>2, ReceivePiece DEF Waiting
    <2>. QED
      BY <2>1, <2>2 DEF Wake
  <1>3. /\ flights'[f].set /\ flights'[f].value = flights[f].value
        /\ \A g \in Flights : g # f => flights'[g] = flights[g]
        /\ inflight' = inflight /\ cache' = cache
    <2>1. \A g \in Flights : flights[g] \in [set : BOOLEAN, value : Keys \cup {NoValue, Failure}]
      BY DEF TypeInv, TablesOK
    <2>. QED
      BY <1>1, <2>1 DEF Wake
  <1>4. /\ \A u \in Workers : u # t => worker'[u] = worker[u] /\ Wanted(u)' = Wanted(u)
        /\ worker'[t].pc \notin Flying /\ worker'[t].pc # "wait"
    BY <1>2 DEF Moves, Wanted, Waiting, Flying, Owning
  <1>5. \A u \in Workers : worker[u].pc \in Waiting => worker[u].flight \in Flights
    BY WorkerFacts
  <1>. HIDE DEF k, f
  <1>6. /\ \A u \in Workers : u # t /\ Holding(u) => worker[u].flight # f
        /\ ~flights[f].set /\ flights[f].value \in {k, Failure}
    BY <1>1 DEF FlightInv, Owners, Outcomes, At, Holding, Flying, f, k
  <1>7. \A u \in Workers : At(u, "wait") /\ worker[u].flight = f => Wanted(u) = k
    BY <1>1, <1>6 DEF FlightInv, FlightsOwned, Holding, Flying, k
  <1>8. \A u \in Workers : Holding(u)' => u # t /\ Holding(u) /\ worker[u].pc \in Waiting
    BY <1>4 DEF Holding, Flying, Owning, Waiting
  <1>9. Owners'
    <2>1. ASSUME NEW u \in Workers, worker'[u].pc \in Owning
          PROVE  inflight'[Wanted(u)'] = worker'[u].flight
      BY <1>3, <1>4, <2>1 DEF FlightInv, Owners, Flying
    <2>2. ASSUME NEW u \in Workers, Holding(u)'
          PROVE  ~flights'[worker'[u].flight].set
      BY <1>3, <1>4, <1>5, <1>6, <1>8, <2>2 DEF FlightInv, Owners
    <2>3. ASSUME NEW u \in Workers, NEW v \in Workers, Holding(u)', Holding(v)',
                 worker'[u].flight = worker'[v].flight
          PROVE  u = v
      BY <1>4, <1>8, <2>3 DEF FlightInv, Owners
    <2>. QED
      BY <2>1, <2>2, <2>3 DEF Owners
  <1>10. FlightsOwned'
    <2>1. ASSUME NEW u \in Workers, At(u, "wait")'
          PROVE  \/ flights'[worker'[u].flight].set
                 \/ \E v \in Workers : /\ worker'[v].pc \in Owning \cup {"wake"}
                                       /\ worker'[v].flight = worker'[u].flight
                                       /\ Wanted(v)' = Wanted(u)'
      <3>1. u # t /\ At(u, "wait") /\ worker[u].flight \in Flights
        BY <1>4, <1>5, <2>1 DEF At, Waiting
      <3>2. CASE worker[u].flight = f
        BY <1>3, <1>4, <3>1, <3>2
      <3>3. CASE worker[u].flight # f /\ flights[worker[u].flight].set
        BY <1>3, <1>4, <3>1, <3>3
      <3>4. CASE worker[u].flight # f /\ ~flights[worker[u].flight].set
        <4>1. PICK v \in Workers : /\ worker[v].pc \in Owning \cup {"wake"}
                                   /\ worker[v].flight = worker[u].flight
                                   /\ Wanted(v) = Wanted(u)
          BY <3>1, <3>4 DEF FlightInv, FlightsOwned
        <4>2. v # t
          BY <3>4, <4>1 DEF f
        <4>. QED
          BY <1>4, <3>1, <4>1, <4>2
      <3>. QED
        BY <3>2, <3>3, <3>4
    <2>2. ASSUME NEW x \in Keys, inflight'[x] # 0
          PROVE  \E v \in Workers : /\ worker'[v].pc \in Owning
                                    /\ worker'[v].flight = inflight'[x]
                                    /\ Wanted(v)' = x
      <3>1. PICK v \in Workers : /\ worker[v].pc \in Owning
                                 /\ worker[v].flight = inflight[x] /\ Wanted(v) = x
        BY <1>3, <2>2 DEF FlightInv, FlightsOwned
      <3>2. v # t
        BY <1>1, <3>1 DEF Owning
      <3>. QED
        BY <1>3, <1>4, <3>1, <3>2
    <2>. QED
      BY <2>1, <2>2 DEF FlightsOwned
  <1>11. Outcomes'
    <2>1. ASSUME NEW u \in Workers, u # t
          PROVE  /\ At(u, "put")' => flights'[worker'[u].flight].value = Wanted(u)'
                 /\ At(u, "land")' \/ At(u, "wake")'
                       => flights'[worker'[u].flight].value \in {Wanted(u)', Failure}
                 /\ At(u, "wait")' /\ flights'[worker'[u].flight].set
                       => flights'[worker'[u].flight].value \in {Wanted(u)', Failure}
      <3>1. worker'[u] = worker[u] /\ Wanted(u)' = Wanted(u)
        BY <1>4, <2>1
      <3>2. ASSUME worker[u].pc \in {"put", "land", "wake"}
            PROVE  flights'[worker[u].flight] = flights[worker[u].flight]
        BY <1>3, <1>5, <1>6, <2>1, <3>2 DEF Holding, Flying, Owning, Waiting
      <3>3. ASSUME At(u, "wait"), flights'[worker[u].flight].set
            PROVE  flights'[worker[u].flight].value \in {Wanted(u), Failure}
        <4>1. CASE worker[u].flight = f
          BY <1>3, <1>6, <1>7, <3>3, <4>1
        <4>2. CASE worker[u].flight # f
          BY <1>3, <1>5, <3>3, <4>2 DEF FlightInv, Outcomes, At, Waiting
        <4>. QED
          BY <4>1, <4>2
      <3>. QED
        BY <3>1, <3>2, <3>3 DEF FlightInv, Outcomes, At
    <2>. QED
      BY <1>4, <2>1 DEF Outcomes, At, Flying, Owning
  <1>12. Uncached'
    BY <1>3, <1>4 DEF FlightInv, Uncached, Cached, Flying, Owning
  <1>13. RightPieces'
    BY <1>2 DEF FlightInv, RightPieces, Moves
  <1>. QED
    BY <1>9, <1>10, <1>11, <1>12, <1>13 DEF FlightInv

\* The actions of a worker that has no flight, or a landed one.
LEMMA AsideFlights ==
    ASSUME TypeInv, FlightInv, NEW t \in Workers,
           Take(t) \/ Hit(t) \/ Resume(t) \/ Answer(t)
    PROVE  FlightInv'
  <1>1. worker \in [Workers -> WorkerType]
    BY DEF TypeInv, WorkersOK
  <1>2. CASE Take(t)
    <2>. DEFINE w == [pc |-> "lookup", read |-> Head(queue), got |-> <<>>, flight |-> 0]
    <2>1. worker'[t] = w /\ \A u \in Workers : u # t => worker'[u] = worker[u]
      BY <1>1, <1>2 DEF Take
    <2>2. w.got = <<>> /\ w.read = Head(queue) /\ w.pc = "lookup"
      OBVIOUS
    <2>. HIDE DEF w
    <2>3. Len(<<>>) = 0 /\ SubSeq(Head(queue), 1, 0) = <<>>
      OBVIOUS
    <2>4. Moves(t)
      BY <2>1, <2>2, <2>3 DEF Moves
    <2>5. worker'[t].pc \notin Waiting /\ ~Holding(t)
      BY <1>2, <2>1, <2>2 DEF Take, At, Waiting, Holding, Flying, Owning
    <2>6. UNCHANGED <<inflight, flights>> /\ \A x : Cached(x)' => Cached(x)
      BY <1>2 DEF Take, Cached
    <2>. QED
      BY <2>4, <2>5, <2>6, Aside
  <1>3. CASE Hit(t)
    <2>1. worker[t].pc = "lookup" /\ Cached(Wanted(t)) /\ Touch(Wanted(t)) /\ bytes' = bytes
      BY <1>3 DEF Hit, At
    <2>2. Wanted(t) \in Keys
      BY <2>1, WorkerFacts
    <2>3. \A x : Cached(x)' => Cached(x)
      BY <2>1, <2>2, TouchFacts DEF TypeInv, CacheOK
    <2>4. Moves(t) /\ worker'[t].pc \notin Waiting
      BY <1>3, <2>1, ReceivePiece DEF Hit
    <2>5. UNCHANGED <<inflight, flights>> /\ ~Holding(t)
      BY <1>3, <2>1 DEF Hit, Holding, Flying, Owning
    <2>. QED
      BY <2>3, <2>4, <2>5, Aside
  <1>4. CASE Resume(t)
    <2>1. worker[t].pc = "wait" /\ flights[worker[t].flight].value \in {Wanted(t), Failure}
      BY <1>4 DEF Resume, At, FlightInv, Outcomes
    <2>2. Fail(t) \/ Receive(t, Wanted(t))
      BY <1>4, <2>1 DEF Resume
    <2>3. Moves(t) /\ worker'[t].pc \notin Waiting
      BY <2>1, <2>2, ReceivePiece, IdlePiece DEF Fail, Waiting
    <2>4. UNCHANGED <<inflight, flights>> /\ ~Holding(t) /\ \A x : Cached(x)' => Cached(x)
      BY <1>4, <2>1 DEF Resume, Holding, Flying, Owning, Cached
    <2>. QED
      BY <2>3, <2>4, Aside
  <1>5. CASE Answer(t)
    <2>1. Moves(t) /\ worker'[t].pc \notin Waiting
      BY <1>5, IdlePiece DEF Answer
    <2>2. UNCHANGED <<inflight, flights>> /\ ~Holding(t) /\ \A x : Cached(x)' => Cached(x)
      BY <1>5 DEF Answer, At, Holding, Flying, Owning, Cached
    <2>. QED
      BY <2>1, <2>2, Aside
  <1>. QED
    BY <1>2, <1>3, <1>4, <1>5

\* The event loop caches nothing that was not, and wakes nobody.
LEMMA LoopFlights ==
    ASSUME TypeInv, FlightInv, (\E r \in Reads : Request(r)) \/ ProbeHit \/ ProbeMiss \/ Close
    PROVE  FlightInv'
  <1>1. \A x : Cached(x)' => Cached(x)
    <2>1. CASE ProbeHit
      <3>. DEFINE k == loop.read[loop.seen + 1]
      <3>1. loop.read \in Seq(Keys) /\ loop.seen + 1 \in 1..Len(loop.read)
        <4>1. LoopOK /\ loop # NoProbe
          BY <2>1 DEF ProbeHit, TypeInv
        <4>. QED
          BY <4>1 DEF LoopOK
      <3>2. k \in Keys
        BY <3>1
      <3>. QED
        BY <2>1, <3>2, TouchFacts DEF ProbeHit, TypeInv, CacheOK
    <2>2. CASE Close
      BY <2>2 DEF Close, Cached
    <2>3. CASE (\E r \in Reads : Request(r)) \/ ProbeMiss
      BY <2>3 DEF Request, ProbeMiss, Cached
    <2>. QED
      BY <2>1, <2>2, <2>3
  <1>2. UNCHANGED <<worker, inflight, flights>>
    BY DEF Request, ProbeHit, ProbeMiss, Close
  <1>3. Owners' /\ FlightsOwned' /\ Outcomes' /\ RightPieces'
    BY <1>2 DEF FlightInv, Owners, FlightsOwned, Outcomes, RightPieces, Holding, At, Wanted
  <1>4. Uncached'
    <2>1. \A u \in Workers : Wanted(u)' = Wanted(u)
      BY <1>2 DEF Wanted
    <2>2. ASSUME NEW u \in Workers, worker'[u].pc \in {"decode", "put"}
          PROVE  ~Cached(Wanted(u))'
      <3>1. ~Cached(Wanted(u))
        BY <1>2, <2>2 DEF FlightInv, Uncached
      <3>2. \A x : x = Wanted(u) => ~Cached(x)'
        BY <1>1, <3>1
      <3>. QED
        BY <2>1, <3>2 DEF Cached
    <2>. QED
      BY <2>2 DEF Uncached, Cached
  <1>. QED
    BY <1>3, <1>4 DEF FlightInv

LEMMA FlightStep == TypeInv /\ FlightInv /\ [Next]_vars => FlightInv'
  <1>. SUFFICES ASSUME TypeInv, FlightInv, [Next]_vars PROVE FlightInv'
    OBVIOUS
  <1>1. CASE UNCHANGED vars
    BY <1>1 DEF vars, FlightInv, Owners, FlightsOwned, Outcomes, Uncached, RightPieces,
                Holding, At, Wanted, Cached
  <1>2. ASSUME NEW t \in Workers, Take(t) \/ Work(t)
        PROVE  FlightInv'
    BY <1>2, AsideFlights, JoinFlights, OwnFlights, DecodeFlights, PutFlights, LandFlights,
       WakeFlights DEF Work
  <1>. QED
    BY <1>1, <1>2, LoopFlights DEF Next

LEMMA FlightsHold == Spec => [](TypeInv /\ FlightInv)
  BY TypeInit, TypeStep, FlightInit, FlightStep, PTL DEF Spec

\* No two threads decode the same chunk at a time, and none decodes or puts one
\* that is cached: the branch of put that replaces an entry (cache.py:79-81)
\* is never taken, for any number of threads, chunks and reads.
THEOREM Single == Spec => []DecodedOnce
  <1>1. FlightInv => DecodedOnce
    BY Rivals DEF FlightInv, Uncached, DecodedOnce
  <1>. QED
    BY <1>1, FlightsHold, PTL

\* A waiting thread waits for a flight that has landed or has an owner, and so
\* does every flight in the table: nobody waits for a decode that is over.
THEOREM Owned == Spec => []FlightsOwned
  <1>1. FlightInv => FlightsOwned
    BY DEF FlightInv
  <1>. QED
    BY <1>1, FlightsHold, PTL

\* A reader gets the chunks it asked for, in order, whatever is evicted or
\* cleared between the put and the wake-up (cache.py:38-45).
THEOREM Pieces == Spec => []RightPieces
  <1>1. FlightInv => RightPieces
    BY DEF FlightInv
  <1>. QED
    BY <1>1, FlightsHold, PTL
=============================================================================
