-------------------------- MODULE RadixHeapProofs --------------------------
(***************************************************************************)
(* What is proved of the radix heap for every width of a key and every set *)
(* of nodes: it never panics, its items are always filed by last, a bucket *)
(* is spread over lower buckets only, and it is a priority queue.          *)
(***************************************************************************)
EXTENDS RadixHeap, Recursion, FiniteSetTheorems

-----------------------------------------------------------------------------
(* The bits of a key *)

LEMMA PowerFacts ==
  /\ Power[0] = 1
  /\ \A b \in 1 .. Width : Power[b] = 2 * Power[b - 1]
  /\ \A b \in Buckets : Power[b] \in Nat \ {0}
<1> DEFINE Positive == Nat \ {0}
           Step == [ip \in (1 .. Width) \X Positive |-> 2 * ip[2]]
           IsPower(f) == f = [b \in Buckets |-> IF b = 0 THEN 1 ELSE 2 * f[b - 1]]
<1>1. /\ Width \in Nat /\ 0 .. Width = Buckets /\ 0 \in Buckets
      /\ \A b \in Buckets : b # 0 => b \in 1 .. Width
  BY WidthAssumption DEF Buckets
<1>2. Step \in [(1 .. Width) \X Positive -> Positive]  OBVIOUS
<1>3. PICK f : IsRun(f, Width, Positive, 1, Step)
  <2>1. 1 \in Positive /\ Width \in Nat  BY <1>1
  <2> HIDE DEF Step, Positive
  <2> QED  BY <1>2, <2>1, PrimitiveRecursion
<1>. f \in [0 .. Width -> Positive] /\ f[0] = 1  BY <1>3 DEF IsRun
<1>4. \A i \in 1 .. Width : f[i] = 2 * f[i - 1]
  <2> TAKE i \in 1 .. Width
  <2>1. f[i - 1] \in Positive  BY <1>1
  <2> QED  BY <1>3, <2>1 DEF IsRun
<1>5. f = [b \in Buckets |-> IF b = 0 THEN 1 ELSE 2 * f[b - 1]]
  <2>1. \A b \in Buckets : f[b] = IF b = 0 THEN 1 ELSE 2 * f[b - 1]
    BY <1>1, <1>3, <1>4
  <2> QED  BY <1>1, <2>1
<1>6. IsPower(f)  BY <1>5
<1>7. Power = CHOOSE g : IsPower(g)  BY DEF Power
<1>8. IsPower(Power)
  <2> HIDE DEF IsPower
  <2> QED  BY <1>6, <1>7
<1>9. \A b \in Buckets : Power[b] = IF b = 0 THEN 1 ELSE 2 * Power[b - 1]
  BY <1>8
<1> DEFINE T == {b \in Buckets : Power[b] = f[b]}
<1>10. 0 .. Width \subseteq T
  <2>1. 0 \in T  BY <1>1, <1>3, <1>9
  <2>2. ASSUME NEW i \in 0 .. Width - 1, i \in T
        PROVE  i + 1 \in T
    <3>1. i + 1 \in Buckets /\ i + 1 # 0 /\ (i + 1) - 1 = i /\ i + 1 \in 1 .. Width
      BY <1>1
    <3>2. Power[i + 1] = 2 * Power[i] /\ f[i + 1] = 2 * f[i]  BY <1>4, <1>9, <3>1
    <3> QED  BY <2>2, <3>1, <3>2
  <2> HIDE DEF T
  <2>3. 0 \in Int /\ Width \in Int  BY <1>1
  <2> QED  BY <2>1, <2>2, <2>3, IntervalInduction
<1>11. \A b \in Buckets : Power[b] \in Positive
  <2> TAKE b \in Buckets
  <2>1. f[b] \in Positive /\ Power[b] = f[b]  BY <1>1, <1>10
  <2> QED  BY <2>1
<1>12. \A b \in 1 .. Width : Power[b] = 2 * Power[b - 1]
  <2> TAKE b \in 1 .. Width
  <2>1. b \in Buckets /\ b # 0  BY <1>1
  <2> QED  BY <1>9, <2>1
<1>13. Power[0] = 1  BY <1>1, <1>9
<1> QED  BY <1>11, <1>12, <1>13

\* The bits of a key above the bit b.
High(k, b) == k \div Power[b]

LEMMA DivisionHalves ==
  ASSUME NEW k \in Nat, NEW p \in Nat \ {0}
  PROVE  \/ k \div p = 2 * (k \div (2 * p))
         \/ k \div p = 2 * (k \div (2 * p)) + 1
<1> DEFINE r == k \div (2 * p)
<1>1. r \in Nat /\ (2 * p) * r <= k /\ k < (2 * p) * r + 2 * p
  BY DivisionBounds, 2 * p \in Nat \ {0}
<1> HIDE DEF r
<1>2. p * (2 * r) = (2 * p) * r /\ p * (2 * r + 1) = (2 * p) * r + p  BY <1>1
<1>3. (2 * p) * r \in Nat  BY <1>1
<1>4. CASE k < (2 * p) * r + p
  <2>1. 2 * r \in Nat  BY <1>1
  <2>2. k \div p = 2 * r  BY <1>1, <1>2, <1>4, <2>1, DivisionUnique
  <2> QED  BY <2>2 DEF r
<1>5. CASE k >= (2 * p) * r + p
  <2>1. 2 * r + 1 \in Nat  BY <1>1
  <2>2. p * (2 * r + 1) <= k /\ k < p * (2 * r + 1) + p  BY <1>1, <1>2, <1>3, <1>5
  <2>3. k \div p = 2 * r + 1  BY <2>1, <2>2, DivisionUnique
  <2> QED  BY <2>3 DEF r
<1> QED  BY <1>3, <1>4, <1>5

\* What is needed of the bits: the sequence of a key's higher parts.
LEMMA HighFacts ==
  ASSUME NEW k \in Key
  PROVE  /\ k \in Nat
         /\ \A b \in Buckets : High(k, b) \in Nat
         /\ High(k, 0) = k
         /\ High(k, Width) = 0
         /\ \A b \in 1 .. Width : \/ High(k, b - 1) = 2 * High(k, b)
                                  \/ High(k, b - 1) = 2 * High(k, b) + 1
<1>1. Width \in Buckets /\ 0 \in Buckets /\ Power[Width] \in Nat \ {0}
  BY WidthAssumption, PowerFacts DEF Buckets
<1>2. k \in Nat /\ k < Power[Width]  BY <1>1 DEF Key
<1>3. \A b \in Buckets : High(k, b) \in Nat
  BY <1>2, PowerFacts, DivisionBounds DEF High
<1>4. k \div 1 = k
  BY <1>2, DivisionUnique, 1 \in Nat \ {0}
<1>5. k \div Power[Width] = 0
  <2>1. Power[Width] * 0 <= k /\ k < Power[Width] * 0 + Power[Width]  BY <1>1, <1>2
  <2> QED  BY <1>1, <1>2, <2>1, DivisionUnique
<1>6. ASSUME NEW b \in 1 .. Width
      PROVE  \/ High(k, b - 1) = 2 * High(k, b)
             \/ High(k, b - 1) = 2 * High(k, b) + 1
  <2>1. b - 1 \in Buckets  BY WidthAssumption DEF Buckets
  <2>2. Power[b] = 2 * Power[b - 1] /\ Power[b - 1] \in Nat \ {0}  BY <2>1, PowerFacts
  <2> QED  BY <1>2, <2>2, DivisionHalves DEF High
<1> QED  BY <1>2, <1>3, <1>4, <1>5, <1>6, PowerFacts DEF High

LEMMA HighMonotone ==
  ASSUME NEW k \in Key, NEW l \in Key, NEW b \in Buckets, k <= l
  PROVE  High(k, b) <= High(l, b)
BY HighFacts, PowerFacts, DivisionMonotone DEF High

\* Keys that agree above a bit agree above every higher bit.
LEMMA AgreeUpwards ==
  ASSUME NEW k \in Key, NEW l \in Key, NEW b \in Buckets, NEW c \in Buckets, b <= c,
         High(k, b) = High(l, b)
  PROVE  High(k, c) = High(l, c)
<1> DEFINE T == {d \in Buckets : High(k, d) = High(l, d)}
<1>1. b \in T  OBVIOUS
<1>2. ASSUME NEW i \in b .. c - 1, i \in T
      PROVE  i + 1 \in T
  <2>1. i + 1 \in 1 .. Width /\ i + 1 \in Buckets /\ (i + 1) - 1 = i
    BY WidthAssumption DEF Buckets
  <2>2. High(k, i + 1) \in Nat /\ High(l, i + 1) \in Nat  BY <2>1, HighFacts
  <2>3. /\ High(k, i) = 2 * High(k, i + 1) \/ High(k, i) = 2 * High(k, i + 1) + 1
        /\ High(l, i) = 2 * High(l, i + 1) \/ High(l, i) = 2 * High(l, i + 1) + 1
    BY <2>1, HighFacts
  <2>4. High(k, i) = High(l, i)  BY <1>2
  <2>5. High(k, i + 1) = High(l, i + 1)  BY <2>2, <2>3, <2>4
  <2> QED  BY <2>1, <2>5
<1>3. b .. c \subseteq T
  <2> HIDE DEF T
  <2>1. b \in Int /\ c \in Int  BY WidthAssumption DEF Buckets
  <2> QED  BY <1>1, <1>2, <2>1, IntervalInduction
<1>4. c \in b .. c  BY WidthAssumption DEF Buckets
<1> QED  BY <1>3, <1>4

-----------------------------------------------------------------------------
(* Buckets *)

\* The bucket of a key is the lowest bit above which it agrees with last.
LEMMA BucketFacts ==
  ASSUME NEW k \in Key, NEW l \in Key
  PROVE  LET b == radixBucket(k, l)
         IN  /\ b \in Buckets
             /\ High(k, b) = High(l, b)
             /\ b = 0 \/ High(k, b - 1) # High(l, b - 1)
<1> DEFINE T == {b \in Buckets : High(k, b) = High(l, b)}
           Lowest(b) == /\ High(k, b) = High(l, b)
                        /\ \A c \in Buckets : c < b => High(k, c) # High(l, c)
<1>1. Buckets \subseteq Nat /\ Width \in Buckets  BY WidthAssumption DEF Buckets
<1>2. Width \in T  BY <1>1, HighFacts
<1>3. PICK b \in T : \A c \in T : b <= c
  <2>1. T \subseteq Nat /\ T # {}  BY <1>1, <1>2
  <2> HIDE DEF T
  <2> QED  BY <2>1, LeastNumber
<1>4. b \in Buckets /\ Lowest(b)  BY <1>1, <1>3
<1>5. radixBucket(k, l) = CHOOSE c \in Buckets : Lowest(c)  BY DEF radixBucket, High
<1>6. radixBucket(k, l) \in Buckets /\ Lowest(radixBucket(k, l))
  <2> HIDE DEF Lowest
  <2> QED  BY <1>4, <1>5
<1>7. ASSUME NEW c \in Buckets, c # 0
      PROVE  c - 1 \in Buckets /\ c - 1 < c
  BY <1>7, WidthAssumption DEF Buckets
<1> QED  BY <1>6, <1>7

LEMMA BucketUnique ==
  ASSUME NEW k \in Key, NEW l \in Key, NEW b \in Buckets, High(k, b) = High(l, b),
         b = 0 \/ High(k, b - 1) # High(l, b - 1)
  PROVE  radixBucket(k, l) = b
<1> DEFINE c == radixBucket(k, l)
<1>1. c \in Buckets /\ High(k, c) = High(l, c) /\ (c = 0 \/ High(k, c - 1) # High(l, c - 1))
  BY BucketFacts
<1> HIDE DEF c
<1>2. \A d \in Buckets : d \in Nat /\ (d # 0 => d - 1 \in Buckets)
  BY WidthAssumption DEF Buckets
<1>3. ~(b < c)
  <2> SUFFICES ASSUME b < c PROVE FALSE  OBVIOUS
  <2>1. c # 0 /\ c - 1 \in Buckets /\ b <= c - 1  BY <1>1, <1>2
  <2> QED  BY <1>1, <2>1, AgreeUpwards
<1>4. ~(c < b)
  <2> SUFFICES ASSUME c < b PROVE FALSE  OBVIOUS
  <2>1. b # 0 /\ b - 1 \in Buckets /\ c <= b - 1  BY <1>1, <1>2
  <2> QED  BY <1>1, <2>1, AgreeUpwards
<1>5. c = b  BY <1>1, <1>2, <1>3, <1>4
<1> QED  BY <1>5 DEF c

\* Bucket zero holds the key last itself.
LEMMA BucketZero ==
  ASSUME NEW k \in Key, NEW l \in Key
  PROVE  radixBucket(k, l) = 0 <=> k = l
<1>1. 0 \in Buckets  BY WidthAssumption DEF Buckets
<1> QED  BY <1>1, HighFacts, BucketFacts, BucketUnique

\* The keys of one bucket above last agree in one bit more than they do with last.
LEMMA BucketMates ==
  ASSUME NEW l \in Key, NEW k \in Key, NEW m \in Key, l <= k, l <= m,
         radixBucket(k, l) # 0, radixBucket(k, l) = radixBucket(m, l)
  PROVE  LET b == radixBucket(k, l) IN High(k, b - 1) = High(m, b - 1)
<1> DEFINE b == radixBucket(k, l)
<1>1. b \in Buckets /\ b # 0 /\ b = radixBucket(m, l)  BY BucketFacts
<1>2. /\ High(k, b) = High(l, b) /\ High(k, b - 1) # High(l, b - 1)
      /\ High(m, b) = High(l, b) /\ High(m, b - 1) # High(l, b - 1)
  BY <1>1, BucketFacts
<1> HIDE DEF b
<1>3. b \in 1 .. Width /\ b - 1 \in Buckets  BY <1>1, WidthAssumption DEF Buckets
<1>4. \A x \in Key : /\ High(x, b) \in Nat /\ High(x, b - 1) \in Nat
                     /\ \/ High(x, b - 1) = 2 * High(x, b)
                        \/ High(x, b - 1) = 2 * High(x, b) + 1
  BY <1>1, <1>3, HighFacts
<1>5. High(l, b - 1) <= High(k, b - 1) /\ High(l, b - 1) <= High(m, b - 1)
  BY <1>3, HighMonotone
<1>6. High(k, b - 1) = High(m, b - 1)  BY <1>2, <1>4, <1>5
<1> QED  BY <1>6 DEF b

\* A bucket above the one that is spread keeps its items: they are above the new
\* last and belong to the same bucket by it.
LEMMA BucketStays ==
  ASSUME NEW l \in Key, NEW m \in Key, NEW x \in Key, l <= m, l <= x,
         radixBucket(m, l) < radixBucket(x, l)
  PROVE  m <= x /\ radixBucket(x, m) = radixBucket(x, l)
<1> DEFINE u == radixBucket(m, l)
           c == radixBucket(x, l)
<1>1. u \in Buckets /\ c \in Buckets /\ u < c  BY BucketFacts
<1>2. c # 0 /\ c - 1 \in Buckets /\ u <= c - 1 /\ u <= c
  BY <1>1, WidthAssumption DEF Buckets
<1>3. High(m, u) = High(l, u) /\ High(x, c) = High(l, c) /\ High(x, c - 1) # High(l, c - 1)
  BY <1>2, BucketFacts
<1> HIDE DEF u, c
<1>4. High(m, c) = High(l, c) /\ High(m, c - 1) = High(l, c - 1)
  BY <1>1, <1>2, <1>3, AgreeUpwards
<1>5. radixBucket(x, m) = c  BY <1>1, <1>3, <1>4, BucketUnique
<1>6. m <= x
  <2> SUFFICES ASSUME ~(m <= x) PROVE FALSE  OBVIOUS
  <2>1. x <= m  BY HighFacts
  <2>2. High(l, c - 1) <= High(x, c - 1) /\ High(x, c - 1) <= High(m, c - 1)
    BY <1>2, <2>1, HighMonotone
  <2>3. High(l, c - 1) \in Nat /\ High(x, c - 1) \in Nat  BY <1>2, HighFacts
  <2> QED  BY <1>3, <1>4, <2>2, <2>3
<1> QED  BY <1>5, <1>6 DEF c

\* An item of the bucket that is spread goes to a lower one.
LEMMA BucketFalls ==
  ASSUME NEW l \in Key, NEW m \in Key, NEW x \in Key, l <= m, l <= x,
         radixBucket(m, l) = radixBucket(x, l), radixBucket(x, l) # 0
  PROVE  radixBucket(x, m) < radixBucket(x, l)
<1> DEFINE u == radixBucket(x, l)
           c == radixBucket(x, m)
<1>1. u \in Buckets /\ c \in Buckets /\ u # 0  BY BucketFacts
<1>2. High(x, u - 1) = High(m, u - 1)  BY BucketMates
<1>3. c = 0 \/ High(x, c - 1) # High(m, c - 1)  BY BucketFacts
<1> HIDE DEF u, c
<1>4. u \in Nat /\ c \in Nat /\ u - 1 \in Buckets /\ (c # 0 => c - 1 \in Buckets)
  BY <1>1, WidthAssumption DEF Buckets
<1>5. c < u
  <2> SUFFICES ASSUME ~(c < u) PROVE FALSE  OBVIOUS
  <2>1. c # 0 /\ u - 1 <= c - 1  BY <1>1, <1>4
  <2>2. High(x, c - 1) = High(m, c - 1)  BY <1>2, <1>4, <2>1, AgreeUpwards
  <2> QED  BY <1>3, <2>1, <2>2
<1> QED  BY <1>5 DEF u, c

-----------------------------------------------------------------------------
(* Sequences of items *)

NoRepeat(s) == \A i, j \in 1 .. Len(s) : s[i] = s[j] => i = j

LEMMA RangeOf ==
  ASSUME NEW S, NEW s \in Seq(S)
  PROVE  /\ Len(s) \in Nat
         /\ Range(s) = {s[i] : i \in 1 .. Len(s)}
         /\ Range(s) \subseteq S
         /\ s = <<>> <=> Range(s) = {}
         /\ s = <<>> <=> Len(s) = 0
BY DEF Range

LEMMA Appended ==
  ASSUME NEW S, NEW s \in Seq(S), NEW x \in S
  PROVE  /\ Append(s, x) \in Seq(S) /\ Append(s, x) # <<>>
         /\ Range(Append(s, x)) = Range(s) \cup {x}
         /\ NoRepeat(s) /\ x \notin Range(s) => NoRepeat(Append(s, x))
<1> DEFINE t == Append(s, x)
<1>1. /\ t \in Seq(S) /\ Len(t) = Len(s) + 1 /\ Len(s) \in Nat
      /\ t[Len(s) + 1] = x /\ \A i \in 1 .. Len(s) : t[i] = s[i]
  OBVIOUS
<1> HIDE DEF t
<1>2. Range(s) = {s[i] : i \in 1 .. Len(s)} /\ Range(t) = {t[i] : i \in 1 .. Len(t)}
  BY <1>1, RangeOf
<1>3. \A i \in 1 .. Len(t) : i \in 1 .. Len(s) \/ i = Len(s) + 1  BY <1>1
<1>4. \A i \in 1 .. Len(s) : i \in 1 .. Len(t) /\ i # Len(s) + 1  BY <1>1
<1>5. Len(s) + 1 \in 1 .. Len(t)  BY <1>1
<1>6. Range(t) = Range(s) \cup {x}
  <2>1. \A y \in Range(t) : y \in Range(s) \cup {x}  BY <1>1, <1>2, <1>3
  <2>2. \A y \in Range(s) : y \in Range(t)  BY <1>1, <1>2, <1>4
  <2>3. x \in Range(t)  BY <1>1, <1>2, <1>5
  <2> QED  BY <2>1, <2>2, <2>3
<1>7. ASSUME NoRepeat(s), x \notin Range(s), NEW i \in 1 .. Len(t), NEW j \in 1 .. Len(t),
             t[i] = t[j]
      PROVE  i = j
  BY <1>1, <1>2, <1>3, <1>7 DEF NoRepeat
<1>8. NoRepeat(s) /\ x \notin Range(s) => NoRepeat(t)  BY <1>7 DEF NoRepeat
<1>9. t # <<>>  BY <1>1, RangeOf
<1> QED  BY <1>1, <1>6, <1>8, <1>9 DEF t

LEMMA Shortened ==
  ASSUME NEW S, NEW s \in Seq(S), s # <<>>
  PROVE  /\ Front(s) \in Seq(S) /\ Last(s) \in Range(s)
         /\ NoRepeat(s) => /\ NoRepeat(Front(s))
                           /\ Range(Front(s)) = Range(s) \ {Last(s)}
<1> DEFINE t == Front(s)
           x == Last(s)
<1>1. Len(s) \in Nat /\ Len(s) # 0 /\ s \in [1 .. Len(s) -> S]  BY RangeOf
<1>2. /\ t \in Seq(S) /\ Len(t) = Len(s) - 1
      /\ \A i \in 1 .. Len(s) - 1 : t[i] = s[i]
  BY <1>1 DEF Front
<1>3. x = s[Len(s)]  BY DEF Last
<1> HIDE DEF t, x
<1>4. Range(s) = {s[i] : i \in 1 .. Len(s)} /\ Range(t) = {t[i] : i \in 1 .. Len(s) - 1}
  BY <1>2, RangeOf
<1>5. x \in Range(s)  BY <1>1, <1>3, <1>4
<1>6. ASSUME NoRepeat(s)
      PROVE  NoRepeat(t) /\ Range(t) = Range(s) \ {x}
  <2>. Len(s) \in Nat /\ Len(s) # 0  BY <1>1
  <2>1. \A i \in 1 .. Len(s) - 1 : i \in 1 .. Len(s) /\ i # Len(s)  OBVIOUS
  <2>2. \A i \in 1 .. Len(s) : i \in 1 .. Len(s) - 1 \/ i = Len(s)  OBVIOUS
  <2>3. Len(s) \in 1 .. Len(s)  BY <1>1
  <2>4. NoRepeat(t)  BY <1>2, <1>6, <2>1 DEF NoRepeat
  <2>5. ASSUME NEW i \in 1 .. Len(s) - 1
        PROVE  t[i] \in Range(s) /\ t[i] # x
    BY <1>2, <1>3, <1>4, <1>6, <2>1, <2>3 DEF NoRepeat
  <2>6. ASSUME NEW i \in 1 .. Len(s), s[i] # x
        PROVE  s[i] \in Range(t)
    BY <1>2, <1>3, <1>4, <2>2, <2>6
  <2>7. Range(t) \subseteq Range(s) \ {x}  BY <1>4, <2>5
  <2>8. Range(s) \ {x} \subseteq Range(t)  BY <1>4, <2>6
  <2> QED  BY <2>4, <2>7, <2>8
<1> QED  BY <1>2, <1>5, <1>6 DEF t, x

-----------------------------------------------------------------------------
(* Filing *)

InHeap(f) == UNION {Range(f[b]) : b \in Buckets}

\* The buckets f are filed by the key l, and hold every item once.
WellFiled(f, l) ==
  /\ f \in [Buckets -> Seq(Item)]
  /\ \A b \in Buckets : \A x \in Range(f[b]) : l <= x[1] /\ radixBucket(x[1], l) = b
  /\ \A b \in Buckets : NoRepeat(f[b])

LEMMA ItemFacts ==
  ASSUME NEW f \in [Buckets -> Seq(Item)], NEW b \in Buckets
  PROVE  f[b] \in Seq(Item) /\ \A x \in Range(f[b]) : x \in Item /\ x[1] \in Key
<1>1. f[b] \in Seq(Item)  OBVIOUS
<1>2. Range(f[b]) \subseteq Item  BY <1>1, RangeOf
<1> QED  BY <1>1, <1>2 DEF Item

WithItem(f, x, l) == [f EXCEPT ![radixBucket(x[1], l)] = Append(@, x)]

\* An item that is filed under its bucket is added to the heap, and nothing else changes.
LEMMA FiledOnce ==
  ASSUME NEW l \in Key, NEW f, WellFiled(f, l), NEW x \in Item, l <= x[1], x \notin InHeap(f)
  PROVE  LET g == WithItem(f, x, l)
         IN  /\ WellFiled(g, l)
             /\ InHeap(g) = InHeap(f) \cup {x}
             /\ \A c \in Buckets : c # radixBucket(x[1], l) => g[c] = f[c]
<1> DEFINE b == radixBucket(x[1], l)
           g == WithItem(f, x, l)
<1>1. x[1] \in Key  BY DEF Item
<1>2. b \in Buckets  BY <1>1, BucketFacts
<1>3. f \in [Buckets -> Seq(Item)] /\ f[b] \in Seq(Item)  BY <1>2 DEF WellFiled
<1> HIDE DEF b
<1>4. g[b] = Append(f[b], x) /\ \A c \in Buckets : c # b => g[c] = f[c]
  BY <1>2, <1>3 DEF WithItem, b
<1>5. g \in [Buckets -> Seq(Item)]  BY <1>2, <1>3, Appended DEF WithItem, b
<1> HIDE DEF g
<1>6. x \notin Range(f[b])  BY <1>2 DEF InHeap
<1>7. Range(g[b]) = Range(f[b]) \cup {x} /\ (NoRepeat(f[b]) => NoRepeat(g[b]))
  BY <1>3, <1>4, <1>6, Appended
<1>8. \A c \in Buckets : \A y \in Range(g[c]) : l <= y[1] /\ radixBucket(y[1], l) = c
  BY <1>4, <1>7 DEF WellFiled, b
<1>9. \A c \in Buckets : NoRepeat(g[c])  BY <1>4, <1>7 DEF WellFiled
<1>10. InHeap(g) = InHeap(f) \cup {x}
  <2>1. \A y \in InHeap(g) : y \in InHeap(f) \cup {x}  BY <1>4, <1>7 DEF InHeap
  <2>2. \A y \in InHeap(f) : y \in InHeap(g)  BY <1>4, <1>7 DEF InHeap
  <2>3. x \in InHeap(g)  BY <1>2, <1>7 DEF InHeap
  <2> QED  BY <2>1, <2>2, <2>3
<1>11. WellFiled(g, l)  BY <1>5, <1>8, <1>9 DEF WellFiled
<1> QED  BY <1>4, <1>10, <1>11 DEF g, b

LEMMA LowestUsedFacts ==
  ASSUME buckets \in [Buckets -> Seq(Item)], buckets[0] = <<>>, Contents # {}
  PROVE  /\ LowestUsed \in Buckets \ {0} /\ buckets[LowestUsed] # <<>>
         /\ \A c \in Buckets : c < LowestUsed => buckets[c] = <<>>
<1> DEFINE Used == {b \in Buckets \ {0} : buckets[b] # <<>>}
           Lowest(b) == buckets[b] # <<>> /\ \A c \in Buckets : 0 < c /\ c < b => buckets[c] = <<>>
<1>1. PICK b \in Buckets : Range(buckets[b]) # {}  BY DEF Contents
<1>2. buckets[b] # <<>>  BY <1>1, RangeOf
<1>3. Buckets \subseteq Nat  BY WidthAssumption DEF Buckets
<1>4. PICK u \in Used : \A c \in Used : u <= c
  <2>1. Used \subseteq Nat /\ Used # {}  BY <1>2, <1>3
  <2> HIDE DEF Used
  <2> QED  BY <2>1, LeastNumber
<1>5. u \in Buckets \ {0} /\ Lowest(u)  BY <1>3, <1>4
<1>6. LowestUsed = CHOOSE c \in Buckets \ {0} : Lowest(c)  BY DEF LowestUsed
<1>7. LowestUsed \in Buckets \ {0} /\ Lowest(LowestUsed)
  <2> HIDE DEF Lowest
  <2> QED  BY <1>5, <1>6
<1> QED  BY <1>3, <1>7

LEMMA LeastKeyFacts ==
  ASSUME NEW s \in Seq(Item), s # <<>>
  PROVE  /\ LeastKey(s) \in Key
         /\ \E x \in Range(s) : x[1] = LeastKey(s)
         /\ \A x \in Range(s) : LeastKey(s) <= x[1]
<1> DEFINE Keys == {x[1] : x \in Range(s)}
           IsLeast(k) == (\E x \in Range(s) : x[1] = k) /\ \A x \in Range(s) : k <= x[1]
<1>1. Range(s) \subseteq Item /\ Range(s) # {}  BY RangeOf
<1>2. Keys \subseteq Key /\ Keys # {}  BY <1>1 DEF Item
<1>3. Key \subseteq Nat  BY DEF Key
<1>4. PICK k \in Keys : \A l \in Keys : k <= l
  <2> HIDE DEF Keys
  <2> QED  BY <1>2, <1>3, LeastNumber
<1>5. k \in Key /\ IsLeast(k)  BY <1>2, <1>4
<1>6. LeastKey(s) = CHOOSE l \in Key : IsLeast(l)  BY DEF LeastKey
<1>7. LeastKey(s) \in Key /\ IsLeast(LeastKey(s))
  <2> HIDE DEF IsLeast
  <2> QED  BY <1>5, <1>6
<1> QED  BY <1>7

\* The loop of prepareMin: the items of the bucket that is spread leave the heap and
\* are filed by the key l, one after the other.
LEMMA RefiledFacts ==
  ASSUME NEW l \in Key, NEW u \in Buckets, u = LowestUsed,
         NEW s \in Seq(Item), NoRepeat(s),
         WellFiled([buckets EXCEPT ![u] = <<>>], l),
         \A x \in Range(s) : /\ x \notin InHeap([buckets EXCEPT ![u] = <<>>])
                             /\ l <= x[1] /\ radixBucket(x[1], l) # u
  PROVE  LET B == [buckets EXCEPT ![u] = <<>>]
             R == Refiled(s, l)
         IN  WellFiled(R, l) /\ InHeap(R) = InHeap(B) \cup Range(s) /\ R[u] = B[u]
<1> DEFINE n == Len(s)
           B == [buckets EXCEPT ![u] = <<>>]
           S == [Buckets -> Seq(Item)]
           Turn == [q \in (1 .. n) \X S |-> WithItem(q[2], s[q[1]], l)]
           IsFiling(f) == f = [i \in 0 .. n |-> IF i = 0 THEN B ELSE WithItem(f[i - 1], s[i], l)]
           filed == CHOOSE f : IsFiling(f)
<1>1. /\ n \in Nat /\ Range(s) = {s[i] : i \in 1 .. n} /\ Range(s) \subseteq Item
  BY RangeOf
<1>2. B \in S  BY DEF WellFiled
<1>3. Refiled(s, l) = filed[n]  BY DEF Refiled, WithItem
<1>4. ASSUME NEW f \in S, NEW x \in Item
      PROVE  WithItem(f, x, l) \in S
  <2>1. radixBucket(x[1], l) \in Buckets  BY BucketFacts DEF Item
  <2>2. f[radixBucket(x[1], l)] \in Seq(Item)  BY <2>1
  <2>3. Append(f[radixBucket(x[1], l)], x) \in Seq(Item)  BY <2>2, Appended
  <2> QED  BY <2>1, <2>3 DEF WithItem
<1> HIDE DEF n
<1>5. \A i \in 1 .. n : s[i] \in Item  BY <1>1
<1>6. Turn \in [(1 .. n) \X S -> S]
  <2> HIDE DEF S
  <2> QED  BY <1>4, <1>5
<1>7. PICK f : IsRun(f, n, S, B, Turn)
  <2> HIDE DEF S, B, Turn
  <2> QED  BY <1>1, <1>2, <1>6, PrimitiveRecursion
<1> HIDE DEF B, S
<1>8. IsFiling(f)
  <2>1. f \in [0 .. n -> S] /\ f[0] = B /\ \A i \in 1 .. n : f[i] = Turn[<<i, f[i - 1]>>]
    BY <1>7 DEF IsRun
  <2>2. \A i \in 1 .. n : f[i] = WithItem(f[i - 1], s[i], l)
    <3> TAKE i \in 1 .. n
    <3>1. f[i - 1] \in S  BY <1>1, <2>1
    <3>2. Turn[<<i, f[i - 1]>>] = WithItem(f[i - 1], s[i], l)  BY <3>1
    <3> QED  BY <2>1, <3>2
  <2>3. \A i \in 0 .. n : i # 0 => i \in 1 .. n  BY <1>1
  <2>4. \A i \in 0 .. n : f[i] = IF i = 0 THEN B ELSE WithItem(f[i - 1], s[i], l)
    BY <2>1, <2>2, <2>3
  <2> QED  BY <2>1, <2>4
<1>9. IsFiling(filed)
  <2> HIDE DEF IsFiling
  <2> QED  BY <1>8
<1>10. /\ filed[0] = B
       /\ \A i \in 1 .. n : filed[i] = WithItem(filed[i - 1], s[i], l)
  <2> HIDE DEF filed
  <2>1. 0 \in 0 .. n /\ \A i \in 1 .. n : i \in 0 .. n /\ i # 0  BY <1>1
  <2> QED  BY <1>9, <2>1
<1> HIDE DEF filed
<1> DEFINE Before(i) == {s[j] : j \in 1 .. i}
           T == {i \in 0 .. n : /\ WellFiled(filed[i], l)
                               /\ InHeap(filed[i]) = InHeap(B) \cup Before(i)
                               /\ filed[i][u] = B[u]}
<1>11. 0 \in T
  <2>1. Before(0) = {}  OBVIOUS
  <2>2. WellFiled(B, l)  BY DEF B
  <2> QED  BY <1>1, <1>10, <2>1, <2>2
<1>12. ASSUME NEW i \in 0 .. n - 1, i \in T
       PROVE  i + 1 \in T
  <2> DEFINE x == s[i + 1]
  <2>1. i + 1 \in 1 .. n /\ (i + 1) - 1 = i /\ i + 1 \in 0 .. n  BY <1>1
  <2>2. filed[i + 1] = WithItem(filed[i], x, l)  BY <1>10, <2>1
  <2>3. x \in Item /\ x \in Range(s)  BY <1>1, <2>1
  <2>4. x \notin InHeap(B) /\ l <= x[1] /\ radixBucket(x[1], l) # u  BY <2>3 DEF B
  <2>5. x \notin Before(i)
    <3>1. \A j \in 1 .. i : j \in 1 .. n /\ j # i + 1  BY <1>1
    <3> QED  BY <2>1, <3>1 DEF NoRepeat, n
  <2>6. x \notin InHeap(filed[i]) /\ WellFiled(filed[i], l)  BY <1>12, <2>4, <2>5
  <2>7. /\ WellFiled(filed[i + 1], l)
        /\ InHeap(filed[i + 1]) = InHeap(filed[i]) \cup {x}
        /\ \A c \in Buckets : c # radixBucket(x[1], l) => filed[i + 1][c] = filed[i][c]
    <3> HIDE DEF x
    <3> QED  BY <2>2, <2>3, <2>4, <2>6, FiledOnce
  <2>8. Before(i + 1) = Before(i) \cup {x}
    <3>1. 1 .. i + 1 = (1 .. i) \cup {i + 1}  BY <1>1
    <3> QED  BY <3>1
  <2> HIDE DEF Before, x
  <2>9. InHeap(filed[i + 1]) = InHeap(B) \cup Before(i + 1)  BY <1>12, <2>7, <2>8
  <2>10. filed[i + 1][u] = B[u]  BY <1>12, <2>4, <2>7
  <2> QED  BY <2>1, <2>7, <2>9, <2>10
<1>13. 0 .. n \subseteq T
  <2>1. 0 \in Int /\ n \in Int  BY <1>1
  <2> HIDE DEF T
  <2> QED  BY <1>11, <1>12, <2>1, IntervalInduction
<1>14. n \in T /\ Before(n) = Range(s)
  <2>1. n \in 0 .. n  BY <1>1
  <2>2. Before(n) = Range(s)  BY <1>1
  <2> HIDE DEF T, Before
  <2> QED  BY <1>13, <2>1, <2>2
<1> QED  BY <1>3, <1>14 DEF B

\* prepareMin, when it has a bucket to spread.
LEMMA Spread ==
  ASSUME last \in Key, WellFiled(buckets, last), buckets[0] = <<>>, Contents # {}
  PROVE  LET u == LowestUsed
             m == LeastKey(buckets[u])
             R == Refiled(buckets[u], m)
         IN  /\ u \in Buckets \ {0}
             /\ m \in Key /\ last <= m /\ \A x \in Contents : m <= x[1]
             /\ WellFiled(R, m) /\ InHeap(R) = Contents
             /\ R[u] = <<>> /\ R[0] # <<>>
<1> DEFINE u == LowestUsed
           s == buckets[u]
           m == LeastKey(s)
           B == [buckets EXCEPT ![u] = <<>>]
           R == Refiled(s, m)
<1>1. buckets \in [Buckets -> Seq(Item)]  BY DEF WellFiled
<1>2. /\ u \in Buckets \ {0} /\ s # <<>>
      /\ \A c \in Buckets : c < u => buckets[c] = <<>>
  BY <1>1, LowestUsedFacts
<1>3. s \in Seq(Item) /\ NoRepeat(s)  BY <1>1, <1>2 DEF WellFiled
<1>4. /\ m \in Key /\ \E x \in Range(s) : x[1] = m
      /\ \A x \in Range(s) : m <= x[1]
  BY <1>2, <1>3, LeastKeyFacts
<1>5. \A b \in Buckets : \A x \in Range(buckets[b]) :
        x \in Item /\ x[1] \in Key /\ last <= x[1] /\ radixBucket(x[1], last) = b
  BY <1>1, ItemFacts DEF WellFiled
<1>6. \A x \in Range(s) : x \in Item /\ x[1] \in Key /\ last <= x[1] /\ radixBucket(x[1], last) = u
  BY <1>2, <1>5
<1>7. last <= m /\ radixBucket(m, last) = u  BY <1>4, <1>6
<1>8. B[u] = <<>> /\ (\A c \in Buckets : c # u => B[c] = buckets[c]) /\ B \in [Buckets -> Seq(Item)]
  BY <1>1, <1>2
<1>9. InHeap(B) \cup Range(s) = Contents
  <2>. Range(B[u]) = {}  BY <1>8 DEF Range
  <2>1. \A x \in Contents : x \in InHeap(B) \cup Range(s)  BY <1>8 DEF Contents, InHeap
  <2>2. \A x \in InHeap(B) : x \in Contents
    BY <1>8 DEF Contents, InHeap
  <2>3. \A x \in Range(s) : x \in Contents  BY <1>2 DEF Contents
  <2> QED  BY <2>1, <2>2, <2>3
<1>10. Range(B[u]) = {} /\ NoRepeat(B[u])
  BY <1>8 DEF Range, NoRepeat
<1> HIDE DEF u, s, m, B
<1>11. ASSUME NEW c \in Buckets, NEW x \in Range(B[c])
       PROVE  m <= x[1] /\ radixBucket(x[1], m) = c /\ x \in Range(buckets[c]) /\ c # u
  <2>1. c # u /\ B[c] = buckets[c]  BY <1>8, <1>10
  <2>2. x \in Range(buckets[c]) /\ x[1] \in Key /\ last <= x[1] /\ radixBucket(x[1], last) = c
    BY <1>5, <2>1
  <2>3. buckets[c] # <<>>  BY <2>2 DEF Range
  <2>4. u < c  BY <1>2, <2>1, <2>3, WidthAssumption DEF Buckets
  <2>5. m <= x[1] /\ radixBucket(x[1], m) = c
    BY <1>4, <1>7, <2>2, <2>4, BucketStays
  <2> QED  BY <2>1, <2>2, <2>5
<1>12. WellFiled(B, m)
  <2>1. \A c \in Buckets : NoRepeat(B[c])  BY <1>8, <1>10 DEF WellFiled
  <2> QED  BY <1>8, <1>11, <2>1 DEF WellFiled
<1>13. ASSUME NEW x \in Range(s)
       PROVE  x \notin InHeap(B) /\ m <= x[1] /\ radixBucket(x[1], m) # u
  <2>1. x[1] \in Key /\ last <= x[1] /\ radixBucket(x[1], last) = u  BY <1>6
  <2>2. \A c \in Buckets : x \notin Range(B[c])  BY <1>5, <1>11, <2>1
  <2>3. radixBucket(x[1], m) < u  BY <1>2, <1>4, <1>7, <2>1, BucketFalls
  <2>4. radixBucket(x[1], m) # u  BY <1>2, <2>3, WidthAssumption DEF Buckets
  <2> QED  BY <1>4, <2>2, <2>4 DEF InHeap
<1>14. WellFiled(R, m) /\ InHeap(R) = InHeap(B) \cup Range(s) /\ R[u] = B[u]
  BY <1>2, <1>3, <1>4, <1>12, <1>13, RefiledFacts DEF B, u
<1>15. R[0] # <<>>
  <2>1. PICK x \in Range(s) : x[1] = m  BY <1>4
  <2>2. PICK c \in Buckets : x \in Range(R[c])  BY <1>14, <2>1 DEF InHeap
  <2>3. radixBucket(m, m) = c  BY <1>14, <2>1, <2>2 DEF WellFiled
  <2>4. c = 0  BY <1>4, <2>3, BucketZero
  <2> QED  BY <2>2, <2>4 DEF Range
<1>16. \A x \in Contents : m <= x[1]
  BY <1>4, <1>9, <1>11 DEF InHeap
<1> QED  BY <1>2, <1>4, <1>7, <1>8, <1>9, <1>14, <1>15, <1>16 DEF m, s, u

\* The last item of bucket zero leaves the heap.
LEMMA TakenOut ==
  ASSUME NEW l \in Key, NEW f, WellFiled(f, l), f[0] # <<>>
  PROVE  LET g == [f EXCEPT ![0] = Front(@)]
             x == Last(f[0])
         IN  /\ WellFiled(g, l) /\ InHeap(g) = InHeap(f) \ {x}
             /\ x \in InHeap(f) /\ x \in Item /\ x[1] = l
<1> DEFINE g == [f EXCEPT ![0] = Front(@)]
           x == Last(f[0])
<1>1. 0 \in Buckets  BY WidthAssumption DEF Buckets
<1>2. f \in [Buckets -> Seq(Item)] /\ f[0] \in Seq(Item) /\ NoRepeat(f[0])
  BY <1>1 DEF WellFiled
<1>3. /\ Front(f[0]) \in Seq(Item) /\ x \in Range(f[0]) /\ NoRepeat(Front(f[0]))
      /\ Range(Front(f[0])) = Range(f[0]) \ {x}
  BY <1>2, Shortened
<1>4. /\ g \in [Buckets -> Seq(Item)] /\ g[0] = Front(f[0])
      /\ \A c \in Buckets : c # 0 => g[c] = f[c]
  BY <1>1, <1>2, <1>3
<1> HIDE DEF g, x
<1>5. x \in Item /\ x[1] \in Key /\ l <= x[1] /\ radixBucket(x[1], l) = 0
  BY <1>1, <1>2, <1>3, ItemFacts DEF WellFiled
<1>6. x[1] = l  BY <1>5, BucketZero
<1>7. \A c \in Buckets : Range(g[c]) = Range(f[c]) \ {x}
  <2> TAKE c \in Buckets
  <2>1. CASE c = 0  BY <1>3, <1>4, <2>1
  <2>2. CASE c # 0
    <3>1. x \notin Range(f[c])  BY <1>5, <2>2 DEF WellFiled
    <3> QED  BY <1>4, <2>2, <3>1
  <2> QED  BY <2>1, <2>2
<1>8. WellFiled(g, l)
  <2>1. \A c \in Buckets : NoRepeat(g[c])  BY <1>3, <1>4 DEF WellFiled
  <2>2. \A c \in Buckets : \A y \in Range(g[c]) : l <= y[1] /\ radixBucket(y[1], l) = c
    BY <1>7 DEF WellFiled
  <2> QED  BY <1>4, <2>1, <2>2 DEF WellFiled
<1>9. InHeap(g) = InHeap(f) \ {x}
  <2>1. \A y \in InHeap(g) : y \in InHeap(f) \ {x}  BY <1>7 DEF InHeap
  <2>2. \A y \in InHeap(f) \ {x} : y \in InHeap(g)  BY <1>7 DEF InHeap
  <2> QED  BY <2>1, <2>2
<1>10. x \in InHeap(f)  BY <1>1, <1>3 DEF InHeap
<1> QED  BY <1>5, <1>6, <1>8, <1>9, <1>10 DEF g, x

-----------------------------------------------------------------------------
(* The inductive invariant *)

HeapTypes ==
  /\ last \in Key /\ held \in Key /\ size \in Nat
  /\ peeked \in BOOLEAN /\ panicked \in BOOLEAN

\* The buckets are filed by last, and size counts the items.
Filing == WellFiled(buckets, last) /\ IsFiniteSet(Contents) /\ size = Cardinality(Contents)

\* last is the key of the item removed last until the front is looked at, and what
\* was seen at the front stays there.
AtFront ==
  /\ ~peeked => held = last
  /\ out \in Contents => buckets[0] # <<>> /\ out = Last(buckets[0])

RInv == HeapTypes /\ Filing /\ AtFront /\ NeverPanics

LEMMA PreparedFacts ==
  ASSUME RInv
  PROVE  LET p == Prepared
         IN  /\ p.last \in Key /\ last <= p.last
             /\ WellFiled(p.buckets, p.last) /\ InHeap(p.buckets) = Contents
             /\ size > 0 <=> Contents # {}
             /\ size > 0 => p.buckets[0] # <<>>
             /\ \A x \in Contents : p.last <= x[1]
             /\ \/ p.last = last /\ p.buckets = buckets
                \/ LowestUsed # 0 /\ p.buckets[LowestUsed] = <<>>
             /\ buckets[0] # <<>> \/ size = 0 => p.last = last /\ p.buckets = buckets
<1>1. last \in Key /\ WellFiled(buckets, last) /\ size \in Nat
  BY DEF RInv, HeapTypes, Filing
<1>2. size = 0 <=> Contents = {}  BY FS_EmptySet DEF RInv, Filing
<1>3. InHeap(buckets) = Contents  BY DEF InHeap, Contents
<1>4. last \in Nat  BY <1>1, HighFacts
<1>5. \A x \in Contents : last <= x[1]  BY <1>1 DEF WellFiled, Contents
<1>6. CASE buckets[0] # <<>> \/ size = 0
  <2>1. Prepared = [last |-> last, buckets |-> buckets]  BY <1>6 DEF Prepared
  <2>2. Prepared.last = last /\ Prepared.buckets = buckets  BY <2>1
  <2>3. last <= last  BY <1>4
  <2> QED  BY <1>1, <1>2, <1>3, <1>5, <1>6, <2>2, <2>3
<1>7. CASE ~(buckets[0] # <<>> \/ size = 0)
  <2> DEFINE m == LeastKey(buckets[LowestUsed])
             R == Refiled(buckets[LowestUsed], m)
  <2>1. Prepared = [last |-> m, buckets |-> R]  BY <1>7 DEF Prepared
  <2> HIDE DEF m, R
  <2>2. Prepared.last = m /\ Prepared.buckets = R  BY <2>1
  <2>3. buckets[0] = <<>> /\ Contents # {}  BY <1>2, <1>7
  <2>4. /\ LowestUsed # 0
        /\ m \in Key /\ last <= m /\ \A x \in Contents : m <= x[1]
        /\ WellFiled(R, m) /\ InHeap(R) = Contents
        /\ R[LowestUsed] = <<>> /\ R[0] # <<>>
    BY <1>1, <2>3, Spread DEF m, R
  <2> QED  BY <1>1, <1>2, <1>7, <2>2, <2>4
<1> QED  BY <1>6, <1>7

LEMMA InitInv == Init => RInv
<1> SUFFICES ASSUME Init PROVE RInv  OBVIOUS
<1>1. 0 \in Key  BY WidthAssumption, PowerFacts DEF Buckets, Key
<1>2. Contents = {}  BY DEF Init, Contents, Range
<1>3. Filing
  <2>1. buckets \in [Buckets -> Seq(Item)]  BY DEF Init
  <2>2. \A b \in Buckets : Range(buckets[b]) = {} /\ NoRepeat(buckets[b])
    BY DEF Init, Range, NoRepeat
  <2> QED  BY <1>2, <2>1, <2>2, FS_EmptySet DEF Filing, WellFiled, Init
<1> QED  BY <1>1, <1>2, <1>3 DEF Init, RInv, HeapTypes, AtFront, NeverPanics

\* The search pushes no key below last, so that the push succeeds.
LEMMA PushStep ==
  ASSUME RInv, NEW x \in Item, x[2] \notin Live, Relaxed(x[1]), radixPush(x)
  PROVE  RInv' /\ PQ!Push /\ last' = last
<1>1. x[1] \in Key /\ x \notin Contents  BY DEF Item, Live
<1>2. last \in Key /\ WellFiled(buckets, last) /\ IsFiniteSet(Contents) /\ size = Cardinality(Contents)
  BY DEF RInv, HeapTypes, Filing
<1>3. last <= x[1] /\ ~(x[1] < last)  BY <1>1, <1>2, HighFacts DEF RInv, AtFront, Relaxed
<1>4. InHeap(buckets) = Contents /\ InHeap(buckets') = Contents'  BY DEF InHeap, Contents
<1>5. /\ buckets' = WithItem(buckets, x, last) /\ size' = size + 1 /\ panicked' = panicked
      /\ last' = last /\ held' = held /\ peeked' = peeked /\ out' = NoItem
  BY <1>3 DEF radixPush, WithItem
<1>6. WellFiled(buckets', last) /\ Contents' = Contents \cup {x}
  BY <1>1, <1>2, <1>3, <1>4, <1>5, FiledOnce
<1>7. Filing'
  <2>1. IsFiniteSet(Contents') /\ Cardinality(Contents') = Cardinality(Contents) + 1
    BY <1>1, <1>2, <1>6, FS_AddElement
  <2> QED  BY <1>2, <1>5, <1>6, <2>1 DEF Filing
<1>8. out' \notin Contents'
  <2>1. Contents' \subseteq Item  BY <1>6, ItemFacts DEF WellFiled, Contents
  <2> QED  BY <1>5, <2>1, ItemAssumption
<1>9. RInv'
  BY <1>5, <1>7, <1>8 DEF RInv, HeapTypes, AtFront, NeverPanics
<1>10. PQ!Push  BY <1>1, <1>5, <1>6 DEF PQ!Push, Item
<1> QED  BY <1>5, <1>9, <1>10

LEMMA PeekStep ==
  ASSUME RInv, radixPeek
  PROVE  RInv' /\ PQ!Peek /\ (last' > last => buckets'[LowestUsed] = <<>>)
<1>1. /\ last' = Prepared.last /\ buckets' = Prepared.buckets /\ peeked' = TRUE
      /\ out' = IF size = 0 THEN NoItem ELSE Last(buckets'[0])
      /\ size' = size /\ held' = held /\ panicked' = panicked
  BY DEF radixPeek
<1>2. InHeap(buckets') = Contents'  BY DEF InHeap, Contents
<1>3. /\ last' \in Key /\ WellFiled(buckets', last') /\ Contents' = Contents
      /\ size > 0 <=> Contents # {}
      /\ size > 0 => buckets'[0] # <<>>
      /\ \A x \in Contents : last' <= x[1]
      /\ last' = last \/ buckets'[LowestUsed] = <<>>
      /\ buckets[0] # <<>> => buckets' = buckets
  BY <1>1, <1>2, PreparedFacts
<1>4. last \in Nat /\ last' \in Nat /\ size \in Nat  BY <1>3, HighFacts DEF RInv, HeapTypes
<1>5. ASSUME size > 0
      PROVE  out' \in Contents /\ out'[1] = last' /\ out' = Last(buckets'[0])
  <2>1. WellFiled(buckets', last') /\ buckets'[0] # <<>> /\ last' \in Key  BY <1>3, <1>5
  <2>2. Last(buckets'[0]) \in InHeap(buckets') /\ Last(buckets'[0])[1] = last'
    BY <2>1, TakenOut
  <2>3. out' = Last(buckets'[0])  BY <1>1, <1>4, <1>5
  <2> QED  BY <1>2, <1>3, <2>2, <2>3
<1>6. RInv'
  <2>1. Filing'  BY <1>1, <1>3 DEF RInv, Filing
  <2>2. AtFront'
    <3>1. out' \in Contents' => size > 0  BY <1>3
    <3> QED  BY <1>1, <1>3, <1>5, <3>1 DEF AtFront
  <2> QED  BY <1>1, <1>3, <2>1, <2>2 DEF RInv, HeapTypes, NeverPanics
<1>7. PQ!Peek
  <2>1. CASE size = 0  BY <1>1, <1>3, <2>1 DEF PQ!Peek
  <2>2. CASE size # 0
    <3>1. Contents # {} /\ size > 0  BY <1>3, <1>4, <2>2
    <3>2. out' \in PQ!Least  BY <1>3, <1>5, <3>1 DEF PQ!Least
    <3>3. out \in Contents => out' = out
      BY <1>3, <1>5, <3>1 DEF RInv, AtFront
    <3> QED  BY <1>3, <3>1, <3>2, <3>3 DEF PQ!Peek, PQ!Due
  <2> QED  BY <2>1, <2>2
<1> QED  BY <1>3, <1>4, <1>6, <1>7

LEMMA PopStep ==
  ASSUME RInv, radixPop
  PROVE  RInv' /\ PQ!Pop /\ (last' > last => buckets'[LowestUsed] = <<>>)
<1> DEFINE R == Prepared.buckets
           x == Last(R[0])
<1>1. /\ size > 0 /\ last' = Prepared.last /\ buckets' = [R EXCEPT ![0] = Front(@)]
      /\ out' = x /\ held' = x[1] /\ size' = size - 1 /\ peeked' = FALSE
      /\ panicked' = panicked
  BY DEF radixPop
<1>2. InHeap(buckets') = Contents'  BY DEF InHeap, Contents
<1>3. /\ last' \in Key /\ WellFiled(R, last') /\ InHeap(R) = Contents
      /\ R[0] # <<>>
      /\ \A y \in Contents : last' <= y[1]
      /\ last' = last \/ (LowestUsed # 0 /\ R[LowestUsed] = <<>>)
      /\ buckets[0] # <<>> => R = buckets
  BY <1>1, PreparedFacts
<1> HIDE DEF R, x
<1>4. /\ WellFiled(buckets', last') /\ InHeap(buckets') = InHeap(R) \ {x}
      /\ x \in InHeap(R) /\ x[1] = last'
  BY <1>1, <1>3, TakenOut DEF x
<1>5. Contents' = Contents \ {x} /\ x \in Contents  BY <1>2, <1>3, <1>4
<1>6. last \in Nat /\ last' \in Nat /\ size \in Nat  BY <1>3, HighFacts DEF RInv, HeapTypes
<1>7. RInv'
  <2>1. /\ IsFiniteSet(Contents') /\ Cardinality(Contents') = Cardinality(Contents) - 1
    BY <1>5, FS_RemoveElement DEF RInv, Filing
  <2>2. Filing'  BY <1>1, <1>4, <2>1 DEF RInv, Filing
  <2>3. AtFront'  BY <1>1, <1>4, <1>5 DEF AtFront
  <2>4. size' \in Nat  BY <1>1, <1>6
  <2>5. held' \in Key  BY <1>1, <1>3, <1>4
  <2>6. peeked' \in BOOLEAN /\ panicked' \in BOOLEAN /\ ~panicked'
    BY <1>1 DEF RInv, HeapTypes, NeverPanics
  <2> QED  BY <1>3, <2>2, <2>3, <2>4, <2>5, <2>6 DEF RInv, HeapTypes, NeverPanics
<1>8. PQ!Pop
  <2>1. x \in PQ!Least  BY <1>3, <1>4, <1>5 DEF PQ!Least
  <2>2. out \in Contents => x = out  BY <1>3 DEF RInv, AtFront, x
  <2>3. x \in PQ!Due  BY <2>1, <2>2 DEF PQ!Due
  <2> QED  BY <1>1, <1>5, <2>3 DEF PQ!Pop
<1>9. last' > last => buckets'[LowestUsed] = <<>>
  <2> SUFFICES ASSUME last' > last PROVE buckets'[LowestUsed] = <<>>  OBVIOUS
  <2>1. LowestUsed # 0 /\ R[LowestUsed] = <<>>  BY <1>3, <1>6
  <2>2. R = [b \in Buckets |-> R[b]]  BY <1>3 DEF WellFiled
  <2> QED  BY <1>1, <2>1, <2>2
<1> QED  BY <1>7, <1>8, <1>9

LEMMA ResetStep ==
  ASSUME RInv, reset
  PROVE  RInv' /\ PQ!Reset /\ ~(last' > last)
<1>1. Init'  BY DEF RInv, NeverPanics, reset, Init
<1>2. RInv'
  <2>1. 0 \in Key  BY WidthAssumption, PowerFacts DEF Buckets, Key
  <2>2. Contents' = {}  BY <1>1 DEF Init, Contents, Range
  <2>3. Filing'
    <3>1. buckets' \in [Buckets -> Seq(Item)]  BY <1>1 DEF Init
    <3>2. \A b \in Buckets : Range(buckets'[b]) = {} /\ NoRepeat(buckets'[b])
      BY <1>1 DEF Init, Range, NoRepeat
    <3> QED  BY <1>1, <2>2, <3>1, <3>2, FS_EmptySet DEF Filing, WellFiled, Init
  <2> QED  BY <1>1, <2>1, <2>2, <2>3 DEF Init, RInv, HeapTypes, AtFront, NeverPanics
<1>3. Contents' = {} /\ out' = NoItem /\ last' = 0  BY <1>1 DEF Init, Contents, Range
<1>4. last \in Nat  BY HighFacts DEF RInv, HeapTypes
<1> QED  BY <1>2, <1>3, <1>4 DEF PQ!Reset

LEMMA HeapStep ==
  ASSUME RInv, [Next]_vars
  PROVE  /\ RInv'
         /\ last' > last => buckets'[LowestUsed] = <<>>
         /\ [PQ!Next]_<<Contents, out>>
<1>1. last \in Nat  BY HighFacts DEF RInv, HeapTypes
<1>2. ASSUME NEW x \in Item, x[2] \notin Live, Relaxed(x[1]), radixPush(x)
      PROVE  RInv' /\ PQ!Next /\ ~(last' > last)
  BY <1>1, <1>2, PushStep DEF PQ!Next
<1>3. CASE radixPeek  BY <1>3, PeekStep DEF PQ!Next
<1>4. CASE radixPop  BY <1>4, PopStep DEF PQ!Next
<1>5. CASE reset  BY <1>5, ResetStep DEF PQ!Next
<1>6. CASE UNCHANGED vars
  <2>1. RInv'
    BY <1>6 DEF vars, RInv, HeapTypes, Filing, WellFiled, Contents, AtFront, NeverPanics
  <2>2. UNCHANGED <<Contents, out>>  BY <1>6 DEF vars, Contents
  <2>3. ~(last' > last)  BY <1>1, <1>6 DEF vars
  <2> QED  BY <2>1, <2>2, <2>3
<1> QED  BY <1>2, <1>3, <1>4, <1>5, <1>6 DEF Next, Calls

LEMMA HeapInvariant == Spec => []RInv
<1>1. RInv /\ [Next]_vars => RInv'  BY HeapStep
<1> QED  BY InitInv, <1>1, PTL DEF Spec

-----------------------------------------------------------------------------
(* The theorems *)

\* Every item stays filed under the highest bit in which its key differs from last,
\* last is below every key, and size counts the items (radix.go:25-66).
THEOREM HeapFiled == Spec => []FiledByLast
<1>1. RInv => FiledByLast  BY DEF RInv, Filing, FiledByLast, WellFiled, HeapTypes, Key
<1> QED  BY HeapInvariant, <1>1, PTL

\* Under what the search pushes, "radix heap: non-monotone key" is never raised
\* (radix.go:33-36).
THEOREM HeapNeverPanics == Spec => []NeverPanics
<1>1. RInv => NeverPanics  BY DEF RInv
<1> QED  BY HeapInvariant, <1>1, PTL

\* prepareMin never appends to the bucket it is spreading, whose array it has reset to
\* length zero and still reads (radix.go:60-65).
THEOREM HeapSpreadsDownwards == Spec => SpreadsDownwards
<1>1. RInv /\ [Next]_vars => [last' > last => buckets'[LowestUsed] = <<>>]_vars
  BY HeapStep
<1> QED  BY HeapInvariant, <1>1, PTL DEF Spec, SpreadsDownwards

\* The radix heap implements the priority queue the search counts on (radix.go:5-8,
\* acbs.go:645-656): what is handed out has a least key, what was looked at is popped
\* next, and nothing is lost.
THEOREM HeapIsPriorityQueue == Spec => IsPriorityQueue
<1>1. Init => PQ!Init  BY DEF Init, PQ!Init, Contents, Range
<1>2. RInv /\ [Next]_vars => [PQ!Next]_<<Contents, out>>  BY HeapStep
<1> QED  BY HeapInvariant, <1>1, <1>2, PTL DEF Spec, PQ!Spec, IsPriorityQueue
=============================================================================
