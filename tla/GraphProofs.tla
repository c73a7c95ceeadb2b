---------------------------- MODULE GraphProofs ----------------------------
(***************************************************************************)
(* What a Load returns was saved, for any graph, disk and buffer; the arcs *)
(* of an imported graph are the roads of its file; the searches may assume *)
(* of every graph what they do assume; and the pool of the benchmark is a  *)
(* largest strongly connected component of its graph.                      *)
(***************************************************************************)
EXTENDS GraphStore, QueryPool, FiniteSetTheorems, Recursion

-----------------------------------------------------------------------------
(* Blocks of an array                                                      *)

HasJoined(c, a, b, T) ==
  /\ c \in Seq(T) /\ Len(a) \in Nat /\ Len(b) \in Nat /\ Len(c) = Len(a) + Len(b)
  /\ \A k \in 1 .. Len(a) : c[k] = a[k]
  /\ \A k \in 1 .. Len(b) : c[Len(a) + k] = b[k]
LEMMA Joined ==
  ASSUME NEW T, NEW a \in Seq(T), NEW b \in Seq(T)
  PROVE  HasJoined(a \o b, a, b, T)
BY DEF HasJoined

LEMMA OffsetsFacts ==
  ASSUME NEW n \in Nat, NEW sizes \in [1 .. n -> Nat]
  PROVE  /\ Offsets(sizes) \in [1 .. n + 1 -> Nat] /\ Offsets(sizes)[1] = 0
         /\ \A v \in 1 .. n : Offsets(sizes)[v + 1] = Offsets(sizes)[v] + sizes[v]
         /\ \A v \in 1 .. n + 1 : Offsets(sizes)[v] <= Offsets(sizes)[n + 1]
<1> DEFINE Turn == [ip \in (1 .. n) \X Nat |-> ip[2] + sizes[ip[1]]]
           IsBefore(f) == f = [v \in 1 .. n + 1 |-> IF v = 1 THEN 0 ELSE f[v - 1] + sizes[v - 1]]
           o == Offsets(sizes)
<1>1. Turn \in [(1 .. n) \X Nat -> Nat]  OBVIOUS
<1>2. PICK f : IsRun(f, n, Nat, 0, Turn)
  <2> HIDE DEF Turn
  <2> QED  BY <1>1, PrimitiveRecursion
<1>3. f \in [0 .. n -> Nat] /\ f[0] = 0 /\ \A i \in 1 .. n : f[i] = Turn[<<i, f[i - 1]>>]
  BY <1>2 DEF IsRun
<1>4. \A i \in 1 .. n : f[i] = f[i - 1] + sizes[i]
  <2> TAKE i \in 1 .. n
  <2>1. f[i - 1] \in Nat  BY <1>3
  <2> QED  BY <1>3, <2>1
<1> DEFINE b == [v \in 1 .. n + 1 |-> f[v - 1]]
<1>5. IsBefore(b)
  <2>1. ASSUME NEW v \in 1 .. n + 1
        PROVE  b[v] = IF v = 1 THEN 0 ELSE b[v - 1] + sizes[v - 1]
    <3>1. CASE v = 1  BY <1>3, <3>1
    <3>2. CASE v # 1
      <4>1. v - 1 \in 1 .. n /\ v - 1 \in 1 .. n + 1 /\ (v - 1) - 1 = v - 2  BY <3>2
      <4>2. f[v - 1] = f[(v - 1) - 1] + sizes[v - 1]  BY <1>4, <4>1
      <4> QED  BY <3>2, <4>1, <4>2
    <3> QED  BY <3>1, <3>2
  <2> HIDE DEF b
  <2>2. DOMAIN b = 1 .. n + 1 /\ b = [v \in 1 .. n + 1 |-> b[v]]  BY DEF b
  <2> QED  BY <2>1, <2>2
<1>6. Len(sizes) = n  OBVIOUS
<1>7. o = CHOOSE g : IsBefore(g)  BY <1>6 DEF Offsets
<1>8. IsBefore(o)
  <2> HIDE DEF IsBefore, b, o
  <2> QED  BY <1>5, <1>7
<1> HIDE DEF o
<1>9. o[1] = 0 /\ \A v \in 1 .. n : o[v + 1] = o[v] + sizes[v]
  <2>1. \A v \in 1 .. n + 1 : o[v] = IF v = 1 THEN 0 ELSE o[v - 1] + sizes[v - 1]  BY <1>8
  <2>2. \A v \in 1 .. n : v + 1 \in 1 .. n + 1 /\ v + 1 # 1 /\ (v + 1) - 1 = v  OBVIOUS
  <2> QED  BY <2>1, <2>2
<1>10. \A v \in 1 .. n + 1 : o[v] \in Nat
  <2> DEFINE N == {v \in 1 .. n + 1 : o[v] \in Nat}
  <2>1. 1 \in N  BY <1>9
  <2>2. \A v \in 1 .. (n + 1) - 1 : v \in N => v + 1 \in N  BY <1>9
  <2> HIDE DEF N
  <2>3. 1 \in Int /\ n + 1 \in Int  OBVIOUS
  <2>4. 1 .. n + 1 \subseteq N  BY <2>1, <2>2, <2>3, IntervalInduction
  <2> QED  BY <2>4 DEF N
<1>11. \A v \in 1 .. n + 1 : o[v] <= o[n + 1]
  <2> TAKE v \in 1 .. n + 1
  <2> DEFINE N == {w \in v .. n + 1 : o[v] <= o[w]}
  <2>1. v \in N  BY <1>10
  <2>2. ASSUME NEW w \in v .. (n + 1) - 1, w \in N PROVE w + 1 \in N
    <3>1. o[w + 1] = o[w] + sizes[w] /\ o[w] \in Nat /\ sizes[w] \in Nat /\ o[v] \in Nat
      BY <1>9, <1>10
    <3> QED  BY <2>2, <3>1
  <2> HIDE DEF N
  <2>3. v \in Int /\ n + 1 \in Int  OBVIOUS
  <2>4. v .. n + 1 \subseteq N  BY <2>1, <2>2, <2>3, IntervalInduction
  <2> QED  BY <2>4 DEF N
<1>12. DOMAIN o = 1 .. n + 1  BY <1>8
<1>13. o = [v \in 1 .. n + 1 |-> o[v]]
  <2>1. \E g : o = [v \in 1 .. n + 1 |-> IF v = 1 THEN 0 ELSE g[v - 1] + sizes[v - 1]]  BY <1>8
  <2> QED  BY <2>1
<1> QED  BY <1>9, <1>10, <1>11, <1>13 DEF o

\* The offsets of blocks, and where they put them.
AreOffsets(o, n, s) ==
  /\ o \in [1 .. n + 1 -> Nat] /\ o[1] = 0
  /\ \A v \in 1 .. n : o[v + 1] = o[v] + Len(s[v])
HasLengths(s, n) == \A v \in 1 .. n : Len(s[v]) \in Nat
LEMMA OffsetsOfBlocks ==
  ASSUME NEW n \in Nat, NEW s, HasLengths(s, n)
  PROVE  AreOffsets(Offsets([v \in 1 .. n |-> Len(s[v])]), n, s)
<1> DEFINE sizes == [v \in 1 .. n |-> Len(s[v])]
<1>1. sizes \in [1 .. n -> Nat] /\ \A v \in 1 .. n : sizes[v] = Len(s[v])  BY DEF HasLengths
<1> HIDE DEF sizes
<1>2. /\ Offsets(sizes) \in [1 .. n + 1 -> Nat] /\ Offsets(sizes)[1] = 0
      /\ \A v \in 1 .. n : Offsets(sizes)[v + 1] = Offsets(sizes)[v] + sizes[v]
  BY <1>1, OffsetsFacts
<1>3. AreOffsets(Offsets(sizes), n, s)  BY <1>1, <1>2 DEF AreOffsets
<1> QED  BY <1>3 DEF sizes

HasBlocks(f, o, n, s, T) ==
  /\ f \in Seq(T) /\ Len(f) = o[n + 1]
  /\ \A v \in 1 .. n : \A k \in 1 .. Len(s[v]) :
       o[v] + k \in 1 .. o[n + 1] /\ f[o[v] + k] = s[v][k]

\* Flattening puts the blocks one behind the other, where the offsets say.
LEMMA FlattenFacts ==
  ASSUME NEW T, NEW n \in Nat, n # 0, NEW s \in [1 .. n -> Seq(T)],
         NEW o, AreOffsets(o, n, s)
  PROVE  HasBlocks(FlattenSeq(s), o, n, s, T)
<1>0. /\ o \in [1 .. n + 1 -> Nat] /\ o[1] = 0
      /\ \A v \in 1 .. n : o[v + 1] = o[v] + Len(s[v])
  BY DEF AreOffsets
<1>1. 1 \in 1 .. n /\ \A v \in 1 .. n : s[v] \in Seq(T) /\ v + 1 \in 1 .. n + 1 /\ o[v + 1] \in Nat
  BY <1>0
<1> DEFINE Turn == [ip \in (1 .. n) \X Seq(T) |-> ip[2] \o s[ip[1]]]
           IsFlat(f) == f = [i \in 1 .. n |-> IF i = 1 THEN s[i] ELSE f[i - 1] \o s[i]]
           flatten == CHOOSE f : IsFlat(f)
<1>2. Turn \in [(1 .. n) \X Seq(T) -> Seq(T)]  OBVIOUS
<1>3. PICK f : IsRun(f, n, Seq(T), <<>>, Turn)
  <2>1. <<>> \in Seq(T)  OBVIOUS
  <2> HIDE DEF Turn
  <2> QED  BY <1>2, <2>1, PrimitiveRecursion
<1>4. f \in [0 .. n -> Seq(T)] /\ f[0] = <<>> /\ \A i \in 1 .. n : f[i] = Turn[<<i, f[i - 1]>>]
  BY <1>3 DEF IsRun
<1>5. \A i \in 1 .. n : f[i] = f[i - 1] \o s[i] /\ f[i - 1] \in Seq(T)
  <2> TAKE i \in 1 .. n
  <2>1. f[i - 1] \in Seq(T)  BY <1>4
  <2> QED  BY <1>4, <2>1
<1> DEFINE g == [i \in 1 .. n |-> f[i]]
<1>6. IsFlat(g)
  <2>1. ASSUME NEW i \in 1 .. n PROVE g[i] = IF i = 1 THEN s[i] ELSE g[i - 1] \o s[i]
    <3>1. CASE i = 1
      <4>1. f[1] = f[0] \o s[1] /\ f[0] = <<>> /\ s[1] \in Seq(T)
        <5>1. f[1] = f[1 - 1] \o s[1] /\ 1 - 1 = 0 /\ s[1] \in Seq(T)  BY <1>1, <1>5
        <5> QED  BY <1>4, <5>1
      <4>2. f[1] = s[1]  BY <4>1
      <4> QED  BY <3>1, <4>2
    <3>2. CASE i # 1
      <4>1. i - 1 \in 1 .. n  BY <3>2
      <4> QED  BY <1>5, <3>2, <4>1
    <3> QED  BY <3>1, <3>2
  <2> HIDE DEF g
  <2>2. g = [i \in 1 .. n |-> g[i]]  BY DEF g
  <2> QED  BY <2>1, <2>2
<1>7. FlattenSeq(s) = flatten[n]
  <2>1. Len(s) = n  OBVIOUS
  <2> QED  BY <2>1 DEF FlattenSeq
<1>8. IsFlat(flatten)
  <2> HIDE DEF IsFlat, g
  <2> QED  BY <1>6
<1>9. \A i \in 1 .. n : flatten[i] = IF i = 1 THEN s[i] ELSE flatten[i - 1] \o s[i]
  <2> HIDE DEF flatten
  <2> QED  BY <1>8
<1> HIDE DEF flatten
<1> DEFINE Laid(v) == /\ flatten[v] \in Seq(T) /\ Len(flatten[v]) = o[v + 1]
                      /\ \A u \in 1 .. v : \A k \in 1 .. Len(s[u]) :
                           o[u] + k \in 1 .. o[v + 1] /\ flatten[v][o[u] + k] = s[u][k]
           N == {v \in 1 .. n : Laid(v)}
<1>10. 1 \in N
  <2>1. flatten[1] = s[1] /\ s[1] \in Seq(T) /\ o[1 + 1] = Len(s[1])
    BY <1>0, <1>1, <1>9
  <2>2. ASSUME NEW u \in 1 .. 1, NEW k \in 1 .. Len(s[u])
        PROVE  o[u] + k \in 1 .. o[1 + 1] /\ flatten[1][o[u] + k] = s[u][k]
    <3>1. u = 1 /\ o[u] + k = k /\ k \in 1 .. Len(s[1])  BY <1>0
    <3> QED  BY <2>1, <3>1
  <2> QED  BY <1>1, <2>1, <2>2
<1>11. ASSUME NEW v \in 1 .. n - 1, v \in N PROVE v + 1 \in N
  <2>0. v + 1 \in 1 .. n /\ (v + 1) - 1 = v /\ v + 1 # 1 /\ v \in 1 .. n  OBVIOUS
  <2>1. flatten[v + 1] = flatten[v] \o s[v + 1] /\ s[v + 1] \in Seq(T)
    BY <1>1, <1>9, <2>0
  <2>2. o[(v + 1) + 1] = o[v + 1] + Len(s[v + 1]) /\ o[v + 1] \in Nat  BY <1>0, <1>1, <2>0
  <2>3. flatten[v] \in Seq(T) /\ Len(flatten[v]) = o[v + 1]  BY <1>11
  <2> DEFINE a == flatten[v]
             b == s[v + 1]
             c == a \o b
  <2> HIDE DEF a, b, c
  <2>4. /\ c \in Seq(T) /\ Len(c) = Len(a) + Len(b) /\ Len(a) \in Nat /\ Len(b) \in Nat
        /\ \A k \in 1 .. Len(a) : c[k] = a[k]
        /\ \A k \in 1 .. Len(b) : c[Len(a) + k] = b[k]
    <3>1. a \in Seq(T) /\ b \in Seq(T)  BY <2>1, <2>3 DEF a, b
    <3> QED  BY <3>1, Joined DEF c, HasJoined
  <2>5. ASSUME NEW u \in 1 .. v + 1, NEW k \in 1 .. Len(s[u])
        PROVE  o[u] + k \in 1 .. Len(a) + Len(b) /\ c[o[u] + k] = s[u][k]
    <3>1. CASE u = v + 1
      <4>1. s[u] = b /\ o[u] = Len(a) /\ k \in 1 .. Len(b)  BY <2>3, <2>5, <3>1 DEF a, b
      <4>2. c[Len(a) + k] = b[k] /\ Len(a) + k \in 1 .. Len(a) + Len(b)  BY <2>4, <4>1
      <4> QED  BY <4>1, <4>2, Zenon
    <3>2. CASE u # v + 1
      <4>0. u \in 1 .. v  BY <2>0, <3>2
      <4>1. o[u] + k \in 1 .. Len(a) /\ a[o[u] + k] = s[u][k]
        BY <1>11, <2>3, <2>5, <4>0 DEF a
      <4>2. \A i \in 1 .. Len(a) : c[i] = a[i] /\ i \in 1 .. Len(a) + Len(b)  BY <2>4
      <4> QED  BY <4>1, <4>2, Zenon
    <3> QED  BY <3>1, <3>2
  <2>6. flatten[v + 1] = c /\ o[(v + 1) + 1] = Len(a) + Len(b)
    BY <2>1, <2>2, <2>3 DEF a, b, c
  <2>7. Laid(v + 1)  BY <2>4, <2>5, <2>6
  <2> QED  BY <2>0, <2>7
<1>12. 1 .. n \subseteq N
  <2>1. 1 \in Int /\ n \in Int  OBVIOUS
  <2> HIDE DEF N
  <2> QED  BY <1>10, <1>11, <2>1, IntervalInduction
<1>13. Laid(n)  BY <1>1, <1>12
<1> QED  BY <1>7, <1>13 DEF HasBlocks

\* Every position of the flattened blocks lies in one of them.
InABlock(p, o, n, s) == \E v \in 1 .. n : \E k \in 1 .. Len(s[v]) : p = o[v] + k
LEMMA BlockOf ==
  ASSUME NEW n \in Nat, NEW s, HasLengths(s, n), NEW o, AreOffsets(o, n, s),
         NEW p \in 1 .. o[n + 1]
  PROVE  InABlock(p, o, n, s)
<1> DEFINE T == {v \in 1 .. n + 1 : p <= o[v]}
<1>1. /\ o \in [1 .. n + 1 -> Nat] /\ o[1] = 0
      /\ \A v \in 1 .. n : o[v + 1] = o[v] + Len(s[v]) /\ Len(s[v]) \in Nat
  BY DEF AreOffsets, HasLengths
<1>2. n + 1 \in 1 .. n + 1 /\ o[n + 1] \in Nat  BY <1>1
<1>3. n + 1 \in T  BY <1>2
<1>4. PICK u \in T : \A m \in T : u <= m
  <2>1. T \subseteq Nat /\ T # {}  BY <1>3
  <2> HIDE DEF T
  <2> QED  BY <2>1, LeastNumber
<1>5. u \in 1 .. n + 1 /\ p <= o[u]  BY <1>4
<1>6. u # 1
  <2>1. p \in Nat /\ p > 0  BY <1>2
  <2> QED  BY <1>1, <1>5, <2>1
<1>7. u - 1 \in 1 .. n /\ u - 1 \in 1 .. n + 1 /\ (u - 1) + 1 = u /\ u - 1 < u  BY <1>5, <1>6
<1>8. u - 1 \notin T
  <2>1. ~(u <= u - 1)  BY <1>5, <1>7
  <2> QED  BY <1>4, <2>1
<1> DEFINE w == u - 1
<1>9. w \in 1 .. n /\ o[w] \in Nat /\ ~(p <= o[w]) /\ p <= o[w] + Len(s[w]) /\ Len(s[w]) \in Nat
  <2>1. o[u] = o[w] + Len(s[w])  BY <1>1, <1>7
  <2>2. ~(p <= o[w])  BY <1>7, <1>8
  <2> QED  BY <1>1, <1>5, <1>7, <2>1, <2>2
<1> HIDE DEF w
<1>10. p - o[w] \in 1 .. Len(s[w]) /\ p = o[w] + (p - o[w])  BY <1>2, <1>9
<1> QED  BY <1>9, <1>10 DEF InABlock

\* Blocks that come first lie first.
LEMMA BlocksInOrder ==
  ASSUME NEW n \in Nat, NEW s, HasLengths(s, n), NEW o, AreOffsets(o, n, s),
         NEW u \in 1 .. n, NEW v \in 1 .. n, u < v
  PROVE  o[u] + Len(s[u]) <= o[v]
<1>1. /\ o \in [1 .. n + 1 -> Nat]
      /\ \A w \in 1 .. n : o[w + 1] = o[w] + Len(s[w]) /\ Len(s[w]) \in Nat
  BY DEF AreOffsets, HasLengths
<1> DEFINE T == {w \in 1 .. n + 1 : o[u + 1] <= o[w]}
<1>2. u + 1 \in T
  <2>1. u + 1 \in 1 .. n + 1 /\ o[u + 1] \in Nat  BY <1>1
  <2> QED  BY <2>1
<1>3. ASSUME NEW w \in u + 1 .. n + 1 - 1, w \in T PROVE w + 1 \in T
  <2>1. w \in 1 .. n /\ w \in 1 .. n + 1 /\ w + 1 \in 1 .. n + 1 /\ u + 1 \in 1 .. n + 1  OBVIOUS
  <2>2. o[w] \in Nat /\ o[u + 1] \in Nat /\ Len(s[w]) \in Nat /\ o[w + 1] = o[w] + Len(s[w])
    BY <1>1, <2>1
  <2>3. o[u + 1] <= o[w]  BY <1>3
  <2> QED  BY <2>1, <2>2, <2>3
<1>4. u + 1 .. n + 1 \subseteq T
  <2> DEFINE first == u + 1
             end == n + 1
  <2>1. first \in Int /\ end \in Int /\ first \in T  BY <1>2
  <2>2. \A w \in first .. end - 1 : w \in T => w + 1 \in T  BY <1>3
  <2> HIDE DEF T, first, end
  <2>3. first .. end \subseteq T  BY <2>1, <2>2, IntervalInduction
  <2> QED  BY <2>3 DEF first, end
<1>5. v \in u + 1 .. n + 1  OBVIOUS
<1> QED  BY <1>1, <1>4, <1>5

-----------------------------------------------------------------------------
(* Sorting and deduplication                                               *)

Ordered(t, order) == \A i, j \in 1 .. Len(t) : i < j => <<t[i], t[j]>> \in order

IsOrder(order, T) ==
  /\ \A a, b \in T : <<a, b>> \in order \/ <<b, a>> \in order
  /\ \A a, b, c \in T : <<a, b>> \in order /\ <<b, c>> \in order => <<a, c>> \in order

\* r is t with e behind its first b entries.
HasPut(r, t, b, e, T) ==
  /\ r \in Seq(T) /\ Len(r) = Len(t) + 1
  /\ \A i \in 1 .. Len(t) + 1 :
       r[i] = IF i <= b THEN t[i] ELSE IF i = b + 1 THEN e ELSE t[i - 1]
  /\ b = Len(t) => r = Append(t, e)

LEMMA InsertFacts ==
  ASSUME NEW T, NEW t \in Seq(T), NEW e \in T, NEW b \in 0 .. Len(t)
  PROVE  HasPut(InsertAt(t, b + 1, e), t, b, e, T)
<1> DEFINE p == SubSeq(t, 1, b)
           q == SubSeq(t, b + 1, Len(t))
           pe == p \o <<e>>
           r == pe \o q
<1>1. InsertAt(t, b + 1, e) = r
  <2>1. (b + 1) - 1 = b  OBVIOUS
  <2> QED  BY <2>1 DEF InsertAt
<1>2. Len(t) \in Nat /\ b \in Nat /\ b <= Len(t)  OBVIOUS
<1>3. p \in Seq(T) /\ Len(p) = b /\ \A i \in 1 .. b : p[i] = t[i]  BY <1>2
<1>4. q \in Seq(T) /\ Len(q) = Len(t) - b /\ \A i \in 1 .. Len(t) - b : q[i] = t[b + i]  BY <1>2
<1>5. <<e>> \in Seq(T) /\ Len(<<e>>) = 1 /\ <<e>>[1] = e  OBVIOUS
<1> HIDE DEF p, q
<1>6. /\ pe \in Seq(T) /\ Len(pe) = b + 1
      /\ \A i \in 1 .. b : pe[i] = t[i]
      /\ pe[b + 1] = e
  <2>1. /\ pe \in Seq(T) /\ Len(pe) = Len(p) + 1
        /\ \A i \in 1 .. Len(p) : pe[i] = p[i]
        /\ \A i \in 1 .. 1 : pe[Len(p) + i] = <<e>>[i]
    BY <1>3, <1>5, Joined
  <2>2. pe[Len(p) + 1] = e  BY <2>1
  <2> HIDE DEF pe
  <2> QED  BY <1>2, <1>3, <2>1, <2>2
<1> HIDE DEF pe
<1>7. /\ r \in Seq(T) /\ Len(r) = Len(t) + 1
      /\ \A i \in 1 .. b + 1 : r[i] = pe[i]
      /\ \A i \in 1 .. Len(t) - b : r[(b + 1) + i] = t[b + i]
  <2>1. /\ r \in Seq(T) /\ Len(r) = Len(pe) + Len(q)
        /\ \A i \in 1 .. Len(pe) : r[i] = pe[i]
        /\ \A i \in 1 .. Len(q) : r[Len(pe) + i] = q[i]
    <3>1. pe \in Seq(T) /\ q \in Seq(T)  BY <1>4, <1>6
    <3> QED  BY <3>1, Joined
  <2> HIDE DEF r
  <2> QED  BY <1>2, <1>4, <1>6, <2>1
<1>8. b = Len(t) => r = Append(t, e)
  <2> SUFFICES ASSUME b = Len(t) PROVE r = Append(t, e)  OBVIOUS
  <2>1. /\ Append(t, e) \in Seq(T) /\ Len(Append(t, e)) = b + 1
        /\ \A i \in 1 .. b : Append(t, e)[i] = t[i]
        /\ Append(t, e)[b + 1] = e
    OBVIOUS
  <2> HIDE DEF r
  <2>2. \A i \in 1 .. b + 1 : i \in 1 .. b \/ i = b + 1  BY <1>2
  <2>3. \A i \in 1 .. b + 1 : r[i] = Append(t, e)[i]  BY <1>6, <1>7, <2>1, <2>2
  <2> QED  BY <1>7, <2>1, <2>3
<1> HIDE DEF r
<1>9. ASSUME NEW i \in 1 .. Len(t) + 1
      PROVE  r[i] = IF i <= b THEN t[i] ELSE IF i = b + 1 THEN e ELSE t[i - 1]
  <2>1. CASE i <= b
    <3>1. i \in 1 .. b /\ i \in 1 .. b + 1  BY <1>2, <2>1
    <3> QED  BY <1>6, <1>7, <2>1, <3>1
  <2>2. CASE i = b + 1
    <3>1. ~(i <= b) /\ i \in 1 .. b + 1  BY <1>2, <2>2
    <3> QED  BY <1>6, <1>7, <2>2, <3>1
  <2>3. CASE i > b + 1
    <3>1. PICK j \in 1 .. Len(t) - b : i = (b + 1) + j /\ i - 1 = b + j
      <4>1. i - (b + 1) \in 1 .. Len(t) - b /\ i = (b + 1) + (i - (b + 1)) /\ i - 1 = b + (i - (b + 1))
        BY <1>2, <2>3
      <4> QED  BY <4>1
    <3>2. r[i] = t[i - 1]  BY <1>7, <3>1
    <3> QED  BY <1>2, <2>3, <3>2
  <2> QED  BY <1>2, <2>1, <2>2, <2>3
<1> QED  BY <1>1, <1>7, <1>8, <1>9 DEF HasPut

LEMMA PutSet ==
  ASSUME NEW T, NEW t \in Seq(T), NEW e \in T, NEW b \in 0 .. Len(t), NEW r, HasPut(r, t, b, e, T)
  PROVE  ToSet(r) = ToSet(t) \cup {e}
<1>1. /\ r \in Seq(T) /\ Len(r) = Len(t) + 1 /\ Len(t) \in Nat /\ b \in Nat /\ b <= Len(t)
      /\ \A i \in 1 .. Len(t) + 1 :
           r[i] = IF i <= b THEN t[i] ELSE IF i = b + 1 THEN e ELSE t[i - 1]
  BY DEF HasPut
<1>2. DOMAIN r = 1 .. Len(t) + 1 /\ DOMAIN t = 1 .. Len(t)  BY <1>1
<1>3. ASSUME NEW i \in 1 .. Len(t) + 1 PROVE r[i] \in ToSet(t) \cup {e}
  <2>1. CASE i <= b
    <3>1. i \in DOMAIN t /\ r[i] = t[i]  BY <1>1, <1>2, <2>1
    <3> QED  BY <3>1 DEF ToSet
  <2>2. CASE i = b + 1
    <3>1. r[i] = e  BY <1>1, <2>2
    <3> QED  BY <3>1
  <2>3. CASE i > b + 1
    <3>1. i - 1 \in DOMAIN t /\ r[i] = t[i - 1]  BY <1>1, <1>2, <2>3
    <3> QED  BY <3>1 DEF ToSet
  <2> QED  BY <1>1, <2>1, <2>2, <2>3
<1>4. ASSUME NEW i \in 1 .. Len(t) PROVE t[i] \in ToSet(r)
  <2>1. CASE i <= b
    <3>1. i \in DOMAIN r /\ r[i] = t[i]  BY <1>1, <1>2, <2>1
    <3> QED  BY <3>1 DEF ToSet
  <2>2. CASE i > b
    <3>1. i + 1 \in DOMAIN r /\ ~(i + 1 <= b) /\ i + 1 # b + 1 /\ (i + 1) - 1 = i  BY <1>1, <1>2, <2>2
    <3>2. r[i + 1] = t[i]  BY <1>1, <1>2, <3>1
    <3> QED  BY <3>1, <3>2 DEF ToSet
  <2> QED  BY <1>1, <2>1, <2>2
<1>5. e \in ToSet(r)
  <2>1. b + 1 \in DOMAIN r /\ r[b + 1] = e  BY <1>1, <1>2
  <2> QED  BY <2>1 DEF ToSet
<1>6. ToSet(r) \subseteq ToSet(t) \cup {e}  BY <1>2, <1>3 DEF ToSet
<1>7. ToSet(t) \subseteq ToSet(r)  BY <1>2, <1>4 DEF ToSet
<1> QED  BY <1>5, <1>6, <1>7

\* The positions that stand before an entry are the first of an ordered list.
LEMMA FirstOnes ==
  ASSUME NEW n \in Nat, NEW B, B \subseteq 1 .. n
  PROVE  /\ Cardinality(B) \in 0 .. n
         /\ (\A j \in B : \A i \in 1 .. j : i \in B) => B = 1 .. Cardinality(B)
<1>1. IsFiniteSet(1 .. n) /\ Cardinality(1 .. n) = n
  <2>1. 1 <= n \/ n = 0  OBVIOUS
  <2>2. IsFiniteSet(1 .. n) /\ Cardinality(1 .. n) = IF 1 > n THEN 0 ELSE n - 1 + 1
    BY FS_Interval
  <2> QED  BY <2>1, <2>2
<1>2. Cardinality(B) \in 0 .. n
  <2>1. IsFiniteSet(B) /\ Cardinality(B) <= n /\ Cardinality(B) \in Nat
    BY <1>1, FS_Subset, FS_CardinalityType
  <2> QED  BY <2>1
<1>3. ASSUME \A j \in B : \A i \in 1 .. j : i \in B
      PROVE  B = 1 .. Cardinality(B)
  <2> DEFINE out == {m \in Nat : m + 1 \notin B}
  <2>1. n \in out  OBVIOUS
  <2>2. PICK m \in out : \A k \in out : m <= k
    <3>1. out \subseteq Nat /\ out # {}  BY <2>1
    <3> HIDE DEF out
    <3> QED  BY <3>1, LeastNumber
  <2>3. m \in Nat /\ m + 1 \notin B  BY <2>2
  <2>4. ASSUME NEW i \in 1 .. m PROVE i \in B
    <3>1. i - 1 \in Nat /\ i - 1 < m /\ (i - 1) + 1 = i  BY <2>3
    <3>2. i - 1 \notin out  BY <2>2, <2>3, <3>1
    <3> QED  BY <3>1, <3>2
  <2>5. ASSUME NEW j \in B PROVE j \in 1 .. m
    <3>1. j \in Nat /\ 1 <= j  OBVIOUS
    <3>2. ~(m + 1 \in 1 .. j)  BY <1>3, <2>3
    <3> QED  BY <2>3, <3>1, <3>2
  <2>6. B = 1 .. m  BY <2>4, <2>5
  <2>7. Cardinality(1 .. m) = m
    <3>1. 1 <= m \/ m = 0  BY <2>3
    <3>2. Cardinality(1 .. m) = IF 1 > m THEN 0 ELSE m - 1 + 1  BY <2>3, FS_Interval
    <3> QED  BY <2>3, <3>1, <3>2
  <2> QED  BY <2>6, <2>7
<1> QED  BY <1>2, <1>3

\* Sorting keeps a list in order, puts any list in order, loses nothing and takes
\* nothing from elsewhere.
LEMMA InOrderFacts ==
  ASSUME NEW T, NEW n \in Nat, NEW s \in [1 .. n -> T], NEW order
  PROVE  /\ InOrder(s, order) \in Seq(T) /\ Len(InOrder(s, order)) = n
         /\ ToSet(InOrder(s, order)) = ToSet(s)
         /\ IsOrder(order, T) => Ordered(InOrder(s, order), order)
         /\ Ordered(s, order) => InOrder(s, order) = s
<1> DEFINE Before(t, e) == {k \in DOMAIN t : <<t[k], e>> \in order}
           Behind(t, e) == Cardinality(Before(t, e))
           Put(t, e) == InsertAt(t, Behind(t, e) + 1, e)
           S == Seq(T)
           Turn == [ip \in (1 .. n) \X S |-> Put(ip[2], s[ip[1]])]
           IsFiling(f) == f = [k \in 0 .. n |-> IF k = 0 THEN <<>> ELSE Put(f[k - 1], s[k])]
           filed == CHOOSE f : IsFiling(f)
<1>1. ASSUME NEW t \in S, NEW e \in T
      PROVE  Behind(t, e) \in 0 .. Len(t) /\ HasPut(Put(t, e), t, Behind(t, e), e, T)
  <2>1. Before(t, e) \subseteq 1 .. Len(t) /\ Len(t) \in Nat  OBVIOUS
  <2>2. Behind(t, e) \in 0 .. Len(t)
    <3> HIDE DEF Before
    <3> QED  BY <2>1, FirstOnes
  <2> QED  BY <2>2, InsertFacts
<1>2. Turn \in [(1 .. n) \X S -> S]
  <2> HIDE DEF Put, Behind
  <2> QED  BY <1>1 DEF HasPut
<1>3. PICK f : IsRun(f, n, S, <<>>, Turn)
  <2>1. <<>> \in S  OBVIOUS
  <2> HIDE DEF S, Turn
  <2> QED  BY <1>2, <2>1, PrimitiveRecursion
<1>4. IsFiling(f)
  <2> HIDE DEF S, Put
  <2>1. f \in [0 .. n -> S] /\ f[0] = <<>> /\ \A i \in 1 .. n : f[i] = Turn[<<i, f[i - 1]>>]
    BY <1>3 DEF IsRun
  <2>2. \A i \in 1 .. n : f[i] = Put(f[i - 1], s[i])
    <3> TAKE i \in 1 .. n
    <3>1. f[i - 1] \in S  BY <2>1
    <3>2. Turn[<<i, f[i - 1]>>] = Put(f[i - 1], s[i])  BY <3>1
    <3> QED  BY <2>1, <3>2
  <2>3. \A i \in 0 .. n : i # 0 => i \in 1 .. n  OBVIOUS
  <2>4. \A i \in 0 .. n : f[i] = IF i = 0 THEN <<>> ELSE Put(f[i - 1], s[i])
    BY <2>1, <2>2, <2>3
  <2> QED  BY <2>1, <2>4
<1>5. IsFiling(filed)
  <2> HIDE DEF IsFiling
  <2> QED  BY <1>4
<1>6. InOrder(s, order) = filed[n]
  <2>1. Len(s) = n  OBVIOUS
  <2> QED  BY <2>1 DEF InOrder
<1> HIDE DEF filed, Put
<1>7. filed[0] = <<>> /\ \A k \in 1 .. n : filed[k] = Put(filed[k - 1], s[k])
  <2>1. \A k \in 0 .. n : filed[k] = IF k = 0 THEN <<>> ELSE Put(filed[k - 1], s[k])  BY <1>5
  <2>2. \A k \in 1 .. n : k \in 0 .. n /\ k # 0  OBVIOUS
  <2>3. 0 \in 0 .. n  OBVIOUS
  <2> QED  BY <2>1, <2>2, <2>3
<1>8. 0 .. n \subseteq {k \in 0 .. n : filed[k] \in S /\ Len(filed[k]) = k}
  <2> DEFINE N == {k \in 0 .. n : filed[k] \in S /\ Len(filed[k]) = k}
  <2>1. 0 \in N
    <3>1. <<>> \in S /\ Len(<<>>) = 0 /\ 0 \in 0 .. n  OBVIOUS
    <3> QED  BY <1>7, <3>1
  <2>2. ASSUME NEW k \in 0 .. n - 1, k \in N PROVE k + 1 \in N
    <3>1. k + 1 \in 1 .. n /\ (k + 1) - 1 = k /\ s[k + 1] \in T  OBVIOUS
    <3>2. filed[k + 1] = Put(filed[k], s[k + 1]) /\ filed[k] \in S /\ Len(filed[k]) = k
      BY <1>7, <2>2, <3>1
    <3>3. Put(filed[k], s[k + 1]) \in S /\ Len(Put(filed[k], s[k + 1])) = k + 1
      BY <1>1, <3>1, <3>2 DEF HasPut
    <3> QED  BY <3>1, <3>2, <3>3
  <2>3. 0 \in Int /\ n \in Int  OBVIOUS
  <2> HIDE DEF N
  <2>4. 0 .. n \subseteq N  BY <2>1, <2>2, <2>3, IntervalInduction
  <2> QED  BY <2>4 DEF N
<1>9. ASSUME IsOrder(order, T)
      PROVE  Ordered(filed[n], order)
  <2> DEFINE N == {k \in 0 .. n : Ordered(filed[k], order)}
  <2>1. 0 \in N  BY <1>7 DEF Ordered
  <2>2. ASSUME NEW k \in 0 .. n - 1, k \in N PROVE k + 1 \in N
    <3> DEFINE t == filed[k]
               e == s[k + 1]
               b == Behind(t, e)
               r == Put(t, e)
    <3>1. k + 1 \in 1 .. n /\ (k + 1) - 1 = k /\ e \in T  OBVIOUS
    <3>2. t \in Seq(T) /\ Len(t) = k /\ filed[k + 1] = r  BY <1>7, <1>8, <3>1
    <3>3. Ordered(t, order)  BY <2>2
    <3> HIDE DEF t, e, r
    <3>4. /\ b \in 0 .. k /\ Len(r) = k + 1
          /\ \A i \in 1 .. k + 1 : r[i] = IF i <= b THEN t[i] ELSE IF i = b + 1 THEN e ELSE t[i - 1]
      <4>1. Behind(t, e) \in 0 .. Len(t) /\ HasPut(r, t, Behind(t, e), e, T)  BY <1>1, <3>1, <3>2 DEF r
      <4> HIDE DEF Behind
      <4> QED  BY <3>2, <4>1 DEF HasPut
    <3>5. Before(t, e) = 1 .. b
      <4>1. Before(t, e) \subseteq 1 .. k /\ k \in Nat  BY <3>2
      <4>2. ASSUME NEW j \in Before(t, e), NEW i \in 1 .. j PROVE i \in Before(t, e)
        <5>1. j \in 1 .. k /\ <<t[j], e>> \in order  BY <3>2
        <5>2. i \in 1 .. k /\ t[i] \in T /\ t[j] \in T  BY <3>2, <5>1
        <5>3. i = j \/ <<t[i], t[j]>> \in order  BY <3>2, <3>3, <5>1, <5>2 DEF Ordered
        <5>4. <<t[i], e>> \in order  BY <1>9, <3>1, <5>1, <5>2, <5>3 DEF IsOrder
        <5> QED  BY <3>2, <5>2, <5>4
      <4> HIDE DEF Before
      <4> QED  BY <4>1, <4>2, FirstOnes
    <3> HIDE DEF b
    <3>6. \A i \in 1 .. k : t[i] \in T /\ (<<t[i], e>> \in order <=> i <= b)
      <4> TAKE i \in 1 .. k
      <4>1. t[i] \in T /\ (i \in Before(t, e) <=> <<t[i], e>> \in order)  BY <3>2
      <4>2. i \in 1 .. b <=> i <= b  BY <3>4
      <4> HIDE DEF Before
      <4> QED  BY <3>5, <4>1, <4>2
    <3>7. ASSUME NEW i \in 1 .. k + 1, NEW j \in 1 .. k + 1, i < j
          PROVE  <<r[i], r[j]>> \in order
      <4>1. CASE j <= b
        <5>1. r[i] = t[i] /\ r[j] = t[j] /\ i \in 1 .. k /\ j \in 1 .. k  BY <3>4, <3>7, <4>1
        <5> QED  BY <3>2, <3>3, <3>7, <5>1 DEF Ordered
      <4>2. CASE j = b + 1
        <5>1. r[i] = t[i] /\ r[j] = e /\ i \in 1 .. k /\ i <= b  BY <3>4, <3>7, <4>2
        <5> QED  BY <3>6, <5>1
      <4>3. CASE j > b + 1 /\ i <= b
        <5>1. r[i] = t[i] /\ r[j] = t[j - 1] /\ i \in 1 .. k /\ j - 1 \in 1 .. k /\ i < j - 1
          BY <3>4, <3>7, <4>3
        <5> QED  BY <3>2, <3>3, <5>1 DEF Ordered
      <4>4. CASE j > b + 1 /\ i = b + 1
        <5>1. r[i] = e /\ r[j] = t[j - 1] /\ j - 1 \in 1 .. k /\ ~(j - 1 <= b)
          BY <3>4, <3>7, <4>4
        <5>2. t[j - 1] \in T /\ ~(<<t[j - 1], e>> \in order)  BY <3>6, <5>1
        <5> QED  BY <1>9, <3>1, <5>1, <5>2 DEF IsOrder
      <4>5. CASE j > b + 1 /\ i > b + 1
        <5>1. /\ r[i] = t[i - 1] /\ r[j] = t[j - 1]
              /\ i - 1 \in 1 .. k /\ j - 1 \in 1 .. k /\ i - 1 < j - 1
          BY <3>4, <3>7, <4>5
        <5> QED  BY <3>2, <3>3, <5>1 DEF Ordered
      <4> QED  BY <3>4, <3>7, <4>1, <4>2, <4>3, <4>4, <4>5
    <3>8. Ordered(filed[k + 1], order)  BY <3>2, <3>4, <3>7 DEF Ordered
    <3> QED  BY <3>1, <3>8
  <2>3. 0 \in Int /\ n \in Int  OBVIOUS
  <2> HIDE DEF N
  <2>4. 0 .. n \subseteq N  BY <2>1, <2>2, <2>3, IntervalInduction
  <2> QED  BY <2>4 DEF N
<1>10. ASSUME Ordered(s, order)
       PROVE  filed[n] = s
  <2> DEFINE N == {k \in 0 .. n : \A i \in 1 .. k : filed[k][i] = s[i]}
  <2>1. 0 \in N  OBVIOUS
  <2>2. ASSUME NEW k \in 0 .. n - 1, k \in N PROVE k + 1 \in N
    <3> DEFINE t == filed[k]
               e == s[k + 1]
               r == Put(t, e)
    <3>1. k + 1 \in 1 .. n /\ (k + 1) - 1 = k /\ e \in T  OBVIOUS
    <3>2. t \in Seq(T) /\ Len(t) = k /\ filed[k + 1] = r  BY <1>7, <1>8, <3>1
    <3>3. \A i \in 1 .. k : t[i] = s[i] /\ <<t[i], e>> \in order
      <4> TAKE i \in 1 .. k
      <4>1. t[i] = s[i]  BY <2>2
      <4>2. i \in 1 .. Len(s) /\ k + 1 \in 1 .. Len(s) /\ i < k + 1  BY <3>1
      <4> QED  BY <1>10, <4>1, <4>2 DEF Ordered
    <3> HIDE DEF t, e, r
    <3>4. Behind(t, e) = k
      <4>1. Before(t, e) = 1 .. k  BY <3>2, <3>3
      <4>2. k \in Nat  OBVIOUS
      <4>3. Cardinality(1 .. k) = IF 1 > k THEN 0 ELSE k - 1 + 1  BY <4>2, FS_Interval
      <4> HIDE DEF Before
      <4> QED  BY <4>1, <4>2, <4>3
    <3>5. r = Append(t, e)
      <4>1. HasPut(r, t, Behind(t, e), e, T)  BY <1>1, <3>1, <3>2 DEF r
      <4> HIDE DEF Behind
      <4> QED  BY <3>2, <3>4, <4>1 DEF HasPut
    <3>6. r[k + 1] = e /\ \A i \in 1 .. k : r[i] = s[i]
      <4>1. /\ Append(t, e)[Len(t) + 1] = e
            /\ \A i \in 1 .. Len(t) : Append(t, e)[i] = t[i]
        BY <3>1, <3>2
      <4> QED  BY <3>2, <3>3, <3>5, <4>1
    <3>7. \A i \in 1 .. k + 1 : i \in 1 .. k \/ i = k + 1  OBVIOUS
    <3>8. \A i \in 1 .. k + 1 : r[i] = s[i]  BY <3>6, <3>7 DEF e
    <3> QED  BY <3>1, <3>2, <3>8
  <2>3. 0 \in Int /\ n \in Int  OBVIOUS
  <2> HIDE DEF N
  <2>4. n \in N
    <3>1. 0 .. n \subseteq N  BY <2>1, <2>2, <2>3, IntervalInduction
    <3> QED  BY <3>1
  <2>5. filed[n] \in Seq(T) /\ Len(filed[n]) = n /\ \A i \in 1 .. n : filed[n][i] = s[i]
    BY <1>8, <2>4 DEF N
  <2> QED  BY <2>5
<1>11. filed[n] \in Seq(T) /\ Len(filed[n]) = n
  <2>1. n \in 0 .. n  OBVIOUS
  <2> QED  BY <1>8, <2>1
<1>12. ToSet(filed[n]) = ToSet(s)
  <2> DEFINE First(k) == {s[i] : i \in 1 .. k}
             N == {k \in 0 .. n : ToSet(filed[k]) = First(k)}
  <2>1. 0 \in N
    <3>1. 0 \in 0 .. n /\ First(0) = {}  OBVIOUS
    <3>2. ToSet(<<>>) = {}  BY DEF ToSet
    <3> HIDE DEF First
    <3> QED  BY <1>7, <3>1, <3>2
  <2>2. ASSUME NEW k \in 0 .. n - 1, k \in N PROVE k + 1 \in N
    <3> DEFINE t == filed[k]
               e == s[k + 1]
    <3>1. k + 1 \in 1 .. n /\ (k + 1) - 1 = k /\ e \in T  OBVIOUS
    <3>2. t \in S /\ filed[k + 1] = Put(t, e)  BY <1>7, <1>8, <3>1
    <3>3. ToSet(t) = First(k)  BY <2>2
    <3>4. First(k + 1) = First(k) \cup {e}
      <4>1. 1 .. k + 1 = (1 .. k) \cup {k + 1}  OBVIOUS
      <4> QED  BY <4>1
    <3> HIDE DEF t, e, First
    <3>5. ToSet(filed[k + 1]) = ToSet(t) \cup {e}
      <4>1. Behind(t, e) \in 0 .. Len(t) /\ HasPut(Put(t, e), t, Behind(t, e), e, T)
        BY <1>1, <3>1, <3>2
      <4> HIDE DEF Behind
      <4> QED  BY <3>1, <3>2, <4>1, PutSet
    <3>6. ToSet(filed[k + 1]) = First(k + 1)  BY <3>3, <3>4, <3>5
    <3>7. k + 1 \in 0 .. n  BY <3>1
    <3> QED  BY <3>6, <3>7
  <2>3. 0 \in Int /\ n \in Int  OBVIOUS
  <2> HIDE DEF N
  <2>4. n \in N
    <3>1. 0 .. n \subseteq N  BY <2>1, <2>2, <2>3, IntervalInduction
    <3> QED  BY <3>1
  <2>5. First(n) = ToSet(s)  BY DEF ToSet
  <2> QED  BY <2>4, <2>5 DEF N
<1> QED  BY <1>6, <1>9, <1>10, <1>11, <1>12

\* r has an edge of s for each head of s, and a cheapest one.
IsCheapest(r, s) ==
  /\ ToSet(r) \subseteq ToSet(s)
  /\ \A d \in ToSet(s) : \E e \in ToSet(r) : e.to = d.to /\ e.cost <= d.cost

\* Deduplication leaves one edge for each head, in the order of the heads, and a
\* cheapest one; and it leaves a list that has one for each head alone.
LEMMA DedupFacts ==
  ASSUME NEW E, \A e \in E : e.to \in Int /\ e.cost \in Int,
         NEW m \in Nat, NEW s \in [1 .. m -> E]
  PROVE  /\ Dedup(s) \in Seq(E) /\ Increasing(Dedup(s)) /\ IsCheapest(Dedup(s), s)
         /\ Increasing(s) => Dedup(s) = s
<1> DEFINE T == ToSet(s)
           order == ByHead(s)
           t == InOrder(s, order)
<1>1. T \subseteq E /\ s \in [1 .. m -> T] /\ Len(s) = m  BY DEF ToSet
<1>2. \A a, b \in T : <<a, b>> \in order
        <=> a.to < b.to \/ (a.to = b.to /\ a.cost <= b.cost)
  BY DEF ByHead
<1>3. \A a \in T : a.to \in Int /\ a.cost \in Int  BY <1>1
<1> HIDE DEF T, order
<1>4. IsOrder(order, T)
  <2>1. ASSUME NEW a \in T, NEW b \in T PROVE <<a, b>> \in order \/ <<b, a>> \in order
    <3>1. a.to \in Int /\ a.cost \in Int /\ b.to \in Int /\ b.cost \in Int  BY <1>3
    <3> QED  BY <1>2, <3>1
  <2>2. ASSUME NEW a \in T, NEW b \in T, NEW c \in T, <<a, b>> \in order, <<b, c>> \in order
        PROVE  <<a, c>> \in order
    <3>1. /\ a.to \in Int /\ a.cost \in Int /\ b.to \in Int /\ b.cost \in Int
          /\ c.to \in Int /\ c.cost \in Int
      BY <1>3
    <3> QED  BY <1>2, <2>2, <3>1
  <2> QED  BY <2>1, <2>2 DEF IsOrder
<1>5. /\ t \in Seq(T) /\ Len(t) = m /\ Ordered(t, order) /\ ToSet(t) = ToSet(s)
      /\ Ordered(s, order) => t = s
  <2>1. s \in [1 .. m -> T]  BY <1>1
  <2> QED  BY <1>4, <2>1, InOrderFacts, Zenon
<1> HIDE DEF t
<1>6. \A k \in 1 .. m : t[k] \in T  BY <1>5
<1> DEFINE S == Seq(T)
           Keep(kept, e) == IF kept # <<>> /\ Last(kept).to = e.to THEN kept ELSE Append(kept, e)
           Turn == [ip \in (1 .. m) \X S |-> Keep(ip[2], t[ip[1]])]
           IsKeeping(f) == f = [k \in 0 .. m |->
             IF k = 0 THEN <<>>
             ELSE IF f[k - 1] # <<>> /\ Last(f[k - 1]).to = t[k].to THEN f[k - 1]
             ELSE Append(f[k - 1], t[k])]
           kept == CHOOSE f : IsKeeping(f)
<1>7. \A x \in S, e \in T : Keep(x, e) \in S  OBVIOUS
<1>8. Turn \in [(1 .. m) \X S -> S]
  <2> HIDE DEF S, Keep
  <2> QED  BY <1>6, <1>7
<1>9. PICK f : IsRun(f, m, S, <<>>, Turn)
  <2>1. <<>> \in S  OBVIOUS
  <2> HIDE DEF S, Turn
  <2> QED  BY <1>8, <2>1, PrimitiveRecursion
<1>10. IsKeeping(f)
  <2> HIDE DEF S
  <2>1. f \in [0 .. m -> S] /\ f[0] = <<>> /\ \A i \in 1 .. m : f[i] = Turn[<<i, f[i - 1]>>]
    BY <1>9 DEF IsRun
  <2>2. \A i \in 1 .. m : f[i] = Keep(f[i - 1], t[i])
    <3> TAKE i \in 1 .. m
    <3>1. f[i - 1] \in S  BY <2>1
    <3> HIDE DEF Keep
    <3>2. Turn[<<i, f[i - 1]>>] = Keep(f[i - 1], t[i])  BY <3>1
    <3> QED  BY <2>1, <3>2
  <2>3. \A i \in 0 .. m : i # 0 => i \in 1 .. m  OBVIOUS
  <2>4. \A i \in 0 .. m : f[i] = IF i = 0 THEN <<>> ELSE Keep(f[i - 1], t[i])
    <3> HIDE DEF Keep
    <3> QED  BY <2>1, <2>2, <2>3
  <2> QED  BY <2>1, <2>4
<1>11. Dedup(s) = kept[m]  BY <1>5 DEF Dedup, t, order
<1>12. kept[0] = <<>> /\ \A k \in 1 .. m : kept[k] = Keep(kept[k - 1], t[k])
  <2>1. IsKeeping(kept)
    <3> HIDE DEF IsKeeping
    <3> QED  BY <1>10
  <2> HIDE DEF kept
  <2>2. \A k \in 0 .. m : kept[k] = IF k = 0 THEN <<>> ELSE Keep(kept[k - 1], t[k])  BY <2>1
  <2>3. \A k \in 1 .. m : k \in 0 .. m /\ k # 0  OBVIOUS
  <2>4. 0 \in 0 .. m  OBVIOUS
  <2> HIDE DEF Keep
  <2> QED  BY <2>2, <2>3, <2>4
<1> HIDE DEF kept, Keep
<1> DEFINE Sound(k) == /\ kept[k] \in S /\ Increasing(kept[k])
                       /\ k # 0 => kept[k] # <<>> /\ kept[k][Len(kept[k])].to = t[k].to
           N == {k \in 0 .. m : Sound(k)}
<1>13. 0 \in N
  <2>1. <<>> \in S /\ Len(<<>>) = 0 /\ 0 \in 0 .. m  OBVIOUS
  <2>2. Increasing(<<>>)  BY <2>1 DEF Increasing
  <2> HIDE DEF S
  <2> QED  BY <1>12, <2>1, <2>2
<1>14. ASSUME NEW k \in 0 .. m - 1, k \in N PROVE k + 1 \in N
  <2> DEFINE x == kept[k]
             e == t[k + 1]
  <2>1. k + 1 \in 1 .. m /\ (k + 1) - 1 = k /\ e \in T  BY <1>6
  <2>2. kept[k + 1] = Keep(x, e)  BY <1>12, <2>1
  <2>3. x \in Seq(T) /\ Increasing(x) /\ (k # 0 => x # <<>> /\ x[Len(x)].to = t[k].to)
    BY <1>14
  <2>4. k # 0 => t[k].to <= e.to
    <3> SUFFICES ASSUME k # 0 PROVE t[k].to <= e.to  OBVIOUS
    <3>1. k \in 1 .. Len(t) /\ k + 1 \in 1 .. Len(t) /\ k < k + 1  BY <1>5
    <3>2. <<t[k], e>> \in order /\ t[k] \in T
      <4>1. k \in 1 .. m  BY <1>5, <3>1
      <4> QED  BY <1>5, <1>6, <3>1, <4>1 DEF Ordered
    <3>3. t[k].to \in Int /\ e.to \in Int  BY <1>3, <2>1, <3>2
    <3>4. t[k].to < e.to \/ t[k].to = e.to  BY <1>2, <2>1, <3>2
    <3> QED  BY <3>3, <3>4
  <2> HIDE DEF x, e
  <2>5. CASE x # <<>> /\ Last(x).to = e.to
    <3>1. Keep(x, e) = x /\ x[Len(x)].to = e.to  BY <2>5 DEF Keep, Last
    <3>2. Sound(k + 1)  BY <2>2, <2>3, <2>5, <3>1 DEF e
    <3> QED  BY <2>1, <3>2
  <2>6. CASE ~(x # <<>> /\ Last(x).to = e.to)
    <3> DEFINE r == Append(x, e)
    <3>1. Keep(x, e) = r  BY <2>6 DEF Keep
    <3>2. /\ r \in Seq(T) /\ Len(r) = Len(x) + 1 /\ Len(x) \in Nat /\ r[Len(x) + 1] = e
          /\ \A i \in 1 .. Len(x) : r[i] = x[i] /\ x[i] \in T
      BY <2>1, <2>3
    <3> HIDE DEF r
    <3>3. ASSUME NEW i \in 1 .. Len(x) PROVE x[i].to < e.to
      <4>1. k # 0 /\ x # <<>> /\ x[Len(x)].to = t[k].to /\ Last(x).to # e.to
        <5>1. x # <<>>  BY <2>3
        <5>2. k # 0  BY <1>12, <5>1 DEF x
        <5> QED  BY <2>3, <2>6, <5>1, <5>2
      <4>2. Len(x) \in 1 .. Len(x)  BY <3>2
      <4>3. x[Len(x)].to < e.to
        <5>1. x[Len(x)].to \in Int /\ e.to \in Int  BY <1>3, <2>1, <3>2, <4>2
        <5> QED  BY <2>4, <4>1, <5>1 DEF Last
      <4>4. i = Len(x) \/ x[i].to < x[Len(x)].to  BY <2>3, <3>2, <4>2 DEF Increasing
      <4>5. x[Len(x)].to \in Int /\ e.to \in Int /\ x[i].to \in Int  BY <1>3, <2>1, <3>2, <4>2
      <4> QED  BY <4>3, <4>4, <4>5
    <3>4. ASSUME NEW i \in 1 .. Len(r), NEW j \in 1 .. Len(r), i < j
          PROVE  r[i].to < r[j].to
      <4>1. i \in 1 .. Len(x) /\ r[i] = x[i]  BY <3>2, <3>4
      <4>2. CASE j = Len(x) + 1  BY <3>2, <3>3, <4>1, <4>2
      <4>3. CASE j # Len(x) + 1
        <5>1. j \in 1 .. Len(x) /\ r[j] = x[j]  BY <3>2, <4>3
        <5> QED  BY <2>3, <3>4, <4>1, <5>1 DEF Increasing
      <4> QED  BY <4>2, <4>3
    <3>5. Increasing(r)  BY <3>4 DEF Increasing
    <3>6. kept[k + 1] = r  BY <2>2, <3>1
    <3>7. r # <<>> /\ r[Len(r)].to = t[k + 1].to  BY <3>2 DEF e
    <3>8. Sound(k + 1)  BY <3>2, <3>5, <3>6, <3>7
    <3> QED  BY <2>1, <3>8
  <2> QED  BY <2>5, <2>6
<1>19. \A k \in 0 .. m : Sound(k)
  <2>1. 0 \in Int /\ m \in Int  OBVIOUS
  <2>2. 0 .. m \subseteq N
    <3> HIDE DEF N
    <3> QED  BY <1>13, <1>14, <2>1, IntervalInduction
  <2> QED  BY <2>2
<1>15. Sound(m)
  <2>1. m \in 0 .. m  OBVIOUS
  <2> HIDE DEF Sound
  <2> QED  BY <1>19, <2>1
<1>16. kept[m] \in Seq(E)
  <2>1. kept[m] \in Seq(T) /\ T \subseteq E  BY <1>1, <1>15
  <2> QED  BY <2>1
<1>17. ASSUME Increasing(s)
       PROVE  kept[m] = s
  <2>1. Ordered(s, order)
    <3>1. ASSUME NEW i \in 1 .. Len(s), NEW j \in 1 .. Len(s), i < j
          PROVE  <<s[i], s[j]>> \in order
      <4>1. s[i] \in T /\ s[j] \in T /\ s[i].to < s[j].to  BY <1>1, <1>17, <3>1 DEF Increasing
      <4> QED  BY <1>2, <4>1
    <3> QED  BY <3>1 DEF Ordered
  <2>2. t = s  BY <1>5, <2>1
  <2> DEFINE M == {k \in 0 .. m : kept[k] \in S /\ Len(kept[k]) = k
                                  /\ \A i \in 1 .. k : kept[k][i] = s[i]}
  <2>3. 0 \in M
    <3>1. <<>> \in S /\ Len(<<>>) = 0 /\ 0 \in 0 .. m /\ ~\E i \in 1 .. 0 : TRUE  OBVIOUS
    <3> HIDE DEF S
    <3> QED  BY <1>12, <3>1
  <2>4. ASSUME NEW k \in 0 .. m - 1, k \in M PROVE k + 1 \in M
    <3> DEFINE x == kept[k]
               e == s[k + 1]
    <3>1. k + 1 \in 1 .. m /\ (k + 1) - 1 = k /\ e \in T  BY <1>1
    <3>2. kept[k + 1] = Keep(x, e)  BY <1>12, <2>2, <3>1
    <3>3. x \in Seq(T) /\ Len(x) = k /\ \A i \in 1 .. k : x[i] = s[i]  BY <2>4
    <3> HIDE DEF x
    <3>4. ~(x # <<>> /\ Last(x).to = e.to)
      <4> SUFFICES ASSUME x # <<>>, Last(x).to = e.to PROVE FALSE  OBVIOUS
      <4>1. k \in 1 .. k /\ k \in 1 .. Len(s) /\ k + 1 \in 1 .. Len(s) /\ k < k + 1
        BY <1>1, <3>1, <3>3
      <4>2. Last(x) = s[k] /\ s[k] \in T  BY <1>1, <3>3, <4>1 DEF Last
      <4>3. s[k].to < e.to  BY <1>17, <4>1 DEF Increasing
      <4>4. s[k].to \in Int /\ e.to \in Int  BY <1>3, <3>1, <4>2
      <4> QED  BY <4>2, <4>3, <4>4
    <3> HIDE DEF e
    <3>5. kept[k + 1] = Append(x, e)  BY <3>2, <3>4 DEF Keep
    <3> DEFINE r == Append(x, e)
    <3>6. /\ r \in Seq(T) /\ Len(r) = k + 1 /\ r[k + 1] = e
          /\ \A i \in 1 .. k : r[i] = x[i]
      <4>1. /\ r \in Seq(T) /\ Len(r) = Len(x) + 1 /\ r[Len(x) + 1] = e
            /\ \A i \in 1 .. Len(x) : r[i] = x[i]
        BY <3>1, <3>3
      <4> QED  BY <3>3, <4>1
    <3> HIDE DEF r
    <3>7. \A i \in 1 .. k + 1 : i \in 1 .. k \/ i = k + 1  OBVIOUS
    <3>8. \A i \in 1 .. k + 1 : r[i] = s[i]  BY <3>3, <3>6, <3>7 DEF e
    <3>9. kept[k + 1] = r  BY <3>5 DEF r
    <3>10. k + 1 \in 0 .. m /\ r \in S /\ Len(r) = k + 1 /\ \A i \in 1 .. k + 1 : r[i] = s[i]
      BY <3>1, <3>6, <3>8
    <3> HIDE DEF S
    <3> QED  BY <3>9, <3>10
  <2>5. m \in M
    <3>1. 0 \in Int /\ m \in Int  OBVIOUS
    <3>2. 0 .. m \subseteq M
      <4> HIDE DEF M
      <4> QED  BY <2>3, <2>4, <3>1, IntervalInduction
    <3> QED  BY <3>2
  <2>6. kept[m] \in Seq(T) /\ Len(kept[m]) = m /\ \A i \in 1 .. m : kept[m][i] = s[i]
    BY <2>5
  <2> QED  BY <1>1, <2>6
<1>18. IsCheapest(kept[m], s)
  <2> DEFINE From(k) == \A p \in 1 .. Len(kept[k]) : \E i \in 1 .. k : kept[k][p] = t[i]
             For(k) == \A i \in 1 .. k : \E p \in 1 .. Len(kept[k]) :
                         kept[k][p].to = t[i].to /\ kept[k][p].cost <= t[i].cost
             C == {k \in 0 .. m : From(k) /\ For(k)}
  <2>1. 0 \in C
    <3>1. Len(<<>>) = 0 /\ 0 \in 0 .. m /\ 1 .. 0 = {}  OBVIOUS
    <3> QED  BY <1>12, <3>1
  <2>2. ASSUME NEW k \in 0 .. m - 1, k \in C PROVE k + 1 \in C
    <3> DEFINE x == kept[k]
               e == t[k + 1]
    <3>1. k + 1 \in 1 .. m /\ k + 1 \in 0 .. m /\ (k + 1) - 1 = k /\ e \in T /\ e.cost \in Int
      BY <1>3, <1>6
    <3>2. kept[k + 1] = Keep(x, e)  BY <1>12, <3>1
    <3>3. /\ \A p \in 1 .. Len(x) : \E i \in 1 .. k : x[p] = t[i]
          /\ \A i \in 1 .. k : \E p \in 1 .. Len(x) : x[p].to = t[i].to /\ x[p].cost <= t[i].cost
      BY <2>2
    <3>4. x \in Seq(T) /\ (k # 0 => x # <<>> /\ x[Len(x)].to = t[k].to)
      <4>1. Sound(k)  BY <1>19, <3>1
      <4> QED  BY <4>1
    <3>5. \A i \in 1 .. k + 1 : i \in 1 .. k \/ i = k + 1  OBVIOUS
    <3>6. \A i \in 1 .. k : i \in 1 .. k + 1  OBVIOUS
    <3> HIDE DEF x, e
    <3>7. CASE x # <<>> /\ Last(x).to = e.to
      <4>1. kept[k + 1] = x  BY <3>2, <3>7 DEF Keep
      <4>2. k # 0 /\ x[Len(x)].to = t[k].to  BY <1>12, <3>4, <3>7 DEF x
      <4>3. k \in 1 .. k /\ k \in 1 .. m /\ k \in 1 .. Len(t) /\ k + 1 \in 1 .. Len(t) /\ k < k + 1
        BY <1>5, <3>1, <4>2
      <4>4. t[k].to = e.to /\ t[k] \in T /\ t[k].to \in Int
        BY <1>3, <1>6, <3>7, <4>2, <4>3 DEF Last
      <4>5. <<t[k], e>> \in order  BY <1>5, <4>3 DEF Ordered, e
      <4>6. t[k].cost <= e.cost
        <5>1. t[k].to < e.to \/ (t[k].to = e.to /\ t[k].cost <= e.cost)
          BY <1>2, <3>1, <4>4, <4>5
        <5> QED  BY <4>4, <5>1
      <4>7. PICK p \in 1 .. Len(x) : x[p].to = t[k].to /\ x[p].cost <= t[k].cost  BY <3>3, <4>3
      <4>8. x[p].cost <= e.cost
        <5>1. x[p].cost \in Int /\ t[k].cost \in Int  BY <1>3, <3>4, <4>4, <4>7
        <5> QED  BY <3>1, <4>6, <4>7, <5>1
      <4>9. x[p].to = e.to /\ x[p].cost <= e.cost  BY <4>4, <4>7, <4>8
      <4>10. From(k + 1)  BY <3>3, <3>6, <4>1
      <4>11. For(k + 1)  BY <3>3, <3>5, <4>1, <4>9 DEF e
      <4> QED  BY <3>1, <4>10, <4>11
    <3>8. CASE ~(x # <<>> /\ Last(x).to = e.to)
      <4> DEFINE r == Append(x, e)
      <4>1. kept[k + 1] = r  BY <3>2, <3>8 DEF Keep
      <4>2. /\ r \in Seq(T) /\ Len(r) = Len(x) + 1 /\ Len(x) \in Nat /\ r[Len(x) + 1] = e
            /\ \A i \in 1 .. Len(x) : r[i] = x[i]
        BY <3>1, <3>4
      <4> HIDE DEF r
      <4>3. \A p \in 1 .. Len(r) : p \in 1 .. Len(x) \/ p = Len(x) + 1  BY <4>2
      <4>4. (\A p \in 1 .. Len(x) : p \in 1 .. Len(r)) /\ Len(x) + 1 \in 1 .. Len(r)  BY <4>2
      <4>5. ASSUME NEW p \in 1 .. Len(r) PROVE \E i \in 1 .. k + 1 : r[p] = t[i]
        <5>1. CASE p = Len(x) + 1  BY <3>1, <4>2, <5>1 DEF e
        <5>2. CASE p \in 1 .. Len(x)  BY <3>3, <3>6, <4>2, <5>2
        <5> QED  BY <4>3, <5>1, <5>2
      <4>6. ASSUME NEW i \in 1 .. k + 1
            PROVE  \E p \in 1 .. Len(r) : r[p].to = t[i].to /\ r[p].cost <= t[i].cost
        <5>1. CASE i = k + 1
          <6>1. e.cost <= e.cost  BY <3>1
          <6>2. r[Len(x) + 1] = t[i] /\ t[i].cost <= t[i].cost  BY <4>2, <5>1, <6>1 DEF e
          <6> QED  BY <4>4, <6>2
        <5>2. CASE i \in 1 .. k
          <6>1. PICK p \in 1 .. Len(x) : x[p].to = t[i].to /\ x[p].cost <= t[i].cost  BY <3>3, <5>2
          <6> QED  BY <4>2, <4>4, <6>1
        <5> QED  BY <3>5, <5>1, <5>2
      <4>7. From(k + 1) /\ For(k + 1)  BY <4>1, <4>5, <4>6
      <4> QED  BY <3>1, <4>7
    <3> QED  BY <3>7, <3>8
  <2>3. 0 \in Int /\ m \in Int  OBVIOUS
  <2> HIDE DEF C
  <2>4. m \in C
    <3>1. 0 .. m \subseteq C  BY <2>1, <2>2, <2>3, IntervalInduction
    <3> QED  BY <3>1
  <2>5. From(m) /\ For(m)  BY <2>4 DEF C
  <2>6. DOMAIN t = 1 .. m /\ DOMAIN kept[m] = 1 .. Len(kept[m])  BY <1>5, <1>15
  <2> HIDE DEF From, For
  <2>7. ToSet(kept[m]) \subseteq ToSet(t)  BY <2>5, <2>6 DEF ToSet, From
  <2>8. \A d \in ToSet(t) : \E e \in ToSet(kept[m]) : e.to = d.to /\ e.cost <= d.cost
    BY <2>5, <2>6 DEF ToSet, For
  <2> QED  BY <1>5, <2>7, <2>8 DEF IsCheapest
<1> QED  BY <1>11, <1>15, <1>16, <1>17, <1>18

-----------------------------------------------------------------------------
(* Finalize                                                                *)

Edge(n) == [to : 1 .. n, cost : Nat \ {0}]

\* What Finalize is given: n nodes and as many lists of edges.
IsRaw(n, nodes, adj) ==
  /\ n \in Nat /\ nodes \in Seq(ToSet(nodes)) /\ Len(nodes) = n
  /\ \A v \in 1 .. n : nodes[v] = [id |-> nodes[v].id, place |-> nodes[v].place]
  /\ adj = [v \in 1 .. n |-> adj[v]]
  /\ \A v \in 1 .. n : /\ adj[v] \in Seq(ToSet(adj[v]))
                       /\ \A e \in ToSet(adj[v]) : e = [to |-> e.to, cost |-> e.cost]

LEMMA AcceptedEdges ==
  ASSUME NEW n, NEW nodes, NEW adj, IsRaw(n, nodes, adj), Acceptable(nodes, adj)
  PROVE  /\ n \in Nat /\ n # 0 /\ DOMAIN nodes = 1 .. n
         /\ \A v \in 1 .. n : adj[v] \in Seq(Edge(n))
<1>1. n \in Nat /\ n # 0 /\ DOMAIN nodes = 1 .. n  BY DEF IsRaw, Acceptable
<1>2. ASSUME NEW v \in 1 .. n PROVE adj[v] \in Seq(Edge(n))
  <2> DEFINE s == adj[v]
  <2>1. /\ s \in Seq(ToSet(s)) /\ DOMAIN adj = 1 .. n
        /\ \A e \in ToSet(s) : e = [to |-> e.to, cost |-> e.cost]
    BY DEF IsRaw
  <2>2. \A k \in DOMAIN s : s[k].to \in 1 .. n /\ s[k].cost \in Nat \ {0}
    BY <1>1, <2>1 DEF Acceptable
  <2> HIDE DEF s
  <2>3. \A k \in DOMAIN s : s[k] \in Edge(n)
    <3> TAKE k \in DOMAIN s
    <3>1. s[k] = [to |-> s[k].to, cost |-> s[k].cost]  BY <2>1 DEF ToSet
    <3> QED  BY <2>2, <3>1 DEF Edge
  <2>4. ToSet(s) \subseteq Edge(n)  BY <2>3 DEF ToSet
  <2>5. s \in Seq(Edge(n))  BY <2>1, <2>4
  <2> QED  BY <2>5 DEF s
<1> QED  BY <1>1, <1>2

\* A node's block is the list that was compacted.
KeepsBlocks(g, out, n) == \A v \in 1 .. n : OutEdges(g, v) = out[v]
LEMMA CompactedBlocks ==
  ASSUME NEW T, NEW n \in Nat, n # 0, NEW nodes, Len(nodes) = n,
         NEW out \in [1 .. n -> Seq(T)]
  PROVE  KeepsBlocks(Compacted(nodes, out), out, n)
<1> SUFFICES ASSUME NEW v \in 1 .. n PROVE OutEdges(Compacted(nodes, out), v) = out[v]
  BY DEF KeepsBlocks
<1> DEFINE g == Compacted(nodes, out)
           sizes == [u \in 1 .. n |-> Len(out[u])]
           o == Offsets(sizes)
           F == FlattenSeq(out)
<1>1. g.outOffsets = o /\ g.outEdges = F  BY DEF Compacted
<1>2. sizes \in [1 .. n -> Nat] /\ \A u \in 1 .. n : sizes[u] = Len(out[u])  OBVIOUS
<1> HIDE DEF sizes
<1>3. /\ o \in [1 .. n + 1 -> Nat] /\ o[1] = 0
      /\ \A u \in 1 .. n : o[u + 1] = o[u] + sizes[u]
      /\ \A u \in 1 .. n + 1 : o[u] <= o[n + 1]
  BY <1>2, OffsetsFacts
<1> HIDE DEF o
<1>4. \A u \in 1 .. n : o[u + 1] = o[u] + Len(out[u])  BY <1>2, <1>3
<1>5. /\ F \in Seq(T) /\ Len(F) = o[n + 1]
      /\ \A u \in 1 .. n : \A k \in 1 .. Len(out[u]) :
           o[u] + k \in 1 .. o[n + 1] /\ F[o[u] + k] = out[u][k]
  <2>1. AreOffsets(o, n, out)  BY <1>3, <1>4 DEF AreOffsets
  <2>2. HasBlocks(F, o, n, out, T)  BY <2>1, FlattenFacts
  <2> QED  BY <2>2 DEF HasBlocks
<1> HIDE DEF F
<1> DEFINE a == o[v]
           s == out[v]
<1>6. a \in Nat /\ s \in Seq(T) /\ o[v + 1] = a + Len(s) /\ a + Len(s) <= Len(F)
      /\ \A k \in 1 .. Len(s) : F[a + k] = s[k]
  <2>1. v \in 1 .. n + 1 /\ v + 1 \in 1 .. n + 1  OBVIOUS
  <2>2. o[v] \in Nat /\ o[v + 1] \in Nat /\ o[v + 1] <= o[n + 1]  BY <1>3, <2>1
  <2>3. s \in Seq(T) /\ o[v + 1] = a + Len(s)  BY <1>4
  <2>4. \A k \in 1 .. Len(s) : F[a + k] = s[k]  BY <1>5
  <2> QED  BY <1>5, <2>2, <2>3, <2>4
<1>7. OutEdges(g, v) = SubSeq(F, a + 1, a + Len(s))  BY <1>1, <1>6 DEF OutEdges, Block
<1> HIDE DEF a, s
<1>8. /\ SubSeq(F, a + 1, a + Len(s)) \in Seq(T) /\ Len(SubSeq(F, a + 1, a + Len(s))) = Len(s)
      /\ \A k \in 1 .. Len(s) : SubSeq(F, a + 1, a + Len(s))[k] = F[a + k]
  <2>1. a + 1 \in Nat /\ Len(s) \in Nat /\ F \in Seq(T) /\ Len(F) \in Nat  BY <1>5, <1>6
  <2> QED  BY <1>6, <2>1
<1>9. SubSeq(F, a + 1, a + Len(s)) = s
  <2> DEFINE b == SubSeq(F, a + 1, a + Len(s))
  <2>1. b \in Seq(T) /\ s \in Seq(T) /\ Len(b) = Len(s) /\ \A k \in 1 .. Len(s) : b[k] = s[k]
    BY <1>6, <1>8
  <2> HIDE DEF b
  <2>2. b \in [1 .. Len(s) -> T] /\ s \in [1 .. Len(s) -> T]  BY <2>1
  <2>3. b = [k \in 1 .. Len(s) |-> b[k]] /\ s = [k \in 1 .. Len(s) |-> s[k]]  BY <2>2
  <2>4. [k \in 1 .. Len(s) |-> b[k]] = [k \in 1 .. Len(s) |-> s[k]]  BY <2>1
  <2>5. b = s  BY <2>3, <2>4, Zenon
  <2> QED  BY <2>5 DEF b
<1> QED  BY <1>7, <1>9 DEF s

\* What Finalize accepts it finishes: finalizing its arcs again changes nothing.
LEMMA FinalizeFinishes ==
  ASSUME NEW n, NEW nodes, NEW adj, IsRaw(n, nodes, adj), Finalize(nodes, adj).ok
  PROVE  IsFinished(Finalize(nodes, adj))
<1> DEFINE g == Finalize(nodes, adj)
           out == [v \in 1 .. n |-> Dedup(adj[v])]
<1>1. Acceptable(nodes, adj)  BY DEF Finalize, NoGraph
<1>2. /\ n \in Nat /\ n # 0 /\ DOMAIN nodes = 1 .. n /\ Len(nodes) = n
      /\ \A v \in 1 .. n : adj[v] \in Seq(Edge(n))
  BY <1>1, AcceptedEdges DEF IsRaw
<1>3. g = Compacted(nodes, out)  BY <1>1, <1>2 DEF Finalize
<1>4. \A e \in Edge(n) : e.to \in Int /\ e.cost \in Int  BY DEF Edge
<1>5. ASSUME NEW v \in 1 .. n
      PROVE  Dedup(adj[v]) \in Seq(Edge(n)) /\ Increasing(Dedup(adj[v]))
  <2>1. Len(adj[v]) \in Nat /\ adj[v] \in [1 .. Len(adj[v]) -> Edge(n)]  BY <1>2
  <2> QED  BY <1>4, <2>1, DedupFacts
<1>6. \A v \in 1 .. n : out[v] = Dedup(adj[v]) /\ out[v] \in Seq(Edge(n)) /\ Increasing(out[v])
  BY <1>5
<1>7. out \in [1 .. n -> Seq(Edge(n))]  BY <1>5
<1> HIDE DEF out
<1>8. ASSUME NEW v \in 1 .. n
      PROVE  Dedup(out[v]) = out[v]
  <2>1. Len(out[v]) \in Nat /\ out[v] \in [1 .. Len(out[v]) -> Edge(n)]  BY <1>6
  <2> QED  BY <1>4, <1>6, <2>1, DedupFacts
<1>9. \A v \in 1 .. n : OutEdges(g, v) = out[v]
  <2>1. n \in Nat /\ n # 0 /\ Len(nodes) = n  BY <1>2
  <2>2. KeepsBlocks(Compacted(nodes, out), out, n)  BY <1>7, <2>1, CompactedBlocks
  <2> QED  BY <1>3, <2>2 DEF KeepsBlocks
<1>10. g.ok /\ g.nodes = nodes  BY <1>3 DEF Compacted
<1>11. Acceptable(nodes, out)
  <2>1. Len(out) = n /\ DOMAIN out = 1 .. n  BY <1>2, <1>7
  <2>2. ASSUME NEW i \in 1 .. n, NEW k \in DOMAIN out[i]
        PROVE  out[i][k].to \in 1 .. n /\ out[i][k].cost \in Nat \ {0}
    <3>1. out[i][k] \in Edge(n)  BY <1>6
    <3> QED  BY <3>1 DEF Edge
  <2> QED  BY <1>1, <1>2, <2>1, <2>2 DEF Acceptable
<1>12. [v \in DOMAIN g.nodes |-> OutEdges(g, v)] = out  BY <1>2, <1>7, <1>9, <1>10
<1>13. [v \in DOMAIN nodes |-> Dedup(out[v])] = out  BY <1>2, <1>7, <1>8
<1>14. Finalize(nodes, out) = g  BY <1>3, <1>11, <1>13 DEF Finalize
<1>15. \A v \in DOMAIN g.nodes :
         /\ g.nodes[v] = [id |-> g.nodes[v].id, place |-> g.nodes[v].place]
         /\ OutEdges(g, v) \in Seq([to : DOMAIN g.nodes, cost : Nat \ {0}])
  BY <1>2, <1>6, <1>9, <1>10 DEF IsRaw, Edge
<1>16. g.nodes \in Seq(ToSet(g.nodes))  BY <1>10 DEF IsRaw
<1> QED  BY <1>10, <1>12, <1>14, <1>15, <1>16 DEF IsFinished

-----------------------------------------------------------------------------
(* The file of a finished graph                                            *)

\* Where the block of a node starts behind the header and the nodes.
Starts(g) == Offsets([v \in DOMAIN g.nodes |-> 1 + Len(OutEdges(g, v))])

IsSpelt(g, n, o) ==
  /\ n \in Nat /\ n # 0 /\ DOMAIN g.nodes = 1 .. n /\ g.ok
  /\ g.nodes = [v \in 1 .. n |-> [id |-> g.nodes[v].id, place |-> g.nodes[v].place]]
  /\ \A v \in 1 .. n : OutEdges(g, v) \in Seq(Edge(n)) /\ Len(OutEdges(g, v)) \in Nat
  /\ g = Finalize(g.nodes, [v \in 1 .. n |-> OutEdges(g, v)])
  /\ o \in [1 .. n + 1 -> Nat] /\ o[1] = 0
  /\ \A v \in 1 .. n : /\ o[v] \in Nat /\ o[v + 1] \in Nat
                        /\ o[v + 1] = o[v] + 1 + Len(OutEdges(g, v))
  /\ \A v \in 1 .. n + 1 : o[v] <= o[n + 1]

LEMMA FinishedFacts ==
  ASSUME NEW g, IsFinished(g), NEW n, n = Len(g.nodes), NEW o, o = Starts(g)
  PROVE  IsSpelt(g, n, o)
<1> DEFINE sizes == [v \in 1 .. n |-> 1 + Len(OutEdges(g, v))]
<1>1. n \in Nat /\ DOMAIN g.nodes = 1 .. n /\ g.ok /\ g.nodes \in [1 .. n -> ToSet(g.nodes)]
  BY DEF IsFinished
<1>2. g = Finalize(g.nodes, [v \in 1 .. n |-> OutEdges(g, v)])  BY <1>1 DEF IsFinished
<1>3. g.nodes # <<>>
  <2>1. Finalize(g.nodes, [v \in 1 .. n |-> OutEdges(g, v)]).ok  BY <1>1, <1>2, Zenon
  <2>2. Acceptable(g.nodes, [v \in 1 .. n |-> OutEdges(g, v)])  BY <2>1 DEF Finalize, NoGraph
  <2> QED  BY <2>2 DEF Acceptable
<1>4. n # 0  BY <1>1, <1>3 DEF IsFinished
<1>5. \A v \in 1 .. n : /\ g.nodes[v] = [id |-> g.nodes[v].id, place |-> g.nodes[v].place]
                        /\ OutEdges(g, v) \in Seq(Edge(n))
  BY <1>1 DEF IsFinished, Edge
<1>6. g.nodes = [v \in 1 .. n |-> [id |-> g.nodes[v].id, place |-> g.nodes[v].place]]
  <2>1. g.nodes = [v \in 1 .. n |-> g.nodes[v]]  BY <1>1
  <2>2. [v \in 1 .. n |-> g.nodes[v]]
        = [v \in 1 .. n |-> [id |-> g.nodes[v].id, place |-> g.nodes[v].place]]
    BY <1>5
  <2> QED  BY <2>1, <2>2, Zenon
<1>7. sizes \in [1 .. n -> Nat] /\ \A v \in 1 .. n : sizes[v] = 1 + Len(OutEdges(g, v))
  BY <1>5
<1>8. o = Offsets(sizes)  BY <1>1 DEF Starts
<1> HIDE DEF sizes
<1>9. /\ o \in [1 .. n + 1 -> Nat] /\ o[1] = 0
      /\ \A v \in 1 .. n : o[v + 1] = o[v] + sizes[v]
      /\ \A v \in 1 .. n + 1 : o[v] <= o[n + 1]
  <2>1. /\ Offsets(sizes) \in [1 .. n + 1 -> Nat] /\ Offsets(sizes)[1] = 0
        /\ \A v \in 1 .. n : Offsets(sizes)[v + 1] = Offsets(sizes)[v] + sizes[v]
        /\ \A v \in 1 .. n + 1 : Offsets(sizes)[v] <= Offsets(sizes)[n + 1]
    BY <1>1, <1>7, OffsetsFacts
  <2> QED  BY <1>8, <2>1
<1>10. \A v \in 1 .. n : /\ o[v] \in Nat /\ o[v + 1] \in Nat /\ Len(OutEdges(g, v)) \in Nat
                         /\ o[v + 1] = o[v] + 1 + Len(OutEdges(g, v))
  <2> TAKE v \in 1 .. n
  <2>0. v \in 1 .. n + 1 /\ v + 1 \in 1 .. n + 1  BY <1>1
  <2>1. o[v + 1] = o[v] + sizes[v] /\ o[v] \in Nat /\ o[v + 1] \in Nat  BY <1>9, <2>0
  <2>2. sizes[v] = 1 + Len(OutEdges(g, v))  BY <1>7
  <2>3. Len(OutEdges(g, v)) \in Nat  BY <1>5
  <2> QED  BY <2>1, <2>2, <2>3
<1> QED  BY <1>1, <1>2, <1>4, <1>5, <1>6, <1>9, <1>10 DEF IsSpelt

\* What a file of a graph says at each place.
Words(g) ==
  {<<"magic">>, <<"text">>, <<"n", Len(g.nodes)>>, <<"m", g.edgeCount>>}
    \cup {<<"node", g.nodes[v].id, g.nodes[v].place>> : v \in DOMAIN g.nodes}
    \cup {<<"degree", d>> : d \in Nat}
    \cup {<<"edge", e.to, e.cost>> : e \in Edge(Len(g.nodes))}
Header(g) == <<<<"magic">>, <<"text">>, <<"n", Len(g.nodes)>>, <<"m", g.edgeCount>>>>
NodeWords(g) == [v \in DOMAIN g.nodes |-> <<"node", g.nodes[v].id, g.nodes[v].place>>]
EdgeWords(g, v) ==
  LET edges == OutEdges(g, v)
  IN  <<<<"degree", Len(edges)>>>> \o [k \in DOMAIN edges |-> <<"edge", edges[k].to, edges[k].cost>>]
IsFileOf(s, g, n, o) ==
  /\ s \in Seq(Words(g)) /\ Len(s) = 4 + n + o[n + 1]
  /\ s[3] = <<"n", n>> /\ s[4] = <<"m", g.edgeCount>>
  /\ \A v \in 1 .. n : s[4 + v] = <<"node", g.nodes[v].id, g.nodes[v].place>>
  /\ \A v \in 1 .. n :
       /\ s[5 + n + o[v]] = <<"degree", Len(OutEdges(g, v))>>
       /\ \A k \in 1 .. Len(OutEdges(g, v)) :
            s[5 + n + o[v] + k] = <<"edge", OutEdges(g, v)[k].to, OutEdges(g, v)[k].cost>>

LEMMA BehindTheNodes ==
  ASSUME NEW n \in Nat, NEW p \in Nat, NEW d \in Nat, NEW k \in 0 .. d
  PROVE  1 + k \in 1 .. 1 + d /\ (4 + n) + (p + (1 + k)) = 5 + n + p + k
OBVIOUS

\* The file of a finished graph says of each node what Load expects where Load
\* expects it.
LEMMA FileFacts ==
  ASSUME NEW g, IsFinished(g), NEW n, n = Len(g.nodes), NEW o, o = Starts(g)
  PROVE  IsFileOf(Values(g), g, n, o)
<1> DEFINE W == Words(g)
           out == [v \in 1 .. n |-> OutEdges(g, v)]
           blocks == [v \in 1 .. n |-> EdgeWords(g, v)]
           F == FlattenSeq(blocks)
           H == Header(g)
           N == NodeWords(g)
<1>1. /\ n \in Nat /\ n # 0 /\ DOMAIN g.nodes = 1 .. n
      /\ \A v \in 1 .. n : OutEdges(g, v) \in Seq(Edge(n)) /\ Len(OutEdges(g, v)) \in Nat
      /\ o \in [1 .. n + 1 -> Nat] /\ o[1] = 0
      /\ \A v \in 1 .. n : o[v] \in Nat /\ o[v + 1] = o[v] + 1 + Len(OutEdges(g, v))
  <2>1. IsSpelt(g, n, o)  BY FinishedFacts
  <2> QED  BY <2>1 DEF IsSpelt
<1>2. Values(g) = (H \o N) \o F
  BY <1>1 DEF Values, Header, NodeWords, EdgeWords, Stored
<1>3. H \in Seq(W) /\ Len(H) = 4 /\ H[3] = <<"n", n>> /\ H[4] = <<"m", g.edgeCount>>
  BY DEF Header, Words
<1>4. /\ N \in Seq(W) /\ Len(N) = n
      /\ \A v \in 1 .. n : N[v] = <<"node", g.nodes[v].id, g.nodes[v].place>>
  <2>1. N \in [1 .. n -> W]  BY <1>1 DEF NodeWords, Words
  <2> QED  BY <1>1, <2>1 DEF NodeWords
<1>5. ASSUME NEW v \in 1 .. n
      PROVE  /\ EdgeWords(g, v) \in Seq(W) /\ Len(EdgeWords(g, v)) = 1 + Len(OutEdges(g, v))
             /\ EdgeWords(g, v)[1] = <<"degree", Len(OutEdges(g, v))>>
             /\ \A k \in 1 .. Len(OutEdges(g, v)) :
                  EdgeWords(g, v)[1 + k] = <<"edge", OutEdges(g, v)[k].to, OutEdges(g, v)[k].cost>>
  <2> DEFINE s == OutEdges(g, v)
             a == <<<<"degree", Len(s)>>>>
             b == [k \in DOMAIN s |-> <<"edge", s[k].to, s[k].cost>>]
  <2>1. s \in Seq(Edge(n)) /\ Len(s) \in Nat /\ DOMAIN s = 1 .. Len(s)  BY <1>1
  <2> HIDE DEF s
  <2>2. a \in Seq(W) /\ Len(a) = 1 /\ a[1] = <<"degree", Len(s)>>
    <3>1. <<"degree", Len(s)>> \in W  BY <2>1 DEF Words
    <3> HIDE DEF W
    <3> QED  BY <3>1
  <2>3. b \in Seq(W) /\ Len(b) = Len(s)
    <3>1. \A k \in 1 .. Len(s) : s[k] \in Edge(n)  BY <2>1
    <3>2. \A e \in Edge(n) : <<"edge", e.to, e.cost>> \in W  BY DEF Words
    <3> HIDE DEF W
    <3>3. b \in [1 .. Len(s) -> W]  BY <2>1, <3>1, <3>2
    <3> QED  BY <2>1, <3>3
  <2>4. \A k \in 1 .. Len(s) : b[k] = <<"edge", s[k].to, s[k].cost>>  BY <2>1
  <2>5. EdgeWords(g, v) = a \o b  BY DEF EdgeWords, s
  <2> HIDE DEF a, b, W
  <2>6. /\ a \o b \in Seq(W) /\ Len(a \o b) = 1 + Len(s)
        /\ \A k \in 1 .. 1 : (a \o b)[k] = a[k]
        /\ \A k \in 1 .. Len(s) : (a \o b)[1 + k] = b[k]
    <3>1. HasJoined(a \o b, a, b, W)  BY <2>2, <2>3, Joined
    <3> QED  BY <2>2, <2>3, <3>1 DEF HasJoined
  <2> DEFINE c == a \o b
  <2>7. c[1] = a[1] /\ \A k \in 1 .. Len(s) : c[1 + k] = b[k]  BY <2>6
  <2> HIDE DEF c
  <2>8. c[1] = <<"degree", Len(s)>> /\ \A k \in 1 .. Len(s) : c[1 + k] = <<"edge", s[k].to, s[k].cost>>
    BY <2>2, <2>4, <2>7
  <2>9. c \in Seq(W) /\ Len(c) = 1 + Len(s) /\ EdgeWords(g, v) = c  BY <2>5, <2>6 DEF c
  <2> QED  BY <2>8, <2>9 DEF s
<1>6. blocks \in [1 .. n -> Seq(W)] /\ \A v \in 1 .. n : blocks[v] = EdgeWords(g, v)
  <2> HIDE DEF W
  <2> QED  BY <1>5
<1> HIDE DEF blocks, W, H, N
<1>7. AreOffsets(o, n, blocks)
  <2>1. \A v \in 1 .. n : o[v + 1] = o[v] + Len(blocks[v])
    <3> TAKE v \in 1 .. n
    <3>1. o[v] \in Nat /\ Len(OutEdges(g, v)) \in Nat  BY <1>1
    <3>2. Len(blocks[v]) = 1 + Len(OutEdges(g, v))  BY <1>5, <1>6
    <3>3. o[v + 1] = o[v] + 1 + Len(OutEdges(g, v))  BY <1>1
    <3> QED  BY <3>1, <3>2, <3>3
  <2> QED  BY <1>1, <2>1 DEF AreOffsets
<1>8. HasBlocks(F, o, n, blocks, W)  BY <1>1, <1>6, <1>7, FlattenFacts
<1> HIDE DEF F
<1>9. /\ F \in Seq(W) /\ Len(F) = o[n + 1]
      /\ \A v \in 1 .. n : \A k \in 1 .. Len(blocks[v]) :
           o[v] + k \in 1 .. Len(F) /\ F[o[v] + k] = blocks[v][k]
  BY <1>8 DEF HasBlocks
<1> DEFINE P == H \o N
<1>10. /\ P \in Seq(W) /\ Len(P) = 4 + n
       /\ \A k \in 1 .. 4 : P[k] = H[k]
       /\ \A k \in 1 .. n : P[4 + k] = N[k]
  <2>1. HasJoined(P, H, N, W)  BY <1>3, <1>4, Joined
  <2> QED  BY <1>3, <1>4, <2>1 DEF HasJoined
<1> HIDE DEF P
<1> DEFINE V == P \o F
<1>11. /\ V \in Seq(W) /\ Len(V) = (4 + n) + Len(F)
       /\ \A k \in 1 .. 4 + n : V[k] = P[k]
       /\ \A k \in 1 .. Len(F) : V[(4 + n) + k] = F[k]
  <2>1. HasJoined(V, P, F, W)  BY <1>9, <1>10, Joined
  <2> QED  BY <1>10, <2>1 DEF HasJoined
<1>12. Values(g) = V  BY <1>2 DEF P
<1> HIDE DEF V
<1>13. V[3] = <<"n", n>> /\ V[4] = <<"m", g.edgeCount>>
  <2>1. 3 \in 1 .. 4 + n /\ 4 \in 1 .. 4 + n /\ 3 \in 1 .. 4 /\ 4 \in 1 .. 4  BY <1>1
  <2> QED  BY <1>3, <1>10, <1>11, <2>1
<1>14. \A v \in 1 .. n : V[4 + v] = <<"node", g.nodes[v].id, g.nodes[v].place>>
  <2> TAKE v \in 1 .. n
  <2>1. 4 + v \in 1 .. 4 + n  BY <1>1
  <2> QED  BY <1>4, <1>10, <1>11, <2>1
<1>15. ASSUME NEW v \in 1 .. n
       PROVE  /\ V[5 + n + o[v]] = <<"degree", Len(OutEdges(g, v))>>
              /\ \A k \in 1 .. Len(OutEdges(g, v)) :
                   V[5 + n + o[v] + k] = <<"edge", OutEdges(g, v)[k].to, OutEdges(g, v)[k].cost>>
  <2> DEFINE p == o[v]
             d == Len(OutEdges(g, v))
  <2>1. p \in Nat /\ d \in Nat /\ n \in Nat  BY <1>1
  <2>2. \A k \in 1 .. 1 + Len(OutEdges(g, v)) :
          o[v] + k \in 1 .. Len(F) /\ F[o[v] + k] = EdgeWords(g, v)[k]
    BY <1>5, <1>6, <1>9
  <2>3. V[5 + n + o[v]] = <<"degree", Len(OutEdges(g, v))>>
    <3>1. 1 \in 1 .. 1 + d /\ (4 + n) + (p + 1) = 5 + n + p
      <4> HIDE DEF p, d
      <4>1. 0 \in 0 .. d  BY <2>1
      <4>2. 1 + 0 \in 1 .. 1 + d /\ (4 + n) + (p + (1 + 0)) = 5 + n + p + 0
        BY <2>1, <4>1, BehindTheNodes, ZenonT(30)
      <4>3. 1 + 0 = 1 /\ 5 + n + p + 0 = 5 + n + p  BY <2>1
      <4> QED  BY <4>2, <4>3, Zenon
    <3>2. o[v] + 1 \in 1 .. Len(F) /\ F[o[v] + 1] = EdgeWords(g, v)[1]  BY <2>2, <3>1
    <3>3. V[(4 + n) + (o[v] + 1)] = F[o[v] + 1]  BY <1>11, <3>2
    <3> QED  BY <1>5, <3>1, <3>2, <3>3
  <2>4. ASSUME NEW k \in 1 .. Len(OutEdges(g, v))
        PROVE  V[5 + n + o[v] + k] = <<"edge", OutEdges(g, v)[k].to, OutEdges(g, v)[k].cost>>
    <3>1. 1 + k \in 1 .. 1 + d /\ (4 + n) + (p + (1 + k)) = 5 + n + p + k
      <4> HIDE DEF p, d
      <4>1. k \in 0 .. d  BY <2>1 DEF d
      <4> QED  BY <2>1, <4>1, BehindTheNodes, ZenonT(30)
    <3>2. o[v] + (1 + k) \in 1 .. Len(F) /\ F[o[v] + (1 + k)] = EdgeWords(g, v)[1 + k]
      BY <2>2, <3>1
    <3>3. V[(4 + n) + (o[v] + (1 + k))] = F[o[v] + (1 + k)]  BY <1>11, <3>2
    <3>4. EdgeWords(g, v)[1 + k] = <<"edge", OutEdges(g, v)[k].to, OutEdges(g, v)[k].cost>>
      BY <1>5
    <3> QED  BY <3>1, <3>2, <3>3, <3>4
  <2> QED  BY <2>3, <2>4
<1>16. V \in Seq(W) /\ Len(V) = 4 + n + o[n + 1]  BY <1>9, <1>11
<1> QED  BY <1>12, <1>13, <1>14, <1>15, <1>16 DEF IsFileOf, W

-----------------------------------------------------------------------------
(* What loads of a prefix of the file                                      *)

IsPrefixOf(s, t) ==
  /\ s \in Seq(ToSet(s)) /\ Len(s) <= Len(t)
  /\ \A i \in 1 .. Len(s) : s[i] = t[i]

HasTaken(r, s, i, c) ==
  /\ r.ok <=> i + c - 1 <= Len(s)
  /\ r.ok => Len(r.vals) = c /\ (c = 1 => r.vals # <<>> /\ r.vals[1] = s[i])
LEMMA TakeFacts ==
  ASSUME NEW T, NEW s \in Seq(T), NEW i \in Nat \ {0}, NEW c \in Nat
  PROVE  HasTaken(Take(s, i, c), s, i, c)
<1> DEFINE r == Take(s, i, c)
<1>1. r.ok <=> i + c - 1 <= Len(s)  BY DEF Take
<1>2. ASSUME r.ok PROVE Len(r.vals) = c /\ (c = 1 => r.vals # <<>> /\ r.vals[1] = s[i])
  <2>1. i + c - 1 <= Len(s)  BY <1>1, <1>2
  <2>2. r.vals = SubSeq(s, i, i + c - 1)  BY <2>1 DEF Take, Slice
  <2>3. Len(SubSeq(s, i, i + c - 1)) = c /\ SubSeq(s, i, i + c - 1) \in Seq(T)
    BY <2>1
  <2>4. ASSUME c = 1 PROVE r.vals # <<>> /\ r.vals[1] = s[i]
    <3>1. i + c - 1 = i /\ i \in 1 .. Len(s)  BY <2>1, <2>4
    <3>2. SubSeq(s, i, i)[1] = s[i] /\ Len(SubSeq(s, i, i)) = 1  BY <3>1
    <3> QED  BY <2>2, <3>1, <3>2
  <2> QED  BY <2>2, <2>3, <2>4
<1> QED  BY <1>1, <1>2 DEF HasTaken

\* Load finds where each list starts, or 0 from where the file ends on.
StartOf(o, n, m, v) == IF 4 + n + o[v] <= m THEN 5 + n + o[v] ELSE 0
NextStart(s, p) ==
  LET d == Take(s, p, 1)
      l == Take(s, p + 1, IF d.vals = <<>> THEN 0 ELSE d.vals[1][2])
  IN  IF d.ok /\ l.ok THEN p + 1 + Len(l.vals) ELSE 0

LEMMA NextStartFacts ==
  ASSUME NEW g, NEW n, NEW o, IsSpelt(g, n, o), NEW t, IsFileOf(t, g, n, o),
         NEW s, IsPrefixOf(s, t), NEW v \in 1 .. n, 4 + n + o[v] <= Len(s)
  PROVE  NextStart(s, 5 + n + o[v]) = StartOf(o, n, Len(s), v + 1)
<1> DEFINE p == 5 + n + o[v]
           c == Len(OutEdges(g, v))
           m == Len(s)
           d == Take(s, p, 1)
           l == Take(s, p + 1, IF d.vals = <<>> THEN 0 ELSE d.vals[1][2])
<1>1. n \in Nat /\ o[v] \in Nat /\ c \in Nat /\ o[v + 1] = o[v] + 1 + c  BY DEF IsSpelt
<1>2. m \in Nat /\ s \in Seq(ToSet(s)) /\ 4 + n + o[v] <= m  BY DEF IsPrefixOf
<1>3. p \in Nat \ {0} /\ p - 1 <= m /\ p + 1 \in Nat \ {0}  BY <1>1, <1>2
<1>4. t[p] = <<"degree", c>>  BY DEF IsFileOf
<1>5. p <= m => s[p] = <<"degree", c>>
  <2>1. p <= m => p \in 1 .. Len(s)  BY <1>2, <1>3
  <2> HIDE DEF p, c
  <2> QED  BY <1>4, <2>1 DEF IsPrefixOf
<1>6. 4 + n + o[v + 1] = p + c /\ 5 + n + o[v + 1] = p + 1 + c  BY <1>1
<1>7. NextStart(s, p) = IF d.ok /\ l.ok THEN p + 1 + Len(l.vals) ELSE 0  BY DEF NextStart
<1>8. StartOf(o, n, m, v + 1) = IF p + c <= m THEN p + 1 + c ELSE 0
  BY <1>6 DEF StartOf
<1>9. HasTaken(d, s, p, 1)
  <2> HIDE DEF p, m
  <2>1. 1 \in Nat  OBVIOUS
  <2> QED  BY <1>2, <1>3, <2>1, TakeFacts
<1>10. CASE ~(p <= m)
  <2> HIDE DEF p, c, m, d, l
  <2>1. ~d.ok /\ ~(p + c <= m)  BY <1>1, <1>2, <1>3, <1>9, <1>10 DEF HasTaken, m
  <2>2. NextStart(s, p) = 0 /\ StartOf(o, n, m, v + 1) = 0  BY <1>7, <1>8, <2>1
  <2> QED  BY <2>2 DEF p, m
<1>11. CASE p <= m
  <2>1. d.ok /\ d.vals # <<>> /\ d.vals[1] = <<"degree", c>>
    <3> HIDE DEF p, c, d
    <3>1. d.ok  BY <1>2, <1>3, <1>9, <1>11 DEF HasTaken
    <3> QED  BY <1>5, <1>9, <1>11, <3>1 DEF HasTaken
  <2>2. l = Take(s, p + 1, c)
    <3>1. d.vals[1][2] = c
      <4> HIDE DEF d, c
      <4> QED  BY <2>1
    <3> HIDE DEF d, c, p
    <3> QED  BY <2>1, <3>1
  <2> HIDE DEF p, c, m, d, l
  <2>3. HasTaken(l, s, p + 1, c)  BY <1>1, <1>2, <1>3, <2>2, TakeFacts DEF c
  <2>4. l.ok <=> p + c <= m
    <3>1. (p + 1) + c - 1 = p + c  BY <1>1, <1>3 DEF c
    <3> QED  BY <2>3, <3>1 DEF HasTaken, m
  <2>5. l.ok => Len(l.vals) = c  BY <2>3 DEF HasTaken
  <2>6. NextStart(s, p) = IF p + c <= m THEN p + 1 + c ELSE 0  BY <1>7, <2>1, <2>4, <2>5
  <2> QED  BY <1>8, <2>6 DEF p, m
<1> QED  BY <1>10, <1>11

\* Parse, for the counts that the header says.
StartsIn(s, n) ==
  CHOOSE f : f = [v \in 1 .. n + 1 |->
                    IF v = 1 THEN 5 + n
                    ELSE IF f[v - 1] = 0 THEN 0 ELSE NextStart(s, f[v - 1])]
ListIn(s, start, v) ==
  [k \in 1 .. start[v + 1] - start[v] - 1 |->
     [to |-> s[start[v] + k][2], cost |-> s[start[v] + k][3]]]
GraphIn(s, n, start) ==
  Finalize([v \in 1 .. n |-> [id |-> s[4 + v][2], place |-> s[4 + v][3]]],
           [v \in 1 .. n |-> ListIn(s, start, v)])
ParseOf(s, n, edges, start) ==
  IF ~Take(s, 5, n).ok \/ start[n + 1] = 0 THEN NoGraph
  ELSE IF GraphIn(s, n, start).ok /\ GraphIn(s, n, start).edgeCount = edges
       THEN GraphIn(s, n, start) ELSE NoGraph

LEMMA ParseInParts ==
  ASSUME NEW s, ~(Len(s) < 4)
  PROVE  Parse(s) = ParseOf(s, s[3][2], s[4][2], StartsIn(s, s[3][2]))
BY DEF Parse, ParseOf, GraphIn, ListIn, StartsIn, NextStart

\* No prefix of a file loads as another graph.
LEMMA PrefixLoads ==
  ASSUME NEW g, IsFinished(g), NEW s, IsPrefixOf(s, Values(g))
  PROVE  Parse(s) \in {NoGraph, g}
<1> DEFINE n == Len(g.nodes)
           o == Starts(g)
           t == Values(g)
           m == Len(s)
<1>1. IsSpelt(g, n, o) /\ IsFileOf(t, g, n, o)
  <2> HIDE DEF t
  <2> QED  BY FinishedFacts, FileFacts DEF t
<1>2. m \in Nat /\ s \in Seq(ToSet(s)) /\ m <= Len(t) /\ \A i \in 1 .. m : s[i] = t[i]
  BY DEF IsPrefixOf
<1> HIDE DEF n, o, t
<1>3. CASE m < 4
  <2>1. Parse(s) = NoGraph  BY <1>3 DEF Parse
  <2> QED  BY <2>1
<1>4. CASE ~(m < 4)
  <2>1. s[3] = <<"n", n>> /\ s[4] = <<"m", g.edgeCount>>
    <3>1. 3 \in 1 .. m /\ 4 \in 1 .. m  BY <1>2, <1>4
    <3> QED  BY <1>1, <1>2, <3>1 DEF IsFileOf
  <2>2. s[3][2] = n /\ s[4][2] = g.edgeCount  BY <2>1
  <2> DEFINE start == StartsIn(s, n)
             st == [v \in 1 .. n + 1 |-> StartOf(o, n, m, v)]
             IsStart(f) == f = [v \in 1 .. n + 1 |->
                             IF v = 1 THEN 5 + n
                             ELSE IF f[v - 1] = 0 THEN 0 ELSE NextStart(s, f[v - 1])]
             list(v) == ListIn(s, start, v)
             h == GraphIn(s, n, start)
  <2>3. Parse(s) = ParseOf(s, n, g.edgeCount, start)
    <3>1. Parse(s) = ParseOf(s, s[3][2], s[4][2], StartsIn(s, s[3][2]))
      BY <1>4, ParseInParts
    <3> QED  BY <2>2, <3>1
  <2> HIDE DEF start, h, list, st
  <2> SUFFICES ASSUME Take(s, 5, n).ok, start[n + 1] # 0 PROVE h = g
    BY <2>3 DEF ParseOf, h
  <2>4. n \in Nat /\ n # 0  BY <1>1 DEF IsSpelt
  <2>4a. \A v \in 1 .. n : OutEdges(g, v) \in Seq(Edge(n)) /\ Len(OutEdges(g, v)) \in Nat
    BY <1>1 DEF IsSpelt
  <2>4b. o[1] = 0 /\ \A v \in 1 .. n : /\ o[v] \in Nat /\ o[v + 1] \in Nat
                                        /\ o[v + 1] = o[v] + 1 + Len(OutEdges(g, v))
    BY <1>1 DEF IsSpelt
  <2>4c. \A v \in 1 .. n + 1 : o[v] <= o[n + 1]  BY <1>1 DEF IsSpelt
  <2>5. 4 + n <= m
    <3>1. HasTaken(Take(s, 5, n), s, 5, n)
      <4>1. 5 \in Nat \ {0}  OBVIOUS
      <4> QED  BY <1>2, <2>4, <4>1, TakeFacts
    <3>2. 5 + n - 1 <= m  BY <3>1 DEF HasTaken
    <3> QED  BY <1>2, <2>4, <3>2
  <2>6. \A v \in 1 .. n + 1 : o[v] \in Nat
    <3>1. o \in [1 .. n + 1 -> Nat]  BY <1>1 DEF IsSpelt
    <3> QED  BY <3>1
  <2>7. IsStart(st)
    <3>1. ASSUME NEW v \in 1 .. n + 1
          PROVE  st[v] = IF v = 1 THEN 5 + n
                         ELSE IF st[v - 1] = 0 THEN 0 ELSE NextStart(s, st[v - 1])
      <4>1. CASE v = 1
        <5>1. st[1] = StartOf(o, n, m, 1) /\ o[1] = 0  BY <2>4, <2>4b DEF st
        <5>2. st[1] = 5 + n  BY <2>4, <2>5, <5>1 DEF StartOf
        <5> QED  BY <4>1, <5>2
      <4>2. CASE v # 1
        <5> DEFINE u == v - 1
        <5>1. u \in 1 .. n /\ u \in 1 .. n + 1 /\ v = u + 1  BY <2>4, <4>2
        <5> HIDE DEF u
        <5>2. st[v] = StartOf(o, n, m, u + 1) /\ st[u] = StartOf(o, n, m, u)  BY <5>1 DEF st
        <5>3. CASE 4 + n + o[u] <= m
          <6>1. st[u] = 5 + n + o[u]  BY <5>2, <5>3 DEF StartOf
          <6>2. st[u] # 0  BY <2>4, <2>4b, <5>1, <6>1
          <6>3. NextStart(s, 5 + n + o[u]) = StartOf(o, n, Len(s), u + 1)
            BY <1>1, <5>1, <5>3, NextStartFacts DEF t
          <6>4. NextStart(s, st[u]) = st[v]  BY <5>2, <6>1, <6>3
          <6> QED  BY <4>2, <6>2, <6>4 DEF u
        <5>4. CASE ~(4 + n + o[u] <= m)
          <6>1. st[u] = 0  BY <5>2, <5>4 DEF StartOf
          <6>2. ~(4 + n + o[u + 1] <= m)  BY <1>2, <2>4, <2>4a, <2>4b, <5>1, <5>4, SMTT(30)
          <6>3. st[v] = 0  BY <5>2, <6>2 DEF StartOf
          <6> QED  BY <4>2, <6>1, <6>3 DEF u
        <5> QED  BY <5>3, <5>4
      <4> QED  BY <4>1, <4>2
    <3>2. st = [v \in 1 .. n + 1 |-> st[v]]  BY DEF st
    <3> QED  BY <3>1, <3>2
  <2>8. IsStart(start)
    <3>1. start = CHOOSE f : IsStart(f)  BY DEF start, StartsIn
    <3> HIDE DEF IsStart
    <3> QED  BY <2>7, <3>1
  <2>9. \A v \in 1 .. n + 1 :
          start[v] = IF v = 1 THEN 5 + n
                     ELSE IF start[v - 1] = 0 THEN 0 ELSE NextStart(s, start[v - 1])
    <3> QED  BY <2>8
  <2>10. \A v \in 1 .. n + 1 :
          st[v] = IF v = 1 THEN 5 + n
                  ELSE IF st[v - 1] = 0 THEN 0 ELSE NextStart(s, st[v - 1])
    <3> QED  BY <2>7
  <2> DEFINE A == {v \in 1 .. n + 1 : start[v] = st[v]}
  <2>11. 1 \in A  BY <2>4, <2>9, <2>10
  <2>12. ASSUME NEW v \in 1 .. (n + 1) - 1, v \in A PROVE v + 1 \in A
    <3>1. v + 1 \in 1 .. n + 1 /\ v + 1 # 1 /\ (v + 1) - 1 = v  BY <2>4
    <3>2. start[v + 1] = IF start[v] = 0 THEN 0 ELSE NextStart(s, start[v])  BY <2>9, <3>1
    <3>3. st[v + 1] = IF st[v] = 0 THEN 0 ELSE NextStart(s, st[v])  BY <2>10, <3>1
    <3> QED  BY <2>12, <3>1, <3>2, <3>3
  <2>13. \A v \in 1 .. n + 1 : start[v] = StartOf(o, n, m, v)
    <3>1. 1 \in Int /\ n + 1 \in Int  BY <2>4
    <3>2. 1 .. n + 1 \subseteq A
      <4> HIDE DEF A
      <4> QED  BY <2>11, <2>12, <3>1, IntervalInduction
    <3>3. \A v \in 1 .. n + 1 : start[v] = st[v]  BY <3>2
    <3> QED  BY <3>3 DEF st
  <2>14. 4 + n + o[n + 1] <= m
    <3>1. n + 1 \in 1 .. n + 1  BY <2>4
    <3> QED  BY <2>13, <3>1 DEF StartOf
  <2>15. \A v \in 1 .. n + 1 : start[v] = 5 + n + o[v]
    <3> TAKE v \in 1 .. n + 1
    <3>1. o[v] \in Nat /\ o[v] <= o[n + 1] /\ o[n + 1] \in Nat
      <4>1. n + 1 \in 1 .. n + 1  BY <2>4
      <4> QED  BY <2>4c, <2>6, <4>1
    <3>2. 4 + n + o[v] <= m  BY <1>2, <2>4, <2>14, <3>1
    <3> QED  BY <2>13, <3>2 DEF StartOf
  <2>16. Len(t) = 4 + n + o[n + 1]  BY <1>1 DEF IsFileOf
  <2>17. m = Len(t) /\ \A i \in 1 .. Len(t) : s[i] = t[i]
    <3>1. o[n + 1] \in Nat
      <4>1. n + 1 \in 1 .. n + 1  BY <2>4
      <4> QED  BY <2>6, <4>1
    <3> QED  BY <1>2, <2>4, <2>14, <2>16, <3>1
  <2>18. ASSUME NEW v \in 1 .. n PROVE list(v) = OutEdges(g, v)
    <3> DEFINE e == OutEdges(g, v)
               c == Len(e)
    <3>1. e \in Seq(Edge(n)) /\ c \in Nat /\ o[v] \in Nat /\ o[v + 1] = o[v] + 1 + c  BY <2>4a, <2>4b
    <3>2. start[v] = 5 + n + o[v] /\ start[v + 1] = 5 + n + o[v + 1]
      <4>1. v \in 1 .. n + 1 /\ v + 1 \in 1 .. n + 1  BY <2>4
      <4> QED  BY <2>15, <4>1
    <3>3. start[v + 1] - start[v] - 1 = c  BY <2>4, <3>1, <3>2
    <3>4. ASSUME NEW k \in 1 .. c
          PROVE  [to |-> s[start[v] + k][2], cost |-> s[start[v] + k][3]] = e[k]
      <4>1. t[5 + n + o[v] + k] = <<"edge", e[k].to, e[k].cost>>  BY <1>1, <3>4 DEF IsFileOf
      <4>2. o[v + 1] <= o[n + 1] /\ o[n + 1] \in Nat
        <5>1. v + 1 \in 1 .. n + 1 /\ n + 1 \in 1 .. n + 1  BY <2>4
        <5> QED  BY <2>4c, <2>6, <5>1
      <4>3. 5 + n + o[v] + k \in 1 .. Len(t)
        <5> DEFINE a == o[v]
                   b == o[n + 1]
        <5>1. n \in Nat /\ a \in Nat /\ b \in Nat /\ c \in Nat /\ k \in 1 .. c /\ a + 1 + c <= b
          BY <2>4, <3>1, <3>4, <4>2
        <5>2. Len(t) = 4 + n + b  BY <2>16
        <5> HIDE DEF a, b, e, c
        <5>3. 5 + n + a + k \in 1 .. 4 + n + b  BY <5>1
        <5> QED  BY <5>2, <5>3 DEF a
      <4>4. s[start[v] + k] = <<"edge", e[k].to, e[k].cost>>
        BY <2>17, <3>2, <4>1, <4>3
      <4>5. e[k] \in Edge(n)  BY <3>1, <3>4
      <4> HIDE DEF e, c
      <4>6. e[k] = [to |-> e[k].to, cost |-> e[k].cost]  BY <4>5 DEF Edge
      <4>7. s[start[v] + k][2] = e[k].to /\ s[start[v] + k][3] = e[k].cost  BY <4>4
      <4> QED  BY <4>6, <4>7
    <3> HIDE DEF e, c
    <3>5. list(v) = [k \in 1 .. c |-> e[k]]
      <4>1. list(v) = [k \in 1 .. c |-> [to |-> s[start[v] + k][2], cost |-> s[start[v] + k][3]]]
        BY <3>3 DEF list, ListIn
      <4> QED  BY <3>4, <4>1
    <3>6. e = [k \in 1 .. c |-> e[k]]  BY <3>1 DEF c
    <3>7. list(v) = e  BY <3>5, <3>6, Zenon
    <3> QED  BY <3>7 DEF e
  <2>19. ASSUME NEW v \in 1 .. n
         PROVE  s[4 + v][2] = g.nodes[v].id /\ s[4 + v][3] = g.nodes[v].place
    <3>1. t[4 + v] = <<"node", g.nodes[v].id, g.nodes[v].place>>  BY <1>1 DEF IsFileOf
    <3>2. 4 + v \in 1 .. Len(t)
      <4>1. o[n + 1] \in Nat
        <5>1. n + 1 \in 1 .. n + 1  BY <2>4
        <5> QED  BY <2>6, <5>1
      <4> QED  BY <2>4, <2>16, <4>1
    <3>3. s[4 + v] = <<"node", g.nodes[v].id, g.nodes[v].place>>  BY <2>17, <3>1, <3>2
    <3> QED  BY <3>3
  <2>20. [v \in 1 .. n |-> list(v)] = [v \in 1 .. n |-> OutEdges(g, v)]
    <3> QED  BY <2>18
  <2>21. [v \in 1 .. n |-> [id |-> s[4 + v][2], place |-> s[4 + v][3]]] = g.nodes
    <3>1. [v \in 1 .. n |-> [id |-> s[4 + v][2], place |-> s[4 + v][3]]]
          = [v \in 1 .. n |-> [id |-> g.nodes[v].id, place |-> g.nodes[v].place]]
      BY <2>19
    <3>2. g.nodes = [v \in 1 .. n |-> [id |-> g.nodes[v].id, place |-> g.nodes[v].place]]
      BY <1>1 DEF IsSpelt
    <3> QED  BY <3>1, <3>2, Zenon
  <2>22. g = Finalize(g.nodes, [v \in 1 .. n |-> OutEdges(g, v)])  BY <1>1 DEF IsSpelt
  <2>23. h = Finalize(g.nodes, [v \in 1 .. n |-> OutEdges(g, v)])
    BY <2>20, <2>21, Zenon DEF h, GraphIn, list
  <2> QED  BY <2>22, <2>23, Zenon
<1> QED  BY <1>3, <1>4

-----------------------------------------------------------------------------
(* What the importers hand to Finalize                                     *)

IsSeq(s) == s \in Seq(ToSet(s))

LEMMA SeqOfItself ==
  ASSUME NEW T, NEW s \in Seq(T)
  PROVE  IsSeq(s) /\ \A x \in ToSet(s) : x \in T
<1>1. s \in [1 .. Len(s) -> ToSet(s)] /\ Len(s) \in Nat  BY DEF ToSet
<1>2. s \in Seq(ToSet(s))  BY <1>1
<1>3. \A x \in ToSet(s) : x \in T  BY DEF ToSet
<1> QED  BY <1>2, <1>3 DEF IsSeq

LEMMA FlattenIsSeq ==
  ASSUME NEW n \in Nat, NEW s, s = [i \in 1 .. n |-> s[i]], \A i \in 1 .. n : IsSeq(s[i])
  PROVE  /\ IsSeq(FlattenSeq(s))
         /\ \A x : x \in ToSet(FlattenSeq(s)) <=> \E i \in 1 .. n : x \in ToSet(s[i])
<1>1. CASE n = 0
  <2>1. Len(s) = 0 /\ DOMAIN s = {}  BY <1>1
  <2>2. FlattenSeq(s) = s  BY <2>1 DEF FlattenSeq
  <2>3. s \in Seq({}) /\ ToSet(s) = {}  BY <1>1, <2>1 DEF ToSet
  <2>4. IsSeq(s)  BY <2>3, SeqOfItself
  <2>5. \A x : ~(x \in ToSet(s)) /\ ~(\E i \in 1 .. n : x \in ToSet(s[i]))
    <3>1. \A i \in 1 .. n : FALSE  BY <1>1
    <3> QED  BY <2>3, <3>1
  <2> QED  BY <2>2, <2>4, <2>5, Zenon
<1>2. CASE n # 0
  <2> DEFINE T == UNION {ToSet(s[i]) : i \in 1 .. n}
             o == Offsets([i \in 1 .. n |-> Len(s[i])])
  <2>1. ASSUME NEW i \in 1 .. n PROVE s[i] \in Seq(T)
    <3>1. s[i] \in Seq(ToSet(s[i]))  BY DEF IsSeq
    <3>2. ToSet(s[i]) \subseteq T  OBVIOUS
    <3> HIDE DEF T
    <3> QED  BY <3>1, <3>2
  <2> HIDE DEF T
  <2>2. s \in [1 .. n -> Seq(T)]
    <3>1. [i \in 1 .. n |-> s[i]] \in [1 .. n -> Seq(T)]  BY <2>1
    <3> QED  BY <3>1, Zenon
  <2>3. HasLengths(s, n)  BY <2>1 DEF HasLengths
  <2>4. AreOffsets(o, n, s)  BY <2>3, OffsetsOfBlocks
  <2> HIDE DEF o
  <2> DEFINE f == FlattenSeq(s)
  <2>5. HasBlocks(f, o, n, s, T)  BY <1>2, <2>2, <2>4, FlattenFacts
  <2> HIDE DEF f
  <2>6. /\ f \in Seq(T) /\ Len(f) = o[n + 1] /\ DOMAIN f = 1 .. o[n + 1]
        /\ \A i \in 1 .. n : \A k \in 1 .. Len(s[i]) :
             o[i] + k \in 1 .. o[n + 1] /\ f[o[i] + k] = s[i][k]
    BY <2>5 DEF HasBlocks
  <2>7. \A i \in 1 .. n : DOMAIN s[i] = 1 .. Len(s[i])  BY <2>1
  <2>8. ASSUME NEW x \in ToSet(f) PROVE \E i \in 1 .. n : x \in ToSet(s[i])
    <3>1. PICK p \in 1 .. o[n + 1] : x = f[p]  BY <2>6 DEF ToSet
    <3>2. InABlock(p, o, n, s)  BY <2>3, <2>4, BlockOf
    <3>3. PICK i \in 1 .. n : \E k \in 1 .. Len(s[i]) : p = o[i] + k  BY <3>2 DEF InABlock
    <3>4. PICK k \in 1 .. Len(s[i]) : p = o[i] + k  BY <3>3
    <3>5. x = s[i][k] /\ k \in DOMAIN s[i]  BY <2>6, <2>7, <3>1, <3>4
    <3> QED  BY <3>5 DEF ToSet
  <2>9. ASSUME NEW i \in 1 .. n, NEW x \in ToSet(s[i]) PROVE x \in ToSet(f)
    <3>1. PICK k \in 1 .. Len(s[i]) : x = s[i][k]  BY <2>7 DEF ToSet
    <3>2. o[i] + k \in DOMAIN f /\ f[o[i] + k] = x  BY <2>6, <3>1
    <3> QED  BY <3>2 DEF ToSet
  <2>10. IsSeq(f)  BY <2>6, SeqOfItself
  <2> QED  BY <2>8, <2>9, <2>10 DEF f
<1> QED  BY <1>1, <1>2

AreEdges(E) == \A e \in E : e = [to |-> e.to, cost |-> e.cost]

IndexIn(ids, i) == CHOOSE v \in DOMAIN ids : ids[v] = i
EdgeFor(ids, a) == [to |-> IndexIn(ids, a[2]), cost |-> a[3]]

\* The list of a node has an edge for each arc from it, and no other.
HasListed(lists, n, ids, A) ==
  \A v \in 1 .. n : ToSet(lists[v]) = {EdgeFor(ids, a) : a \in {a \in A : IndexIn(ids, a[1]) = v}}

LEMMA ListsFacts ==
  ASSUME NEW n \in Nat, NEW ids, DOMAIN ids = 1 .. n, NEW arcs, IsSeq(arcs)
  PROVE  /\ \E E : AreEdges(E) /\ Lists(ids, arcs) \in [1 .. n -> Seq(E)]
         /\ HasListed(Lists(ids, arcs), n, ids, ToSet(arcs))
<1> DEFINE index(i) == CHOOSE v \in DOMAIN ids : ids[v] = i
           E == {[to |-> index(a[2]), cost |-> a[3]] : a \in ToSet(arcs)}
           m == Len(arcs)
           S == [1 .. n -> Seq(E)]
           Put(adj, a) == [adj EXCEPT ![index(a[1])] =
                             Append(@, [to |-> index(a[2]), cost |-> a[3]])]
           none == [v \in DOMAIN ids |-> <<>>]
           Turn == [ip \in (1 .. m) \X S |-> Put(ip[2], arcs[ip[1]])]
           IsFilling(f) == f = [k \in 0 .. m |-> IF k = 0 THEN none ELSE Put(f[k - 1], arcs[k])]
           adj == CHOOSE f : IsFilling(f)
<1>1. m \in Nat /\ \A k \in 1 .. m : arcs[k] \in ToSet(arcs)  BY DEF IsSeq, ToSet
<1>2. AreEdges(E)  BY DEF AreEdges
<1>3. \A a \in ToSet(arcs) : [to |-> index(a[2]), cost |-> a[3]] \in E  OBVIOUS
<1> HIDE DEF E
<1>4. ASSUME NEW t \in S, NEW a \in ToSet(arcs) PROVE Put(t, a) \in S
  <2> DEFINE e == [to |-> index(a[2]), cost |-> a[3]]
             i == index(a[1])
  <2>1. e \in E  BY <1>3
  <2> HIDE DEF e, index
  <2>2. \A v \in 1 .. n : t[v] \in Seq(E) /\ Append(t[v], e) \in Seq(E)  BY <2>1
  <2>3. [t EXCEPT ![i] = Append(@, e)] \in S  BY <2>2
  <2> QED  BY <2>3 DEF e
<1>5. none \in S  OBVIOUS
<1>6. Turn \in [(1 .. m) \X S -> S]
  <2> HIDE DEF Put, S
  <2> QED  BY <1>1, <1>4
<1> HIDE DEF Put, none, S
<1>7. PICK f : IsRun(f, m, S, none, Turn)
  <2> HIDE DEF Turn
  <2> QED  BY <1>1, <1>5, <1>6, PrimitiveRecursion
<1>8. f \in [0 .. m -> S] /\ f[0] = none /\ \A k \in 1 .. m : f[k] = Turn[<<k, f[k - 1]>>]
  BY <1>7 DEF IsRun
<1>9. \A k \in 1 .. m : f[k] = Put(f[k - 1], arcs[k])
  <2> TAKE k \in 1 .. m
  <2>1. f[k - 1] \in S  BY <1>1, <1>8
  <2> QED  BY <1>8, <2>1
<1>10. IsFilling(f)
  <2>1. f = [k \in 0 .. m |-> f[k]]  BY <1>8
  <2>2. \A k \in 0 .. m : f[k] = IF k = 0 THEN none ELSE Put(f[k - 1], arcs[k])
    BY <1>1, <1>8, <1>9
  <2> QED  BY <2>1, <2>2
<1>11. IsFilling(adj)
  <2> HIDE DEF IsFilling
  <2> QED  BY <1>10
<1>12. \A k \in 0 .. m : adj[k] = IF k = 0 THEN none ELSE Put(adj[k - 1], arcs[k])
  <2> HIDE DEF adj
  <2> QED  BY <1>11
<1>13. Lists(ids, arcs) = adj[m]  BY DEF Lists, Put, none
<1> HIDE DEF adj
<1> DEFINE A == {k \in 0 .. m : adj[k] \in S}
<1>14. 0 \in A  BY <1>1, <1>5, <1>12
<1>15. ASSUME NEW k \in 0 .. m - 1, k \in A PROVE k + 1 \in A
  <2>1. k + 1 \in 1 .. m /\ k + 1 \in 0 .. m /\ (k + 1) - 1 = k /\ k + 1 # 0  BY <1>1
  <2>2. adj[k + 1] = Put(adj[k], arcs[k + 1])  BY <1>12, <2>1
  <2>3. Put(adj[k], arcs[k + 1]) \in S  BY <1>1, <1>4, <1>15, <2>1
  <2> QED  BY <2>1, <2>2, <2>3
<1>16. 0 .. m \subseteq A
  <2>1. 0 \in Int /\ m \in Int  BY <1>1
  <2> HIDE DEF A
  <2> QED  BY <1>14, <1>15, <2>1, IntervalInduction
<1>17. Lists(ids, arcs) \in S  BY <1>1, <1>13, <1>16
<1>18. HasListed(adj[m], n, ids, ToSet(arcs))
  <2> DEFINE First(k) == {arcs[j] : j \in 1 .. k}
             C == {k \in 0 .. m : HasListed(adj[k], n, ids, First(k))}
  <2>1. 0 \in C
    <3>1. First(0) = {} /\ 0 \in 0 .. m  BY <1>1
    <3> HIDE DEF First
    <3>2. \A v \in 1 .. n : none[v] = <<>>  BY DEF none
    <3>3. ToSet(<<>>) = {}  BY DEF ToSet
    <3>4. adj[0] = none  BY <1>12, <3>1
    <3>5. HasListed(none, n, ids, {})  BY <3>2, <3>3 DEF HasListed
    <3> QED  BY <3>1, <3>4, <3>5
  <2>2. ASSUME NEW k \in 0 .. m - 1, k \in C PROVE k + 1 \in C
    <3> DEFINE t == adj[k]
               a == arcs[k + 1]
               e == EdgeFor(ids, a)
    <3>1. k + 1 \in 1 .. m /\ k + 1 \in 0 .. m /\ (k + 1) - 1 = k /\ k + 1 # 0 /\ k \in 0 .. m
      BY <1>1
    <3>2. adj[k + 1] = Put(t, a) /\ t \in S /\ a \in ToSet(arcs)
      <4>1. adj[k] \in S  BY <1>16, <3>1
      <4> QED  BY <1>1, <1>12, <3>1, <4>1
    <3>3. HasListed(t, n, ids, First(k))  BY <2>2
    <3>4. First(k + 1) = First(k) \cup {a}
      <4>1. 1 .. k + 1 = (1 .. k) \cup {k + 1}  BY <3>1
      <4> QED  BY <4>1
    <3>5. e \in E  BY <1>3, <3>2 DEF EdgeFor, IndexIn
    <3> HIDE DEF t, a, First
    <3>6. Put(t, a) = [t EXCEPT ![IndexIn(ids, a[1])] = Append(@, e)]
      BY DEF Put, EdgeFor, IndexIn
    <3> HIDE DEF e
    <3>7. ASSUME NEW v \in 1 .. n
          PROVE  ToSet(Put(t, a)[v]) =
                   ToSet(t[v]) \cup {x \in {e} : IndexIn(ids, a[1]) = v}
      <4>1. t[v] \in Seq(E) /\ t \in [1 .. n -> Seq(E)]  BY <3>2 DEF S
      <4>2. CASE IndexIn(ids, a[1]) = v
        <5>1. Put(t, a)[v] = Append(t[v], e)  BY <3>6, <4>1, <4>2
        <5>2. ToSet(Append(t[v], e)) = ToSet(t[v]) \cup {e}
          <6> DEFINE s == t[v]
          <6>1. s \in Seq(E)  BY <4>1
          <6> HIDE DEF s
          <6>2. /\ DOMAIN Append(s, e) = (1 .. Len(s)) \cup {Len(s) + 1} /\ DOMAIN s = 1 .. Len(s)
                /\ \A i \in 1 .. Len(s) : Append(s, e)[i] = s[i]
                /\ Append(s, e)[Len(s) + 1] = e
            BY <3>5, <6>1
          <6>3. ToSet(Append(s, e)) = ToSet(s) \cup {e}  BY <6>2 DEF ToSet
          <6> QED  BY <6>3 DEF s
        <5> QED  BY <4>2, <5>1, <5>2
      <4>3. CASE IndexIn(ids, a[1]) # v
        <5>1. Put(t, a)[v] = t[v]  BY <3>6, <4>1, <4>3
        <5> QED  BY <4>3, <5>1
      <4> QED  BY <4>2, <4>3
    <3>8. HasListed(Put(t, a), n, ids, First(k + 1))
      <4> SUFFICES ASSUME NEW v \in 1 .. n
                   PROVE  ToSet(Put(t, a)[v]) =
                            {EdgeFor(ids, b) : b \in {b \in First(k + 1) : IndexIn(ids, b[1]) = v}}
        BY DEF HasListed
      <4>1. ToSet(t[v]) = {EdgeFor(ids, b) : b \in {b \in First(k) : IndexIn(ids, b[1]) = v}}
        BY <3>3 DEF HasListed
      <4>2. e = EdgeFor(ids, a)  BY DEF e
      <4> DEFINE Of(R) == {EdgeFor(ids, b) : b \in {b \in R : IndexIn(ids, b[1]) = v}}
      <4>3. Of(First(k) \cup {a}) = Of(First(k)) \cup {x \in {EdgeFor(ids, a)} : IndexIn(ids, a[1]) = v}
        OBVIOUS
      <4> QED  BY <3>4, <3>7, <4>1, <4>2, <4>3
    <3> QED  BY <3>1, <3>2, <3>8
  <2>3. 0 \in Int /\ m \in Int  BY <1>1
  <2> HIDE DEF C
  <2>4. m \in C
    <3>1. 0 .. m \subseteq C  BY <2>1, <2>2, <2>3, IntervalInduction
    <3> QED  BY <1>1, <3>1
  <2>5. First(m) = ToSet(arcs)
    <3>1. DOMAIN arcs = 1 .. m  BY DEF IsSeq
    <3> QED  BY <3>1 DEF ToSet
  <2> QED  BY <2>4, <2>5 DEF C
<1> QED  BY <1>2, <1>13, <1>17, <1>18 DEF S

LEMMA RawFacts ==
  ASSUME NEW n \in Nat, NEW ids, DOMAIN ids = 1 .. n, NEW arcs, IsSeq(arcs),
         NEW nodes, nodes = [v \in 1 .. n |-> [id |-> nodes[v].id, place |-> nodes[v].place]]
  PROVE  IsRaw(n, nodes, Lists(ids, arcs))
<1> DEFINE adj == Lists(ids, arcs)
<1>1. PICK E : AreEdges(E) /\ adj \in [1 .. n -> Seq(E)]  BY ListsFacts
<1> HIDE DEF adj
<1>2. ASSUME NEW v \in 1 .. n
      PROVE  adj[v] \in Seq(ToSet(adj[v])) /\ \A e \in ToSet(adj[v]) : e = [to |-> e.to, cost |-> e.cost]
  <2>1. adj[v] \in Seq(E)  BY <1>1
  <2>2. IsSeq(adj[v]) /\ \A e \in ToSet(adj[v]) : e \in E  BY <2>1, SeqOfItself
  <2> QED  BY <1>1, <2>2 DEF IsSeq, AreEdges
<1>3. adj = [v \in 1 .. n |-> adj[v]]  BY <1>1
<1>4. nodes \in Seq(ToSet(nodes)) /\ Len(nodes) = n
  <2> DEFINE R == {nodes[v] : v \in 1 .. n}
  <2>1. nodes = [v \in 1 .. n |-> nodes[v]]
    <3>1. DOMAIN nodes = 1 .. n /\ \E f : nodes = [v \in 1 .. n |-> f[v]]
      <4> DEFINE f == [v \in 1 .. n |-> [id |-> nodes[v].id, place |-> nodes[v].place]]
      <4>1. nodes = f /\ f = [v \in 1 .. n |-> f[v]]  OBVIOUS
      <4> HIDE DEF f
      <4> QED  BY <4>1
    <3> QED  BY <3>1
  <2>2. nodes \in [1 .. n -> R]  BY <2>1
  <2> HIDE DEF R
  <2>3. nodes \in Seq(R) /\ Len(nodes) = n  BY <2>2
  <2> QED  BY <2>3, SeqOfItself DEF IsSeq
<1>5. \A v \in 1 .. n : nodes[v] = [id |-> nodes[v].id, place |-> nodes[v].place]
  <2> TAKE v \in 1 .. n
  <2> DEFINE f == [u \in 1 .. n |-> [id |-> nodes[u].id, place |-> nodes[u].place]]
  <2>1. f[v] = [id |-> nodes[v].id, place |-> nodes[v].place] /\ nodes = f  OBVIOUS
  <2> HIDE DEF f
  <2> QED  BY <2>1, Zenon
<1> QED  BY <1>2, <1>3, <1>4, <1>5 DEF IsRaw, adj

-----------------------------------------------------------------------------
(* The import, and what a Load returns                                     *)

\* The sequences are sequences, and there is a graph, and a finished one, from the
\* moment that one is built.
ImportInv ==
  /\ IsSeq(roads) /\ size \in Nat /\ IsFiniteSet(DOMAIN places)
  /\ OSM => \A w \in ToSet(roads) : IsSeq(w.refs) /\ Len(w.refs) >= 2
  /\ IF stage \in {"read", "coords", "failed"} THEN graph = NoGraph
     ELSE stage \in {"built", "saving", "ended"} /\ IsFinished(graph)

\* The two are the halves of a sequence.
IsSplit(s, t, whole) ==
  /\ IsSeq(s) /\ IsSeq(t) /\ Len(whole) = Len(s) + Len(t)
  /\ \A i \in 1 .. Len(s) : s[i] = whole[i]
  /\ \A i \in 1 .. Len(t) : t[i] = whole[Len(s) + i]

\* The graphs that may have been saved.
Origins == {g \in Saved \cup {graph} : IsFinished(g)}

\* The file is a prefix of a saved graph's, and what Save still holds completes
\* it; a Load that nobody overtook has read a prefix of the file.
FileInv ==
  /\ IsSeq(file) /\ room \in Nat /\ torn \in BOOLEAN
  /\ file = <<>> \/ \E g \in Origins : IsPrefixOf(file, Values(g))
  /\ stage = "saving" => IsSplit(file, todo, Values(graph))
  /\ reading /\ ~torn => IsPrefixOf(got, file)
  /\ loaded.ok /\ ~torn => loaded \in Origins

LEMMA UsedIdsFacts ==
  ASSUME IsFiniteSet(DOMAIN places)
  PROVE  /\ Cardinality(Used) \in Nat /\ DOMAIN UsedIds = 1 .. Cardinality(Used)
         /\ \A v \in DOMAIN UsedIds : UsedIds[v] \in Used
         /\ \A i \in Used : \E v \in DOMAIN UsedIds : UsedIds[v] = i
<1> DEFINE n == Cardinality(Used)
           s == SetToSeq(Used)
           order == {p \in Used \X Used : p[1] <= p[2]}
           IsListing(f) == f \in [1 .. n -> Used] /\ IsInjective(f)
<1>1. IsFiniteSet(Used)
  <2>1. Used \subseteq DOMAIN places  BY DEF Used
  <2> QED  BY <2>1, FS_Subset
<1>2. n \in Nat /\ ExistsBijection(1 .. n, Used)  BY <1>1, FS_CardinalityType
<1>3. \E f : IsListing(f)
  BY <1>2 DEF ExistsBijection, Bijection, Injection
<1>4. s = CHOOSE f : IsListing(f)  BY DEF SetToSeq
<1>5. IsListing(s)
  <2> HIDE DEF IsListing, s
  <2> QED  BY <1>3, <1>4
<1> HIDE DEF n, s, order
<1>6. s \in [1 .. n -> Used] /\ s \in Injection(1 .. n, Used)  BY <1>5 DEF Injection
<1>7. ToSet(s) = Used
  <2>1. IsFiniteSet(1 .. n) /\ Cardinality(1 .. n) = n
    <3>1. IsFiniteSet(1 .. n) /\ Cardinality(1 .. n) = IF 1 > n THEN 0 ELSE n - 1 + 1
      BY <1>2, FS_Interval
    <3> QED  BY <1>2, <3>1
  <2>2. s \in Surjection(1 .. n, Used)
    <3>1. Cardinality(1 .. n) = Cardinality(Used)  BY <2>1 DEF n
    <3> QED  BY <1>1, <1>6, <3>1, FS_Injection
  <2> QED  BY <1>6, <2>2 DEF Surjection, ToSet
<1>8. /\ InOrder(s, order) \in Seq(Used) /\ Len(InOrder(s, order)) = n
      /\ ToSet(InOrder(s, order)) = ToSet(s)
  BY <1>2, <1>6, InOrderFacts
<1>9. UsedIds = InOrder(s, order)  BY DEF UsedIds, s, order
<1>10. DOMAIN UsedIds = 1 .. n /\ \A v \in 1 .. n : UsedIds[v] \in Used  BY <1>8, <1>9
<1>11. \A i \in Used : \E v \in DOMAIN UsedIds : UsedIds[v] = i
  <2>1. ToSet(UsedIds) = Used  BY <1>7, <1>8, <1>9
  <2> QED  BY <2>1 DEF ToSet
<1> QED  BY <1>2, <1>10, <1>11 DEF n

\* The arcs of a way are those of its usable stretches.
Stretch(w, i) == [a |-> w.refs[i], b |-> w.refs[i + 1], tags |-> w.tags]
OnWay(x, w) ==
  \E i \in 1 .. Len(w.refs) - 1 : Usable(Stretch(w, i)) /\ x \in ToSet(ArcsOf(Stretch(w, i)))
LEMMA OSMArcsFacts ==
  ASSUME IsSeq(roads), \A w \in ToSet(roads) : IsSeq(w.refs) /\ Len(w.refs) >= 2
  PROVE  /\ IsSeq(OSMArcs)
         /\ \A x : x \in ToSet(OSMArcs) <=> \E w \in ToSet(roads) : OnWay(x, w)
<1> DEFINE arcsOf(k) == LET all == Stretches(roads[k])
                        IN  FlattenSeq([i \in DOMAIN all |-> IF Usable(all[i]) THEN ArcsOf(all[i]) ELSE <<>>])
           s == [k \in DOMAIN roads |-> arcsOf(k)]
<1>1. ASSUME NEW k \in DOMAIN roads
      PROVE  IsSeq(arcsOf(k)) /\ \A x : x \in ToSet(arcsOf(k)) <=> OnWay(x, roads[k])
  <2> DEFINE w == roads[k]
             all == Stretches(w)
             m == Len(w.refs) - 1
             piece(i) == IF Usable(all[i]) THEN ArcsOf(all[i]) ELSE <<>>
             pieces == [i \in DOMAIN all |-> piece(i)]
  <2>1. m \in Nat /\ DOMAIN all = 1 .. m /\ \A i \in 1 .. m : all[i] = Stretch(w, i)
    <3>1. IsSeq(w.refs) /\ Len(w.refs) >= 2  BY DEF ToSet
    <3>2. Len(w.refs) \in Nat  BY <3>1 DEF IsSeq
    <3> QED  BY <3>1, <3>2 DEF Stretches, Stretch
  <2>2. ASSUME NEW i \in 1 .. m PROVE IsSeq(piece(i))
    <3> HIDE DEF all
    <3>1. IsSeq(<<>>)
      <4>1. <<>> \in Seq({})  OBVIOUS
      <4> QED  BY <4>1, SeqOfItself
    <3>2. IsSeq(ArcsOf(all[i]))
      <4> DEFINE st == all[i]
                 cost == Cost(Meters(places[st.a], places[st.b]), st.tags)
                 forth == <<st.a, st.b, cost>>
                 back == <<st.b, st.a, cost>>
      <4>1. ArcsOf(st) \in {<<forth>>, <<back>>, <<forth, back>>}  BY DEF ArcsOf
      <4> HIDE DEF forth, back, st
      <4>2. <<forth>> \in Seq({forth, back}) /\ <<back>> \in Seq({forth, back})
            /\ <<forth, back>> \in Seq({forth, back})
        OBVIOUS
      <4>3. IsSeq(ArcsOf(st))  BY <4>1, <4>2, SeqOfItself
      <4> QED  BY <4>3 DEF st
    <3> QED  BY <3>1, <3>2
  <2>3. pieces = [i \in 1 .. m |-> pieces[i]] /\ \A i \in 1 .. m : pieces[i] = piece(i)
    <3> HIDE DEF all, piece, m
    <3> QED  BY <2>1
  <2>4. ASSUME NEW x, NEW i \in 1 .. m
        PROVE  x \in ToSet(pieces[i]) <=> Usable(Stretch(w, i)) /\ x \in ToSet(ArcsOf(Stretch(w, i)))
    <3>1. pieces[i] = IF Usable(Stretch(w, i)) THEN ArcsOf(Stretch(w, i)) ELSE <<>>  BY <2>1, <2>3
    <3>2. ~(x \in ToSet(<<>>))  BY DEF ToSet
    <3> HIDE DEF pieces, m, w
    <3> QED  BY <3>1, <3>2
  <2> HIDE DEF pieces, piece
  <2>5. IsSeq(FlattenSeq(pieces)) /\ \A x : x \in ToSet(FlattenSeq(pieces)) <=> \E i \in 1 .. m : x \in ToSet(pieces[i])
    <3> HIDE DEF m
    <3> QED  BY <2>1, <2>2, <2>3, FlattenIsSeq
  <2>6. \A x : x \in ToSet(FlattenSeq(pieces)) <=> OnWay(x, w)  BY <2>4, <2>5 DEF OnWay
  <2> QED  BY <2>5, <2>6 DEF pieces, piece
<1> DEFINE n == Len(roads)
<1>2. n \in Nat /\ DOMAIN roads = 1 .. n  BY DEF IsSeq
<1> HIDE DEF n, arcsOf
<1>3. s = [k \in 1 .. n |-> s[k]] /\ \A k \in 1 .. n : s[k] = arcsOf(k)  BY <1>2
<1> HIDE DEF s
<1>4. IsSeq(FlattenSeq(s)) /\ \A x : x \in ToSet(FlattenSeq(s)) <=> \E k \in 1 .. n : x \in ToSet(s[k])
  <2>1. \A k \in 1 .. n : IsSeq(s[k])  BY <1>1, <1>2, <1>3
  <2> QED  BY <1>2, <1>3, <2>1, FlattenIsSeq
<1>5. \A x : (\E k \in 1 .. n : x \in ToSet(s[k])) <=> \E w \in ToSet(roads) : OnWay(x, w)
  <2>1. ToSet(roads) = {roads[k] : k \in 1 .. n}  BY <1>2 DEF ToSet
  <2>2. \A k \in 1 .. n : \A x : x \in ToSet(s[k]) <=> OnWay(x, roads[k])  BY <1>1, <1>2, <1>3
  <2> QED  BY <2>1, <2>2
<1>6. OSMArcs = FlattenSeq(s)  BY DEF OSMArcs, s, arcsOf
<1> QED  BY <1>4, <1>5, <1>6

LEMMA AppendIsSeq ==
  ASSUME NEW s, IsSeq(s), NEW x
  PROVE  IsSeq(Append(s, x)) /\ \A y \in ToSet(Append(s, x)) : y \in ToSet(s) \/ y = x
<1> DEFINE T == ToSet(s) \cup {x}
<1>1. s \in Seq(T)
  <2>1. s \in Seq(ToSet(s)) /\ ToSet(s) \subseteq T  BY DEF IsSeq
  <2> HIDE DEF T
  <2> QED  BY <2>1
<1>2. Append(s, x) \in Seq(T)
  <2>1. x \in T  OBVIOUS
  <2> HIDE DEF T
  <2> QED  BY <1>1, <2>1
<1>3. IsSeq(Append(s, x)) /\ \A y \in ToSet(Append(s, x)) : y \in T
  <2> HIDE DEF T
  <2> QED  BY <1>2, SeqOfItself
<1> QED  BY <1>3

\* A graph that is built is finished.
LEMMA BuiltFinished ==
  ASSUME NEW n, NEW nodes, NEW adj, IsRaw(n, nodes, adj), graph = NoGraph,
         Built(Finalize(nodes, adj))
  PROVE  IF stage' \in {"read", "coords", "failed"} THEN graph' = NoGraph
         ELSE stage' = "built" /\ IsFinished(graph')
<1> DEFINE g == Finalize(nodes, adj)
<1>1. CASE g.ok
  <2>1. stage' = "built" /\ graph' = g  BY <1>1 DEF Built
  <2>2. IsFinished(g)  BY <1>1, FinalizeFinishes
  <2> HIDE DEF g
  <2> QED  BY <2>1, <2>2
<1>2. CASE ~g.ok
  <2>1. stage' = "failed" /\ graph' = graph  BY <1>2 DEF Built, Fail
  <2> QED  BY <2>1
<1> QED  BY <1>1, <1>2

LEMMA ImportStarts ==
  ASSUME NEW setups, ImportInit(setups)
  PROVE  ImportInv
<1>1. IsSeq(<<>>) /\ \A w \in ToSet(<<>>) : FALSE
  <2>1. <<>> \in Seq({})  OBVIOUS
  <2>2. IsSeq(<<>>)  BY <2>1, SeqOfItself
  <2>3. ToSet(<<>>) = {}  BY DEF ToSet
  <2> QED  BY <2>2, <2>3
<1>2. IsFiniteSet(DOMAIN <<>>)
  <2>1. DOMAIN <<>> = {}  OBVIOUS
  <2> QED  BY <2>1, FS_EmptySet
<1> QED  BY <1>1, <1>2 DEF ImportInit, ImportInv

\* The import keeps its sequences, and ends in a finished graph or in none.
LEMMA ImportStep ==
  ASSUME NEW origin, ImportInv, Import(origin)
  PROVE  /\ ImportInv' /\ stage' # "saving"
         /\ graph = NoGraph
<1>1. /\ IsSeq(roads) /\ size \in Nat /\ IsFiniteSet(DOMAIN places)
      /\ OSM => \A w \in ToSet(roads) : IsSeq(w.refs) /\ Len(w.refs) >= 2
  BY DEF ImportInv
<1>2. CASE Read
  <2>1. stage \in {"read", "coords"} /\ graph = NoGraph /\ options' = options
    BY <1>2 DEF Read, ImportInv
  <2>2. OSM' <=> OSM  BY <2>1 DEF OSM
  <2> DEFINE Keeps == IsSeq(roads') /\ size' \in Nat /\ IsFiniteSet(DOMAIN places')
                      /\ (OSM => \A w \in ToSet(roads') : IsSeq(w.refs) /\ Len(w.refs) >= 2)
                      /\ graph' = NoGraph /\ stage' \in {"read", "coords", "failed"}
  <2>3. SUFFICES Keeps  BY <2>1, <2>2 DEF ImportInv, NoGraph
  <2>4. PICK x \in Elements :
          \/ ReadNode(x) \/ ReadWay(x) \/ ReadProblem(x) \/ ReadArc(x) \/ ReadCoord(x)
          \/ ReadMalformed(x)
    BY <1>2 DEF Read
  <2>5. CASE ReadNode(x)
    <3>1. DOMAIN places' = DOMAIN places \cup {x.id}  BY <2>5 DEF ReadNode
    <3>2. IsFiniteSet(DOMAIN places')  BY <1>1, <3>1, FS_AddElement
    <3> QED  BY <1>1, <2>1, <2>5, <3>2 DEF ReadNode
  <2>6. CASE ReadWay(x)
    <3>1. IsSeq(x.refs)  BY <2>6, ElementAssumption DEF ReadWay, IsSeq
    <3>2. CASE isRoutable(x.tags, options.profile) /\ Len(x.refs) >= 2
      <4>1. roads' = Append(roads, x)  BY <2>6, <3>2 DEF ReadWay
      <4>2. IsSeq(roads') /\ \A w \in ToSet(roads') : w \in ToSet(roads) \/ w = x
        BY <1>1, <4>1, AppendIsSeq
      <4>3. \A w \in ToSet(roads') : OSM => IsSeq(w.refs) /\ Len(w.refs) >= 2
        BY <1>1, <3>1, <3>2, <4>2
      <4> QED  BY <1>1, <2>1, <2>6, <4>2, <4>3 DEF ReadWay
    <3>3. CASE ~(isRoutable(x.tags, options.profile) /\ Len(x.refs) >= 2)
      <4>1. roads' = roads  BY <2>6, <3>3 DEF ReadWay
      <4> QED  BY <1>1, <2>1, <2>6, <4>1 DEF ReadWay
    <3> QED  BY <3>2, <3>3
  <2>7. CASE ReadProblem(x)
    <3>1. size' \in Nat  BY <2>7, ElementAssumption DEF ReadProblem
    <3> QED  BY <1>1, <2>1, <2>7, <3>1 DEF ReadProblem
  <2>8. CASE ReadArc(x)
    <3>1. IsSeq(roads') /\ ~OSM  BY <1>1, <2>8, AppendIsSeq DEF ReadArc
    <3> QED  BY <1>1, <2>1, <2>8, <3>1 DEF ReadArc
  <2>9. CASE ReadCoord(x)
    <3>1. DOMAIN places' = DOMAIN places  BY <2>9 DEF ReadCoord
    <3>2. stage' \in {"coords", "failed"}  BY <2>9 DEF ReadCoord
    <3> QED  BY <1>1, <2>1, <2>9, <3>1, <3>2 DEF ReadCoord
  <2>10. CASE ReadMalformed(x)  BY <1>1, <2>1, <2>10 DEF ReadMalformed, Fail
  <2> QED  BY <2>4, <2>5, <2>6, <2>7, <2>8, <2>9, <2>10
<1>3. CASE EndOSM
  <2>1. /\ OSM /\ stage = "read" /\ graph = NoGraph
        /\ UNCHANGED <<options, count, places, roads, size>>
    BY <1>3 DEF EndOSM, ImportInv
  <2> DEFINE n == Cardinality(Used)
             nodes == [v \in DOMAIN UsedIds |-> [id |-> UsedIds[v], place |-> places[UsedIds[v]]]]
  <2>2. n \in Nat /\ DOMAIN UsedIds = 1 .. n  BY <1>1, UsedIdsFacts
  <2>3. IsSeq(OSMArcs)  BY <1>1, <2>1, OSMArcsFacts
  <2> HIDE DEF n
  <2>4. nodes = [v \in 1 .. n |-> [id |-> nodes[v].id, place |-> nodes[v].place]]  BY <2>2
  <2> HIDE DEF nodes
  <2>5. IsRaw(n, nodes, Lists(UsedIds, OSMArcs))  BY <2>2, <2>3, <2>4, RawFacts
  <2>6. IF stage' \in {"read", "coords", "failed"} THEN graph' = NoGraph
        ELSE stage' = "built" /\ IsFinished(graph')
    <3>1. CASE DOMAIN places = {} \/ roads = <<>>
      <4>1. Fail  BY <1>3, <3>1 DEF EndOSM
      <4> QED  BY <2>1, <4>1 DEF Fail
    <3>2. CASE ~(DOMAIN places = {} \/ roads = <<>>)
      <4>1. Built(Finalize(nodes, Lists(UsedIds, OSMArcs)))  BY <1>3, <3>2 DEF EndOSM, nodes
      <4> QED  BY <2>1, <2>5, <4>1, BuiltFinished
    <3> QED  BY <3>1, <3>2
  <2> QED  BY <1>1, <2>1, <2>6 DEF ImportInv, OSM
<1>4. CASE EndArcs(origin)
  <2>1. /\ ~OSM /\ graph = NoGraph /\ stage' \in {"failed", "coords"}
        /\ UNCHANGED <<options, count, roads, size, graph>>
    BY <1>4 DEF EndArcs, ImportInv
  <2>2. IsFiniteSet(DOMAIN places')
    <3>1. DOMAIN places' = DOMAIN places \/ DOMAIN places' = 1 .. size  BY <1>4 DEF EndArcs, Ids
    <3>2. IsFiniteSet(1 .. size)  BY <1>1, FS_Interval
    <3> QED  BY <1>1, <3>1, <3>2
  <2> QED  BY <1>1, <2>1, <2>2 DEF ImportInv, OSM
<1>5. CASE EndCoords
  <2>1. /\ ~OSM /\ graph = NoGraph /\ UNCHANGED <<options, count, places, roads, size>>
    BY <1>5 DEF EndCoords, ImportInv
  <2> DEFINE nodes == [v \in Ids |-> [id |-> v, place |-> places[v]]]
             ids == [v \in Ids |-> v]
  <2>2. DOMAIN ids = 1 .. size  BY DEF Ids
  <2>3. nodes = [v \in 1 .. size |-> [id |-> nodes[v].id, place |-> nodes[v].place]]  BY DEF Ids
  <2>4. Built(Finalize(nodes, Lists(ids, roads)))  BY <1>5 DEF EndCoords
  <2> HIDE DEF nodes, ids
  <2>5. IsRaw(size, nodes, Lists(ids, roads))  BY <1>1, <2>2, <2>3, RawFacts
  <2>6. IF stage' \in {"read", "coords", "failed"} THEN graph' = NoGraph
        ELSE stage' = "built" /\ IsFinished(graph')
    BY <2>1, <2>4, <2>5, BuiltFinished
  <2> QED  BY <1>1, <2>1, <2>6 DEF ImportInv, OSM
<1> QED  BY <1>2, <1>3, <1>4, <1>5 DEF Import

LEMMA FileIsSeq ==
  ASSUME NEW g, IsFinished(g)
  PROVE  IsSeq(Values(g)) /\ Len(Values(g)) \in Nat
<1> DEFINE n == Len(g.nodes)
           o == Starts(g)
           t == Values(g)
<1>1. IsFileOf(t, g, n, o)  BY FileFacts
<1> HIDE DEF t
<1>2. t \in Seq(Words(g))  BY <1>1 DEF IsFileOf
<1>3. Len(t) \in Nat  BY <1>2
<1>4. IsSeq(t)  BY <1>2, SeqOfItself
<1> QED  BY <1>3, <1>4 DEF t

LEMMA PrefixOfPrefix ==
  ASSUME NEW r, NEW s, NEW t, IsPrefixOf(r, s), IsPrefixOf(s, t), Len(t) \in Nat
  PROVE  IsPrefixOf(r, t)
<1>1. Len(r) \in Nat /\ Len(s) \in Nat /\ Len(r) <= Len(s) /\ Len(s) <= Len(t)
  BY DEF IsPrefixOf
<1>2. \A i \in 1 .. Len(r) : r[i] = s[i] /\ i \in 1 .. Len(s)  BY <1>1 DEF IsPrefixOf
<1> QED  BY <1>1, <1>2 DEF IsPrefixOf

\* What follows a prefix may be put behind it.
LEMMA LongerPrefix ==
  ASSUME NEW s, NEW t, IsSeq(t), IsPrefixOf(s, t), NEW c \in Nat, Len(s) + c <= Len(t),
         NEW r, r = SubSeq(t, Len(s) + 1, Len(s) + c)
  PROVE  /\ IsPrefixOf(s \o r, t) /\ IsPrefixOf(s, s \o r)
         /\ Len(s \o r) = Len(s) + c
<1> DEFINE T == ToSet(t)
           a == Len(s)
<1>1. a \in Nat /\ Len(t) \in Nat /\ t \in Seq(T)  BY DEF IsPrefixOf, IsSeq
<1>2. s \in Seq(T)
  <2>1. s \in Seq(ToSet(s)) /\ \A i \in 1 .. a : s[i] = t[i] /\ i \in 1 .. Len(t)
    BY <1>1 DEF IsPrefixOf
  <2>2. \A i \in 1 .. a : s[i] \in T  BY <1>1, <2>1 DEF ToSet
  <2> HIDE DEF T
  <2>3. s \in [1 .. a -> T]  BY <2>1, <2>2
  <2> QED  BY <1>1, <2>3
<1> HIDE DEF T
<1>3. /\ r \in Seq(T) /\ Len(r) = c
      /\ \A i \in 1 .. c : r[i] = t[a + i]
  BY <1>1
<1>4. HasJoined(s \o r, s, r, T)  BY <1>2, <1>3, Joined
<1> DEFINE q == s \o r
<1> HIDE DEF q
<1>5. /\ q \in Seq(T) /\ Len(q) = a + c
      /\ \A i \in 1 .. a : q[i] = s[i]
      /\ \A i \in 1 .. c : q[a + i] = r[i]
  BY <1>3, <1>4 DEF HasJoined, q
<1>6. \A i \in 1 .. Len(q) : q[i] = t[i]
  <2> TAKE i \in 1 .. Len(q)
  <2>1. CASE i \in 1 .. a  BY <1>5, <2>1 DEF IsPrefixOf
  <2>2. CASE i \notin 1 .. a
    <3>1. i - a \in 1 .. c /\ a + (i - a) = i  BY <1>1, <1>5, <2>2
    <3> QED  BY <1>3, <1>5, <3>1
  <2> QED  BY <2>1, <2>2
<1>7. IsSeq(q)  BY <1>5, SeqOfItself
<1>8. IsPrefixOf(q, t)  BY <1>5, <1>6, <1>7 DEF IsPrefixOf, IsSeq
<1>9. IsPrefixOf(s, q)  BY <1>1, <1>5 DEF IsPrefixOf
<1> QED  BY <1>5, <1>8, <1>9 DEF q

EmptySplit(s) == IsSplit(<<>>, s, s) /\ IsPrefixOf(<<>>, s) /\ IsPrefixOf(s, s)
LEMMA NothingWritten ==
  ASSUME NEW s, IsSeq(s)
  PROVE  EmptySplit(s)
<1>1. s \in Seq(ToSet(s)) /\ Len(s) \in Nat  BY DEF IsSeq
<1>2. IsSeq(<<>>) /\ Len(<<>>) = 0 /\ <<>> \in Seq(ToSet(<<>>))
  <2>1. <<>> \in Seq({}) /\ Len(<<>>) = 0  OBVIOUS
  <2> QED  BY <2>1, SeqOfItself DEF IsSeq
<1>3. IsSplit(<<>>, s, s)  BY <1>1, <1>2 DEF IsSplit
<1>4. IsPrefixOf(<<>>, s) /\ IsPrefixOf(s, s)  BY <1>1, <1>2 DEF IsPrefixOf
<1> QED  BY <1>3, <1>4 DEF EmptySplit

\* A piece of the second half moves to the first.
HasMoved(r, s, t, whole) ==
  /\ IsSplit(r, t, whole) /\ IsPrefixOf(r, whole) /\ IsPrefixOf(s, r) /\ IsSeq(r)
LEMMA SplitStep ==
  ASSUME NEW s, NEW t, NEW whole, IsSeq(whole), IsSplit(s, t, whole), NEW c \in 0 .. Len(t)
  PROVE  HasMoved(s \o SubSeq(t, 1, c), s, SubSeq(t, c + 1, Len(t)), whole)
<1> DEFINE a == Len(s)
           b == Len(t)
           p == SubSeq(t, 1, c)
           q == SubSeq(t, c + 1, b)
           r == SubSeq(whole, a + 1, a + c)
           T == ToSet(whole)
<1>1. /\ a \in Nat /\ b \in Nat /\ c \in Nat /\ c <= b /\ Len(whole) = a + b
      /\ whole \in Seq(T) /\ t \in Seq(ToSet(t)) /\ s \in Seq(ToSet(s))
      /\ \A i \in 1 .. a : s[i] = whole[i]
      /\ \A i \in 1 .. b : t[i] = whole[a + i]
  BY DEF IsSplit, IsSeq
<1> HIDE DEF T
<1>2. IsPrefixOf(s, whole)  BY <1>1 DEF IsPrefixOf
<1>3. p \in Seq(ToSet(t)) /\ Len(p) = c /\ \A i \in 1 .. c : p[i] = t[i]  BY <1>1
<1>4. r \in Seq(T) /\ Len(r) = c /\ \A i \in 1 .. c : r[i] = whole[a + i]  BY <1>1
<1>5. q \in Seq(ToSet(t)) /\ Len(q) = b - c /\ \A i \in 1 .. b - c : q[i] = t[c + i]  BY <1>1
<1> HIDE DEF p, q, r
<1>6. p = r
  <2>1. ASSUME NEW i \in 1 .. c PROVE p[i] = r[i]
    <3>1. i \in 1 .. b  BY <1>1
    <3>2. p[i] = whole[a + i]  BY <1>1, <1>3, <3>1
    <3> QED  BY <1>4, <3>2
  <2>2. p = [i \in 1 .. c |-> p[i]] /\ r = [i \in 1 .. c |-> r[i]]  BY <1>3, <1>4
  <2>3. [i \in 1 .. c |-> p[i]] = [i \in 1 .. c |-> r[i]]  BY <2>1
  <2> QED  BY <2>2, <2>3, Zenon
<1>7. /\ IsPrefixOf(s \o p, whole) /\ IsPrefixOf(s, s \o p) /\ Len(s \o p) = a + c
  <2>1. r = SubSeq(whole, Len(s) + 1, Len(s) + c) /\ c \in Nat /\ Len(s) + c <= Len(whole)
    BY <1>1 DEF r
  <2>2. /\ IsPrefixOf(s \o r, whole) /\ IsPrefixOf(s, s \o r) /\ Len(s \o r) = Len(s) + c
    BY <1>2, <2>1, LongerPrefix
  <2> QED  BY <1>6, <2>2
<1> DEFINE u == s \o p
<1> HIDE DEF u
<1>8. IsSeq(u) /\ \A i \in 1 .. Len(u) : u[i] = whole[i]
  <2>1. IsPrefixOf(u, whole)  BY <1>7 DEF u
  <2> QED  BY <2>1 DEF IsPrefixOf, IsSeq
<1>9. \A i \in 1 .. Len(q) : q[i] = whole[Len(u) + i]
  <2> TAKE i \in 1 .. Len(q)
  <2>1. c + i \in 1 .. b /\ a + (c + i) = (a + c) + i /\ i \in 1 .. b - c  BY <1>1, <1>5
  <2> QED  BY <1>1, <1>5, <1>7, <2>1 DEF u
<1>10. IsSplit(u, q, whole)
  <2>1. IsSeq(q)  BY <1>5, SeqOfItself
  <2>2. Len(whole) = Len(u) + Len(q)  BY <1>1, <1>5, <1>7 DEF u
  <2> QED  BY <1>8, <1>9, <2>1, <2>2 DEF IsSplit
<1> QED  BY <1>7, <1>8, <1>10 DEF HasMoved, u, p, q

\* What reaches the disk of the first c values of a sequence is its first values.
LEMMA FitsFacts ==
  ASSUME IsSeq(file), room \in Nat, NEW t, IsSeq(t), NEW c \in 0 .. Len(t)
  PROVE  \E d \in 0 .. c : /\ Fits(SubSeq(t, 1, c)) = SubSeq(t, 1, d)
                           /\ Fits(SubSeq(t, 1, c)) = SubSeq(t, 1, c) => d = c
<1> DEFINE p == SubSeq(t, 1, c)
           free == IF room > Len(file) THEN room - Len(file) ELSE 0
<1>1. t \in Seq(ToSet(t)) /\ Len(t) \in Nat /\ c \in Nat /\ c <= Len(t)  BY DEF IsSeq
<1>2. free \in Nat  BY DEF IsSeq
<1> HIDE DEF free
<1>3. Len(p) = c  BY <1>1
<1>4. CASE c <= free
  <2>1. Fits(p) = p  BY <1>3, <1>4 DEF Fits, free
  <2> QED  BY <1>1, <2>1
<1>5. CASE ~(c <= free)
  <2>1. Fits(p) = SubSeq(p, 1, free)  BY <1>3, <1>5 DEF Fits, free
  <2>2. free \in 0 .. c /\ free # c  BY <1>1, <1>2, <1>5
  <2>3. SubSeq(p, 1, free) = SubSeq(t, 1, free)  BY <1>1, <2>2
  <2>4. Len(SubSeq(t, 1, free)) = free  BY <1>1, <2>2
  <2> QED  BY <1>3, <2>1, <2>2, <2>3, <2>4
<1> QED  BY <1>4, <1>5

StoreInv == ImportInv /\ FileInv

LEMMA OriginsGrow ==
  ASSUME graph = NoGraph \/ UNCHANGED graph, NEW g \in Origins
  PROVE  g \in Origins' /\ IsFinished(g)
<1>1. g \in Saved \cup {graph} /\ IsFinished(g)  BY DEF Origins
<1>2. g # NoGraph  BY <1>1 DEF IsFinished, NoGraph
<1>3. g \in Saved \cup {graph'}  BY <1>1, <1>2
<1> QED  BY <1>1, <1>3 DEF Origins

LEMMA StoreStarts ==
  ASSUME NEW setups, StoreInit(setups)
  PROVE  StoreInv
<1>1. ImportInv  BY ImportStarts DEF StoreInit
<1>2. stage = "read" /\ ~reading /\ loaded = Nothing /\ torn = FALSE /\ room \in Nat
  BY BufferAssumption DEF StoreInit, ImportInit
<1>3. ~loaded.ok  BY <1>2 DEF Nothing
<1>4. IsSeq(file) /\ (file = <<>> \/ \E g \in Origins : IsPrefixOf(file, Values(g)))
  <2>1. CASE file = <<>>
    <3>1. IsSeq(<<>>)
      <4>1. <<>> \in Seq({})  OBVIOUS
      <4> QED  BY <4>1, SeqOfItself
    <3> QED  BY <2>1, <3>1
  <2>2. CASE file # <<>>
    <3>1. PICK g \in Saved : file = Values(g)  BY <2>2 DEF StoreInit
    <3>2. IsFinished(g) /\ g \in Origins  BY SavedAssumption DEF Origins
    <3>3. IsSeq(Values(g))  BY <3>2, FileIsSeq
    <3>4. IsPrefixOf(Values(g), Values(g))  BY <3>3, NothingWritten DEF EmptySplit
    <3> QED  BY <3>1, <3>2, <3>3, <3>4
  <2> QED  BY <2>1, <2>2
<1>5. FileInv  BY <1>2, <1>3, <1>4 DEF FileInv
<1> QED  BY <1>1, <1>5 DEF StoreInv

\* What a piece of the file adds is the next of the graph's values.
LEMMA WriteStep ==
  ASSUME StoreInv, stage = "saving", NEW c \in 0 .. Len(todo),
         file' = file \o Fits(SubSeq(todo, 1, c)),
         UNCHANGED <<graph, room, reading, got, torn, loaded>>,
         stage' = "saving" => /\ Fits(SubSeq(todo, 1, c)) = SubSeq(todo, 1, c)
                              /\ todo' = SubSeq(todo, c + 1, Len(todo))
  PROVE  FileInv'
<1> DEFINE V == Values(graph)
<1>1. /\ IsFinished(graph) /\ IsSeq(file) /\ room \in Nat /\ torn \in BOOLEAN
      /\ IsSplit(file, todo, V)
      /\ (reading /\ ~torn => IsPrefixOf(got, file))
      /\ (loaded.ok /\ ~torn => loaded \in Origins)
  BY DEF StoreInv, ImportInv, FileInv
<1>2. IsSeq(V) /\ Len(V) \in Nat  BY <1>1, FileIsSeq
<1>3. graph \in Origins' /\ Origins' = Origins  BY <1>1 DEF Origins
<1>4. IsSeq(todo)  BY <1>1 DEF IsSplit
<1>5. PICK d \in 0 .. c : /\ Fits(SubSeq(todo, 1, c)) = SubSeq(todo, 1, d)
                          /\ Fits(SubSeq(todo, 1, c)) = SubSeq(todo, 1, c) => d = c
  BY <1>1, <1>4, FitsFacts
<1>6. d \in 0 .. Len(todo)  BY <1>4 DEF IsSeq
<1>7. file' = file \o SubSeq(todo, 1, d)  BY <1>5
<1> HIDE DEF V
<1>8. HasMoved(file', file, SubSeq(todo, d + 1, Len(todo)), V)
  BY <1>1, <1>2, <1>6, <1>7, SplitStep
<1>9. stage' = "saving" => IsSplit(file', todo', V)
  <2>1. stage' = "saving" => SubSeq(todo, d + 1, Len(todo)) = todo'  BY <1>5
  <2> QED  BY <1>8, <2>1 DEF HasMoved
<1>10. IsSeq(file') /\ IsPrefixOf(file', V) /\ Len(file') \in Nat  BY <1>8 DEF HasMoved, IsSeq
<1>11. reading' /\ ~torn' => IsPrefixOf(got', file')
  <2>1. reading /\ ~torn => IsPrefixOf(got, file')
    BY <1>1, <1>8, <1>10, PrefixOfPrefix DEF HasMoved
  <2> QED  BY <2>1
<1>12. V' = V  BY DEF V, Values, Stored, OutEdges, Block
<1>13. \E g \in Origins' : IsPrefixOf(file', Values(g))  BY <1>3, <1>10 DEF V
<1>14. stage' = "saving" => IsSplit(file', todo', Values(graph'))
  <2>1. Values(graph') = V  BY DEF V
  <2> QED  BY <1>9, <2>1
<1>15. loaded'.ok /\ ~torn' => loaded' \in Origins'  BY <1>1, <1>3
<1> QED  BY <1>1, <1>10, <1>11, <1>13, <1>14, <1>15 DEF FileInv

LEMMA SameImport ==
  ASSUME ImportInv, UNCHANGED <<options, places, roads, size, graph>>,
         stage \in {"built", "saving", "ended"}, stage' \in {"built", "saving", "ended"}
  PROVE  ImportInv'
BY DEF ImportInv, OSM

LEMMA StoreStep ==
  ASSUME NEW origin, StoreInv, [StoreNext(origin)]_gvars
  PROVE  StoreInv'
<1>1. /\ ImportInv /\ IsSeq(file) /\ room \in Nat /\ torn \in BOOLEAN
      /\ file = <<>> \/ \E g \in Origins : IsPrefixOf(file, Values(g))
      /\ stage = "saving" => IsSplit(file, todo, Values(graph))
      /\ reading /\ ~torn => IsPrefixOf(got, file)
      /\ loaded.ok /\ ~torn => loaded \in Origins
  BY DEF StoreInv, FileInv
<1>2. ASSUME UNCHANGED graph PROVE Origins' = Origins  BY <1>2 DEF Origins
<1>3. ASSUME UNCHANGED ivars PROVE ImportInv'
  BY <1>1, <1>3 DEF ivars, ImportInv, OSM
<1>4. CASE Import(origin) /\ UNCHANGED fvars
  <2>1. ImportInv' /\ stage' # "saving" /\ graph = NoGraph  BY <1>1, <1>4, ImportStep
  <2>2. \A g \in Origins : g \in Origins'  BY <2>1, OriginsGrow
  <2>3. FileInv'  BY <1>1, <1>4, <2>1, <2>2 DEF FileInv, fvars
  <2> QED  BY <2>1, <2>3 DEF StoreInv
<1>5. CASE Create
  <2>1. /\ stage = "built" /\ stage' = "saving" /\ file' = <<>> /\ todo' = Values(graph)
        /\ torn' = (torn \/ reading) /\ graph' = graph /\ room' = room
        /\ options' = options /\ reading' = reading /\ loaded' = loaded
        /\ places' = <<>> /\ roads' = <<>> /\ size' = 0
    BY <1>5 DEF Create
  <2>2. IsFinished(graph)  BY <1>1, <2>1 DEF ImportInv
  <2>3. EmptySplit(Values(graph))  BY <2>2, FileIsSeq, NothingWritten
  <2>4. IsSplit(file', todo', Values(graph'))
    <3>1. IsSplit(<<>>, Values(graph), Values(graph))  BY <2>3 DEF EmptySplit
    <3> QED  BY <2>1, <3>1
  <2>5. IsSeq(<<>>) /\ \A w \in ToSet(<<>>) : FALSE
    <3>1. <<>> \in Seq({})  OBVIOUS
    <3>2. IsSeq(<<>>)  BY <3>1, SeqOfItself
    <3>3. ToSet(<<>>) = {}  BY DEF ToSet
    <3> QED  BY <3>2, <3>3
  <2>6. IsFiniteSet(DOMAIN <<>>)
    <3>1. DOMAIN <<>> = {}  OBVIOUS
    <3> QED  BY <3>1, FS_EmptySet
  <2>7. ImportInv'  BY <2>1, <2>2, <2>5, <2>6 DEF ImportInv
  <2>8. loaded'.ok /\ ~torn' => loaded' \in Origins'  BY <1>1, <1>2, <2>1
  <2>9. FileInv'  BY <1>1, <2>1, <2>4, <2>5, <2>8 DEF FileInv
  <2> QED  BY <2>7, <2>9 DEF StoreInv
<1>6. CASE Spill
  <2>1. /\ stage = "saving" /\ Len(todo) > BufferSize /\ stage' \in {"saving", "ended"}
        /\ file' = file \o Fits(SubSeq(todo, 1, BufferSize))
        /\ UNCHANGED <<options, count, places, roads, size, graph, room, reading, got, torn, loaded>>
    BY <1>6 DEF Spill
  <2>2. stage' = "saving" => /\ Fits(SubSeq(todo, 1, BufferSize)) = SubSeq(todo, 1, BufferSize)
                             /\ todo' = SubSeq(todo, BufferSize + 1, Len(todo))
    BY <1>6 DEF Spill
  <2>3. BufferSize \in 0 .. Len(todo)
    <3>1. Len(todo) \in Nat  BY <1>1, <2>1 DEF IsSplit, IsSeq
    <3> QED  BY <2>1, <3>1, BufferAssumption
  <2>4. FileInv'  BY <2>1, <2>2, <2>3, WriteStep
  <2>5. ImportInv'  BY <1>1, <2>1, SameImport
  <2> QED  BY <2>4, <2>5 DEF StoreInv
<1>7. CASE Finish
  <2>1. /\ stage = "saving" /\ stage' = "ended" /\ file' = file \o Fits(todo)
        /\ UNCHANGED <<options, count, places, roads, size, graph, room, reading, got, torn, loaded>>
    BY <1>7 DEF Finish
  <2>2. Len(todo) \in 0 .. Len(todo) /\ SubSeq(todo, 1, Len(todo)) = todo
    <3>1. todo \in Seq(ToSet(todo))  BY <1>1, <2>1 DEF IsSplit, IsSeq
    <3> QED  BY <3>1
  <2>3. file' = file \o Fits(SubSeq(todo, 1, Len(todo)))  BY <2>1, <2>2
  <2>4. FileInv'  BY <2>1, <2>2, <2>3, WriteStep
  <2>5. ImportInv'  BY <1>1, <2>1, SameImport
  <2> QED  BY <2>4, <2>5 DEF StoreInv
<1>8. CASE Kill
  <2>1. /\ stage = "saving" /\ stage' = "ended"
        /\ UNCHANGED <<options, count, places, roads, size, graph, file, room, verdict,
                       reading, got, torn, loaded>>
    BY <1>8 DEF Kill
  <2>2. ImportInv'  BY <1>1, <2>1, SameImport
  <2>3. FileInv'  BY <1>1, <1>2, <2>1 DEF FileInv
  <2> QED  BY <2>2, <2>3 DEF StoreInv
<1>9. CASE Open
  <2>1. /\ got' = <<>> /\ torn' = FALSE /\ loaded' = loaded /\ loaded = Nothing
        /\ UNCHANGED <<ivars, file, room, todo, verdict>>
    BY <1>9 DEF Open
  <2>2. ~loaded.ok  BY <2>1 DEF Nothing
  <2>3. IsPrefixOf(<<>>, file)  BY <1>1, NothingWritten DEF EmptySplit
  <2>4. UNCHANGED <<graph, stage>>  BY <2>1 DEF ivars
  <2>5. FileInv'  BY <1>1, <1>2, <2>1, <2>2, <2>3, <2>4 DEF FileInv
  <2> QED  BY <1>3, <2>1, <2>5 DEF StoreInv
<1>10. CASE Fetch
  <2>1. /\ reading /\ Len(got) < Len(file)
        /\ got' = got \o Slice(file, Len(got) + 1, BufferSize)
        /\ UNCHANGED <<ivars, file, room, todo, verdict, reading, torn, loaded>>
    BY <1>10 DEF Fetch
  <2>2. ASSUME ~torn PROVE IsPrefixOf(got', file)
    <3>1. IsPrefixOf(got, file) /\ Len(got) \in Nat /\ Len(file) \in Nat
      BY <1>1, <2>1, <2>2 DEF IsPrefixOf, IsSeq
    <3> DEFINE a == Len(got)
               b == Len(file)
               c == IF a + 1 + BufferSize - 1 <= b THEN BufferSize ELSE b - a
    <3>2. c \in Nat /\ a + c <= b /\ a + c = IF a + 1 + BufferSize - 1 <= b
                                             THEN a + 1 + BufferSize - 1 ELSE b
      BY <2>1, <3>1, BufferAssumption
    <3>3. Slice(file, a + 1, BufferSize) = SubSeq(file, a + 1, a + c)
      <4> HIDE DEF a, b, c
      <4>1. Slice(file, a + 1, BufferSize)
            = SubSeq(file, a + 1, IF a + 1 + BufferSize - 1 <= b
                                  THEN a + 1 + BufferSize - 1 ELSE b)
        BY DEF Slice, b
      <4> QED  BY <3>2, <4>1, Zenon
    <3> HIDE DEF c
    <3>4. IsPrefixOf(got \o Slice(file, a + 1, BufferSize), file)
      BY <1>1, <3>1, <3>2, <3>3, LongerPrefix
    <3> QED  BY <2>1, <3>4
  <2>3. UNCHANGED <<graph, stage>>  BY <2>1 DEF ivars
  <2>4. FileInv'  BY <1>1, <1>2, <2>1, <2>2, <2>3 DEF FileInv
  <2> QED  BY <1>3, <2>1, <2>4 DEF StoreInv
<1>11. CASE Return
  <2>1. /\ reading /\ Len(got) >= Len(file) /\ reading' = FALSE
        /\ loaded' = IF torn THEN Mixed ELSE Parse(got)
        /\ UNCHANGED <<ivars, file, room, todo, verdict, torn>>
    BY <1>11 DEF Return
  <2>2. ASSUME ~torn, loaded'.ok PROVE loaded' \in Origins
    <3>1. loaded' = Parse(got) /\ IsPrefixOf(got, file)  BY <1>1, <2>1, <2>2
    <3>2. loaded' # NoGraph  BY <2>2 DEF NoGraph
    <3>3. CASE file = <<>>
      <4>1. Len(got) = 0
        <5>1. Len(got) \in Nat /\ Len(got) <= 0  BY <3>1, <3>3 DEF IsPrefixOf
        <5> QED  BY <5>1
      <4>2. Parse(got) = NoGraph  BY <4>1 DEF Parse
      <4> QED  BY <3>1, <3>2, <4>2
    <3>4. CASE file # <<>>
      <4>1. PICK g \in Origins : IsPrefixOf(file, Values(g))  BY <1>1, <3>4
      <4>2. IsFinished(g)  BY DEF Origins
      <4>3. IsPrefixOf(got, Values(g))  BY <3>1, <4>1, <4>2, FileIsSeq, PrefixOfPrefix
      <4>4. Parse(got) \in {NoGraph, g}  BY <4>2, <4>3, PrefixLoads
      <4> QED  BY <3>1, <3>2, <4>4
    <3> QED  BY <3>3, <3>4
  <2>3. UNCHANGED <<graph, stage>>  BY <2>1 DEF ivars
  <2>4. FileInv'  BY <1>1, <1>2, <2>1, <2>2, <2>3 DEF FileInv
  <2> QED  BY <1>3, <2>1, <2>4 DEF StoreInv
<1>12. CASE UNCHANGED gvars
  <2>1. UNCHANGED <<ivars, fvars, graph, stage>>  BY <1>12 DEF gvars, ivars
  <2>2. FileInv'  BY <1>1, <1>2, <2>1 DEF FileInv, fvars
  <2> QED  BY <1>3, <2>1, <2>2 DEF StoreInv
<1> QED
  BY <1>4, <1>5, <1>6, <1>7, <1>8, <1>9, <1>10, <1>11, <1>12 DEF StoreNext

\* A Load that nobody overtook returns an error or a graph that was saved, whatever
\* the file to import says, at whatever value the disk is full or the process
\* killed, and however the reads of Load fall between the writes of Save
\* (binary.go:13-147).
THEOREM LoadedAlwaysSaved ==
  ASSUME NEW setups, NEW origin
  PROVE  StoreSpec(setups, origin) => []LoadedWasSaved
<1>1. StoreInit(setups) => StoreInv  BY StoreStarts
<1>2. StoreInv /\ [StoreNext(origin)]_gvars => StoreInv'  BY StoreStep
<1>3. StoreInv => LoadedWasSaved  BY DEF StoreInv, FileInv, Origins, LoadedWasSaved
<1> QED  BY <1>1, <1>2, <1>3, PTL DEF StoreSpec

-----------------------------------------------------------------------------
(* The lower bounds of a graph                                             *)

LEMMA Products ==
  ASSUME NEW p \in Nat \ {0}, NEW a \in Nat, NEW b \in Nat
  PROVE  /\ p * a < p * b <=> a < b
         /\ a <= b => p * a <= p * b
<1>1. p * a + 0 < p * b <=> a < b
  <2>1. 0 \in 0 .. p - 1  OBVIOUS
  <2> QED  BY <2>1, DivisionOrder
<1>2. p * b + 0 < p * a <=> b < a
  <2>1. 0 \in 0 .. p - 1  OBVIOUS
  <2> QED  BY <2>1, DivisionOrder
<1>3. p * a \in Nat /\ p * b \in Nat  OBVIOUS
<1> QED  BY <1>1, <1>2, <1>3

LEMMA FractionsTransitive ==
  ASSUME NEW a \in Nat, NEW c \in Nat, NEW e \in Nat,
         NEW b \in Nat \ {0}, NEW d \in Nat \ {0}, NEW f \in Nat \ {0},
         a * d < c * b, c * f < e * d
  PROVE  a * f < e * b
<1>1. a * d \in Nat /\ c * b \in Nat /\ c * f \in Nat /\ e * d \in Nat
      /\ a * f \in Nat /\ e * b \in Nat
  OBVIOUS
<1>2. f * (a * d) < f * (c * b)  BY <1>1, Products
<1>3. b * (c * f) < b * (e * d)  BY <1>1, Products
<1>4. f * (a * d) = d * (a * f) /\ f * (c * b) = b * (c * f) /\ b * (e * d) = d * (e * b)
  OBVIOUS
<1>5. d * (a * f) < d * (e * b)
  <2>1. d * (a * f) \in Nat /\ b * (c * f) \in Nat /\ d * (e * b) \in Nat  BY <1>1
  <2> QED  BY <1>2, <1>3, <1>4, <2>1
<1> QED  BY <1>1, <1>5, Products

\* Finitely many fractions have a least one.
LEMMA LeastFraction ==
  ASSUME NEW R, IsFiniteSet(R), R # {}, \A x \in R : x[1] \in Nat /\ x[2] \in Nat \ {0}
  PROVE  \E r \in R : \A x \in R : r[1] * x[2] <= x[1] * r[2]
<1> DEFINE below(r) == {x \in R : x[1] * r[2] < r[1] * x[2]}
           counts == {Cardinality(below(r)) : r \in R}
<1>1. \A r \in R : IsFiniteSet(below(r)) /\ Cardinality(below(r)) \in Nat
  BY FS_Subset, FS_CardinalityType
<1>2. PICK r \in R : \A x \in R : Cardinality(below(r)) <= Cardinality(below(x))
  <2>1. counts \subseteq Nat /\ counts # {}  BY <1>1
  <2>2. PICK c \in counts : \A d \in counts : c <= d
    <3> HIDE DEF counts
    <3> QED  BY <2>1, LeastNumber
  <2>3. PICK r \in R : c = Cardinality(below(r))  BY <2>2
  <2>4. \A x \in R : Cardinality(below(x)) \in counts  OBVIOUS
  <2> HIDE DEF below, counts
  <2> QED  BY <2>2, <2>3, <2>4
<1>3. SUFFICES ASSUME NEW x \in R, ~(r[1] * x[2] <= x[1] * r[2]) PROVE FALSE  OBVIOUS
<1>4. r[1] * x[2] \in Nat /\ x[1] * r[2] \in Nat  OBVIOUS
<1>5. x \in below(r)  BY <1>3, <1>4
<1>6. below(x) \subseteq below(r)
  <2> SUFFICES ASSUME NEW y \in R, y[1] * x[2] < x[1] * y[2] PROVE y[1] * r[2] < r[1] * y[2]
    OBVIOUS
  <2>1. x[1] * r[2] < r[1] * x[2]  BY <1>5
  <2> QED  BY <2>1, FractionsTransitive
<1>7. x \notin below(x)
  <2>1. x[1] * x[2] \in Nat  OBVIOUS
  <2> QED  BY <2>1
<1>8. Cardinality(below(x)) <= Cardinality(below(r))
      /\ Cardinality(below(x)) # Cardinality(below(r))
  <2> HIDE DEF below
  <2> QED  BY <1>1, <1>5, <1>6, <1>7, FS_Subset
<1> QED
  <2>1. Cardinality(below(r)) <= Cardinality(below(x))  BY <1>2
  <2> HIDE DEF below
  <2> QED  BY <1>1, <1>8, <2>1

LEMMA FiniteRange ==
  ASSUME NEW S, IsFiniteSet(S), NEW f
  PROVE  IsFiniteSet({f[x] : x \in S})
<1> DEFINE T == {f[x] : x \in S}
           h == [x \in S |-> f[x]]
<1>1. h \in Surjection(S, T)  BY DEF Surjection
<1> HIDE DEF h, T
<1>2. IsFiniteSet(T)  BY <1>1, FS_Surjection
<1> QED  BY <1>2 DEF T

\* Rounding down keeps a sum's bound.
LEMMA RoundedSum ==
  ASSUME NEW a \in Nat, NEW b \in Nat, NEW c \in Nat, NEW m \in Nat \ {0}, a <= m * c + b
  PROVE  a \div m <= c + b \div m
<1> DEFINE p == a \div m
           q == b \div m
<1>1. /\ p \in Nat /\ m * p <= a
      /\ q \in Nat /\ b < m * q + m
  BY DivisionBounds
<1> HIDE DEF p, q
<1>2. m * p \in Nat /\ m * q \in Nat /\ m * c \in Nat  BY <1>1
<1>3. m * p < m * c + m * q + m  BY <1>1, <1>2
<1>4. m * (c + q + 1) = m * c + m * q + m  BY <1>1
<1>5. c + q + 1 \in Nat /\ m * p < m * (c + q + 1)  BY <1>1, <1>3, <1>4
<1>6. p < c + q + 1  BY <1>1, <1>5, Products
<1>7. p <= c + q  BY <1>1, <1>6
<1> QED  BY <1>7 DEF p, q

\* What the searches need of the arcs and the rate of a graph.
HasRate(g, n) ==
  /\ g.minCostPerMeter[1] \in Nat /\ g.minCostPerMeter[2] \in Nat \ {0}
  /\ \A u \in 1 .. n : \A e \in ToSet(OutEdges(g, u)) :
       /\ e \in Edge(n)
       /\ Meters(g.nodes[u].place, g.nodes[e.to].place) * g.minCostPerMeter[1]
          <= e.cost * g.minCostPerMeter[2]

LEMMA RateFacts ==
  ASSUME NEW g, IsFinished(g), NEW n, n = Len(g.nodes),
         \A v \in DOMAIN g.nodes : g.nodes[v].place \in Place
  PROVE  HasRate(g, n)
<1> DEFINE o == Starts(g)
           out == [v \in 1 .. n |-> OutEdges(g, v)]
           nodes == g.nodes
           length(v, e) == Meters(nodes[v].place, nodes[e.to].place)
           R == Ratios(nodes, out)
           r == g.minCostPerMeter
<1>1. /\ n \in Nat /\ n # 0 /\ DOMAIN nodes = 1 .. n /\ g.ok
      /\ \A v \in 1 .. n : OutEdges(g, v) \in Seq(Edge(n)) /\ Len(OutEdges(g, v)) \in Nat
      /\ g = Finalize(nodes, out)
  <2>1. IsSpelt(g, n, o)  BY FinishedFacts
  <2> QED  BY <2>1 DEF IsSpelt
<1> HIDE DEF o
<1>2. \A v \in 1 .. n : out[v] = OutEdges(g, v) /\ out[v] \in Seq(Edge(n))  BY <1>1
<1>3. DOMAIN out = 1 .. n /\ out \in [1 .. n -> Seq(Edge(n))]  BY <1>1
<1> HIDE DEF out
\* The arcs of the graph are the ones that were measured.
<1>4. r = MinCostPerMeter(nodes, out)
  <2> DEFINE new == [v \in 1 .. n |-> Dedup(out[v])]
  <2>1. g = Compacted(nodes, new)
    <3>1. g = Finalize(nodes, out) /\ g.ok  BY <1>1
    <3>2. Acceptable(nodes, out)  BY <3>1 DEF Finalize, NoGraph
    <3> QED  BY <1>1, <3>1, <3>2 DEF Finalize
  <2>2. new \in [1 .. n -> Seq(Edge(n))]
    <3>1. \A e \in Edge(n) : e.to \in Int /\ e.cost \in Int  BY DEF Edge
    <3>2. ASSUME NEW v \in 1 .. n PROVE Dedup(out[v]) \in Seq(Edge(n))
      <4>1. Len(out[v]) \in Nat /\ out[v] \in [1 .. Len(out[v]) -> Edge(n)]  BY <1>2
      <4> QED  BY <3>1, <4>1, DedupFacts
    <3> QED  BY <3>2
  <2> HIDE DEF new
  <2>3. KeepsBlocks(g, new, n)  BY <1>1, <2>1, <2>2, CompactedBlocks
  <2>4. new = out
    <3>1. \A v \in 1 .. n : new[v] = out[v]  BY <1>2, <2>3 DEF KeepsBlocks
    <3>2. new = [v \in 1 .. n |-> new[v]] /\ out = [v \in 1 .. n |-> out[v]]  BY <1>3, <2>2
    <3>3. [v \in 1 .. n |-> new[v]] = [v \in 1 .. n |-> out[v]]  BY <3>1
    <3> QED  BY <3>2, <3>3, Zenon
  <2>5. g.minCostPerMeter = MinCostPerMeter(nodes, new)  BY <2>1 DEF Compacted
  <2> QED  BY <2>4, <2>5
<1>5. ASSUME NEW u \in 1 .. n, NEW e \in ToSet(out[u])
      PROVE  e \in Edge(n) /\ e.cost \in Nat \ {0} /\ length(u, e) \in Nat
  <2>1. e \in Edge(n)  BY <1>2 DEF ToSet
  <2>2. nodes[u].place \in Place /\ nodes[e.to].place \in Place  BY <1>1, <2>1 DEF Edge
  <2> QED  BY <2>1, <2>2, MetricAssumption DEF Edge
<1> DEFINE ratio(v, e) == <<e.cost, length(v, e)>>
           R1(v) == {ratio(v, e) : e \in {e \in ToSet(out[v]) : length(v, e) > 0}}
<1>6. R = UNION {R1(v) : v \in 1 .. n}  BY <1>3 DEF Ratios
<1>7. IsFiniteSet(R)
  <2>1. ASSUME NEW v \in 1 .. n PROVE IsFiniteSet(R1(v))
    <3> DEFINE m == Len(out[v])
               f == [k \in 1 .. m |-> ratio(v, out[v][k])]
    <3>1. m \in Nat /\ \A e \in ToSet(out[v]) : \E k \in 1 .. m : e = out[v][k]
      BY <1>2 DEF ToSet
    <3>2. IsFiniteSet(1 .. m)
      <4> HIDE DEF m
      <4> QED  BY <3>1, FS_Interval
    <3> HIDE DEF m, ratio
    <3>3. IsFiniteSet({f[k] : k \in 1 .. m})
      <4> HIDE DEF f
      <4> QED  BY <3>2, FiniteRange
    <3>4. R1(v) \subseteq {f[k] : k \in 1 .. m}  BY <3>1
    <3> HIDE DEF R1, f
    <3> QED  BY <3>3, <3>4, FS_Subset
  <2> DEFINE F == [v \in 1 .. n |-> R1(v)]
             RS == {F[v] : v \in 1 .. n}
  <2>2. IsFiniteSet(1 .. n)  BY <1>1, FS_Interval
  <2>3. \A v \in 1 .. n : F[v] = R1(v)  OBVIOUS
  <2> HIDE DEF R1, F
  <2>4. IsFiniteSet(RS)  BY <2>2, FiniteRange
  <2>5. \A T \in RS : IsFiniteSet(T)  BY <2>1, <2>3
  <2>6. R = UNION RS  BY <1>6, <2>3
  <2> HIDE DEF RS
  <2> QED  BY <2>4, <2>5, <2>6, FS_UNION
<1>8. \A x \in R : x[1] \in Nat \ {0} /\ x[2] \in Nat \ {0}
  <2> SUFFICES ASSUME NEW v \in 1 .. n, NEW e \in ToSet(out[v]), length(v, e) > 0
               PROVE  ratio(v, e)[1] \in Nat \ {0} /\ ratio(v, e)[2] \in Nat \ {0}
    BY <1>6
  <2> QED  BY <1>5
<1>9. ASSUME NEW u \in 1 .. n, NEW e \in ToSet(out[u]), length(u, e) > 0
      PROVE  <<e.cost, length(u, e)>> \in R
  BY <1>6, <1>9
<1> HIDE DEF R
<1>10. CASE R = {}
  <2>1. r = <<0, 1>>  BY <1>4, <1>10 DEF MinCostPerMeter, R
  <2>2. r[1] = 0 /\ r[2] = 1  BY <2>1
  <2>3. ASSUME NEW u \in 1 .. n, NEW e \in ToSet(out[u])
        PROVE  length(u, e) * r[1] <= e.cost * r[2]
    <3>1. length(u, e) * 0 = 0 /\ e.cost * 1 = e.cost /\ e.cost \in Nat  BY <1>5
    <3> QED  BY <2>2, <3>1
  <2> QED  BY <1>2, <1>5, <2>2, <2>3 DEF HasRate
<1>11. CASE R # {}
  <2>1. \E x \in R : \A y \in R : x[1] * y[2] <= y[1] * x[2]
    <3>1. \A x \in R : x[1] \in Nat /\ x[2] \in Nat \ {0}  BY <1>8
    <3> QED  BY <1>7, <1>11, <3>1, LeastFraction
  <2>2. r \in R /\ \A y \in R : r[1] * y[2] <= y[1] * r[2]
    <3>1. r = CHOOSE x \in R : \A y \in R : x[1] * y[2] <= y[1] * x[2]
      BY <1>4, <1>11 DEF MinCostPerMeter, R
    <3> HIDE DEF r
    <3> QED  BY <2>1, <3>1
  <2>3. r[1] \in Nat /\ r[2] \in Nat \ {0}  BY <1>8, <2>2
  <2>4. ASSUME NEW u \in 1 .. n, NEW e \in ToSet(out[u])
        PROVE  length(u, e) * r[1] <= e.cost * r[2]
    <3> DEFINE l == length(u, e)
    <3>1. l \in Nat /\ e.cost \in Nat  BY <1>5
    <3>2. CASE l > 0
      <4>1. r[1] * l <= e.cost * r[2]
        <5>1. <<e.cost, l>> \in R  BY <1>9, <3>2
        <5> HIDE DEF l, r
        <5> QED  BY <2>2, <5>1
      <4> HIDE DEF l, r
      <4>2. r[1] * l = l * r[1]  BY <2>3, <3>1
      <4> QED  BY <4>1, <4>2 DEF l
    <3>3. CASE ~(l > 0)
      <4>1. l = 0  BY <3>1, <3>3
      <4> HIDE DEF l, r
      <4>2. l * r[1] = 0 /\ e.cost * r[2] \in Nat  BY <2>3, <3>1, <4>1
      <4> QED  BY <4>2 DEF l
    <3> QED  BY <3>2, <3>3
  <2> QED  BY <1>2, <1>5, <2>3, <2>4 DEF HasRate
<1> QED  BY <1>10, <1>11

\* The lower bounds obey the triangle inequality over every arc.
HasBounds(g, n) ==
  /\ \A u, v \in 1 .. n : lowerBoundCost(g, u, v) \in Nat
  /\ \A v \in 1 .. n : lowerBoundCost(g, v, v) = 0
  /\ \A u, x \in 1 .. n : \A e \in ToSet(OutEdges(g, u)) :
       /\ lowerBoundCost(g, u, x) <= e.cost + lowerBoundCost(g, e.to, x)
       /\ lowerBoundCost(g, x, e.to) <= e.cost + lowerBoundCost(g, x, u)

LEMMA BoundFacts ==
  ASSUME NEW g, NEW n \in Nat, HasRate(g, n), \A v \in 1 .. n : g.nodes[v].place \in Place
  PROVE  HasBounds(g, n)
<1> DEFINE far(u, v) == Meters(g.nodes[u].place, g.nodes[v].place)
           c == g.minCostPerMeter[1]
           m == g.minCostPerMeter[2]
           L(u, v) == (far(u, v) * c) \div m
<1>1. c \in Nat /\ m \in Nat \ {0}  BY DEF HasRate
<1>2. \A u, v, x \in 1 .. n :
        /\ far(u, v) \in Nat /\ far(u, v) = far(v, u) /\ far(u, u) = 0
        /\ far(u, x) <= far(u, v) + far(v, x)
  BY MetricAssumption
<1>3. \A u \in 1 .. n : \A e \in ToSet(OutEdges(g, u)) :
        e.to \in 1 .. n /\ e.cost \in Nat /\ far(u, e.to) * c <= e.cost * m
  BY DEF HasRate, Edge
<1>4. \A u, v : lowerBoundCost(g, u, v) = L(u, v)  BY DEF lowerBoundCost
<1> HIDE DEF c, m
<1>5. ASSUME NEW u \in 1 .. n, NEW v \in 1 .. n PROVE far(u, v) * c \in Nat /\ L(u, v) \in Nat
  <2>1. far(u, v) \in Nat  BY <1>2
  <2> HIDE DEF far
  <2>2. far(u, v) * c \in Nat  BY <1>1, <2>1
  <2> QED  BY <1>1, <2>2, DivisionBounds
<1>6. ASSUME NEW v \in 1 .. n PROVE L(v, v) = 0
  <2>1. far(v, v) = 0  BY <1>2
  <2> HIDE DEF far
  <2>2. far(v, v) * c = 0  BY <1>1, <2>1
  <2>3. 0 \div m = 0
    <3>1. 0 \in Nat /\ m * 0 <= 0 /\ 0 < m * 0 + m  BY <1>1
    <3> QED  BY <1>1, <3>1, DivisionUnique
  <2> QED  BY <2>2, <2>3
\* From a to b over the arc or from b over the arc to a: only the lengths matter.
<1>7. ASSUME NEW a \in Nat, NEW b \in Nat, NEW l \in Nat, NEW k \in Nat,
             a <= l + b, l * c <= k * m
      PROVE  (a * c) \div m <= k + (b * c) \div m
  <2>1. a * c \in Nat /\ b * c \in Nat /\ l * c \in Nat /\ k * m \in Nat  BY <1>1
  <2>2. a * c <= (l + b) * c
    <3>1. CASE c = 0  BY <3>1
    <3>2. CASE c # 0
      <4>1. l + b \in Nat /\ c \in Nat \ {0}  BY <1>1, <3>2
      <4>2. c * a <= c * (l + b)  BY <1>7, <4>1, Products
      <4>3. c * a = a * c /\ c * (l + b) = (l + b) * c  BY <1>1
      <4> QED  BY <4>2, <4>3
    <3> QED  BY <3>1, <3>2
  <2>3. (l + b) * c = l * c + b * c  BY <1>1
  <2>4. k * m = m * k  BY <1>1
  <2>5. a * c <= m * k + b * c
    <3> DEFINE ac == a * c
               bc == b * c
               lc == l * c
               mk == m * k
    <3>1. ac <= lc + bc /\ lc <= mk  BY <1>7, <2>2, <2>3, <2>4
    <3>2. ac \in Nat /\ bc \in Nat /\ lc \in Nat /\ mk \in Nat  BY <2>1, <2>4
    <3> HIDE DEF ac, bc, lc, mk
    <3>3. ac <= mk + bc  BY <3>1, <3>2
    <3> QED  BY <3>3 DEF ac, bc, mk
  <2> QED  BY <1>1, <2>1, <2>5, RoundedSum
<1>8. ASSUME NEW u \in 1 .. n, NEW x \in 1 .. n, NEW e \in ToSet(OutEdges(g, u))
      PROVE  L(u, x) <= e.cost + L(e.to, x) /\ L(x, e.to) <= e.cost + L(x, u)
  <2>1. e.to \in 1 .. n /\ e.cost \in Nat /\ far(u, e.to) * c <= e.cost * m  BY <1>3
  <2>2. /\ far(u, x) \in Nat /\ far(e.to, x) \in Nat /\ far(u, e.to) \in Nat
        /\ far(x, e.to) \in Nat /\ far(x, u) \in Nat
        /\ far(u, x) <= far(u, e.to) + far(e.to, x)
        /\ far(x, e.to) <= far(x, u) + far(u, e.to)
    BY <1>2, <2>1
  <2> HIDE DEF far
  <2>3. far(x, e.to) <= far(u, e.to) + far(x, u)  BY <2>2
  <2> QED  BY <1>7, <2>1, <2>2, <2>3
<1> HIDE DEF L
<1> QED  BY <1>4, <1>5, <1>6, <1>8 DEF HasBounds

\* The query that a search makes of a finished graph is one it can answer.
Answerable(n, q) ==
  Search(n)!IsQuery(q) /\ Search(n)!Consistent(q) /\ Search(n)!BoundsConsistent(q)

LEMMA QueryFine ==
  ASSUME NEW g, IsFinished(g), NEW n, n = Len(g.nodes),
         \A v \in DOMAIN g.nodes : g.nodes[v].place \in Place,
         NEW s \in 1 .. n, NEW t \in 1 .. n
  PROVE  Answerable(n, QueryOn(g, s, t))
<1> DEFINE q == QueryOn(g, s, t)
           A == UNION {{v} \X {e.to : e \in ToSet(OutEdges(g, v))} : v \in 1 .. n}
           arc(a) == CHOOSE e \in ToSet(OutEdges(g, a[1])) : e.to = a[2]
           to(v) == lowerBoundCost(g, v, t)
           from(v) == lowerBoundCost(g, s, v)
<1>1. n \in Nat /\ DOMAIN g.nodes = 1 .. n  BY DEF IsFinished
<1>2. HasRate(g, n) /\ HasBounds(g, n)
  <2>1. HasRate(g, n)  BY RateFacts
  <2> QED  BY <1>1, <2>1, BoundFacts
<1>3. q = [src |-> s, dst |-> t, prune |-> FALSE,
           cost |-> [a \in A |-> arc(a).cost],
           phi |-> [v \in 1 .. n |-> to(v) - from(v)],
           toDst |-> [v \in 1 .. n |-> to(v)], fromSrc |-> [v \in 1 .. n |-> from(v)]]
  BY <1>1 DEF QueryOn
<1>4. ASSUME NEW a \in A
      PROVE  /\ a[1] \in 1 .. n /\ a[2] \in 1 .. n /\ a = <<a[1], a[2]>>
             /\ arc(a) \in ToSet(OutEdges(g, a[1])) /\ arc(a).to = a[2]
             /\ arc(a).cost \in Nat \ {0}
  <2>1. PICK v \in 1 .. n : a \in {v} \X {e.to : e \in ToSet(OutEdges(g, v))}  OBVIOUS
  <2>2. PICK e \in ToSet(OutEdges(g, v)) : a = <<v, e.to>>  BY <2>1
  <2>3. a[1] = v /\ a[2] = e.to /\ a = <<a[1], a[2]>>  BY <2>2
  <2>4. arc(a) \in ToSet(OutEdges(g, a[1])) /\ arc(a).to = a[2]
    <3>1. \E d \in ToSet(OutEdges(g, a[1])) : d.to = a[2]  BY <2>3
    <3> QED  BY <3>1
  <2> HIDE DEF arc
  <2>5. arc(a) \in Edge(n)  BY <1>2, <2>3, <2>4 DEF HasRate
  <2> QED  BY <2>3, <2>4, <2>5 DEF Edge
<1> HIDE DEF arc, A
<1>5. \A v \in 1 .. n : to(v) \in Nat /\ from(v) \in Nat  BY <1>2 DEF HasBounds
<1>6. to(t) = 0 /\ from(s) = 0  BY <1>2 DEF HasBounds
<1>7. \A a \in A : /\ to(a[1]) <= arc(a).cost + to(a[2])
                   /\ from(a[2]) <= arc(a).cost + from(a[1])
  BY <1>2, <1>4 DEF HasBounds
<1> HIDE DEF to, from, q
<1>8. q.src = s /\ q.dst = t /\ q.prune = FALSE /\ q.cost = [a \in A |-> arc(a).cost]
      /\ q.phi = [v \in 1 .. n |-> to(v) - from(v)]
      /\ q.toDst = [v \in 1 .. n |-> to(v)] /\ q.fromSrc = [v \in 1 .. n |-> from(v)]
  BY <1>3
<1>9. DOMAIN q.cost = A /\ \A a \in A : q.cost[a] = arc(a).cost  BY <1>8
<1>10. \A v \in 1 .. n : /\ q.phi[v] = to(v) - from(v)
                         /\ q.toDst[v] = to(v) /\ q.fromSrc[v] = from(v)
  BY <1>8
<1>11. Search(n)!IsQuery(q)
  <2>1. A \subseteq (1 .. n) \X (1 .. n)  BY <1>4
  <2>2. q.cost \in [A -> Nat \ {0}]  BY <1>4, <1>8
  <2>3. q.phi \in [1 .. n -> Int]  BY <1>5, <1>8
  <2>4. q.toDst \in [1 .. n -> Nat] /\ q.fromSrc \in [1 .. n -> Nat]  BY <1>5, <1>8
  <2> QED  BY <1>8, <1>9, <2>1, <2>2, <2>3, <2>4 DEF Search!IsQuery
<1>12. Search(n)!BoundsConsistent(q)
  <2>1. q.toDst[q.dst] = 0 /\ q.fromSrc[q.src] = 0  BY <1>6, <1>8, <1>10
  <2>2. \A a \in A : /\ q.toDst[a[1]] <= q.cost[a] + q.toDst[a[2]]
                     /\ q.fromSrc[a[2]] <= q.cost[a] + q.fromSrc[a[1]]
    BY <1>4, <1>7, <1>9, <1>10
  <2> QED  BY <1>9, <2>1, <2>2 DEF Search!BoundsConsistent
<1>13. Search(n)!Consistent(q)
  <2>1. ASSUME NEW a \in A PROVE q.phi[a[1]] <= 2 * q.cost[a] + q.phi[a[2]]
    <3> DEFINE u == a[1]
               v == a[2]
    <3>1. u \in 1 .. n /\ v \in 1 .. n /\ q.cost[a] \in Nat  BY <1>4, <1>9
    <3>2. to(u) <= q.cost[a] + to(v) /\ from(v) <= q.cost[a] + from(u)  BY <1>7, <1>9
    <3>3. q.phi[u] = to(u) - from(u) /\ q.phi[v] = to(v) - from(v)  BY <1>10, <3>1
    <3>4. to(u) \in Nat /\ to(v) \in Nat /\ from(u) \in Nat /\ from(v) \in Nat  BY <1>5, <3>1
    <3> HIDE DEF u, v
    <3>5. to(u) - from(u) <= 2 * q.cost[a] + (to(v) - from(v))
      <4> DEFINE c == q.cost[a]
                 tu == to(u)
                 tv == to(v)
                 fu == from(u)
                 fv == from(v)
      <4>1. c \in Nat /\ tu \in Nat /\ tv \in Nat /\ fu \in Nat /\ fv \in Nat
            /\ tu <= c + tv /\ fv <= c + fu
        BY <3>1, <3>2, <3>4
      <4> HIDE DEF c, tu, tv, fu, fv
      <4>2. tu - fu <= 2 * c + (tv - fv)  BY <4>1
      <4> QED  BY <4>2 DEF c, tu, tv, fu, fv
    <3> QED  BY <3>3, <3>5 DEF u, v
  <2> QED  BY <1>9, <2>1 DEF Search!Consistent
<1> QED  BY <1>11, <1>12, <1>13 DEF Answerable, q

\* Every place the importers keep is one.
PlacesInv ==
  /\ \A i \in DOMAIN places : places[i] \in Place
  /\ ~OSM /\ stage = "coords" => DOMAIN places = 1 .. size
  /\ stage = "built" => \A v \in DOMAIN graph.nodes : graph.nodes[v].place \in Place

LEMMA BuiltPlaces ==
  ASSUME NEW nodes, NEW adj, Built(Finalize(nodes, adj)),
         \A v \in DOMAIN nodes : nodes[v].place \in Place
  PROVE  stage' = "built" => \A v \in DOMAIN graph'.nodes : graph'.nodes[v].place \in Place
<1> SUFFICES ASSUME stage' = "built"
             PROVE  \A v \in DOMAIN graph'.nodes : graph'.nodes[v].place \in Place
  OBVIOUS
<1>1. Finalize(nodes, adj).ok /\ graph' = Finalize(nodes, adj)  BY DEF Built, Fail
<1>2. Acceptable(nodes, adj)  BY <1>1 DEF Finalize, NoGraph
<1>3. graph'.nodes = nodes  BY <1>1, <1>2 DEF Finalize, Compacted
<1> QED  BY <1>3

LEMMA PlacesStep ==
  ASSUME NEW origin \in Place, ImportInv, PlacesInv, [StoreNext(origin)]_gvars
  PROVE  PlacesInv'
<1>1. /\ \A i \in DOMAIN places : places[i] \in Place
      /\ ~OSM /\ stage = "coords" => DOMAIN places = 1 .. size
      /\ stage = "built" => \A v \in DOMAIN graph.nodes : graph.nodes[v].place \in Place
  BY DEF PlacesInv
<1>2. ASSUME UNCHANGED ivars PROVE PlacesInv'
  BY <1>1, <1>2 DEF ivars, PlacesInv, OSM
<1>3. CASE Read
  <2>1. /\ stage \in {"read", "coords"} /\ graph = NoGraph /\ options' = options
    BY <1>3 DEF Read, ImportInv
  <2>2. OSM' <=> OSM  BY <2>1 DEF OSM
  <2> DEFINE Keeps == /\ \A i \in DOMAIN places' : places'[i] \in Place
                      /\ ~OSM /\ stage' = "coords" => DOMAIN places' = 1 .. size'
                      /\ stage' # "built"
  <2>3. SUFFICES Keeps  BY <2>2 DEF PlacesInv
  <2>4. PICK x \in Elements :
          \/ ReadNode(x) \/ ReadWay(x) \/ ReadProblem(x) \/ ReadArc(x) \/ ReadCoord(x)
          \/ ReadMalformed(x)
    BY <1>3 DEF Read
  <2>5. CASE ReadNode(x)
    <3>1. x.place \in Place  BY <2>5, ElementAssumption DEF ReadNode
    <3>2. \A i \in DOMAIN places' : places'[i] \in Place  BY <1>1, <2>5, <3>1 DEF ReadNode
    <3> QED  BY <2>1, <2>5, <3>2 DEF ReadNode
  <2>6. CASE ReadCoord(x)
    <3>1. x.place \in Place  BY <2>6, ElementAssumption DEF ReadCoord
    <3>2. /\ DOMAIN places' = DOMAIN places /\ \A i \in DOMAIN places' : places'[i] \in Place
      BY <1>1, <2>6, <3>1 DEF ReadCoord
    <3> QED  BY <1>1, <2>1, <2>6, <3>2 DEF ReadCoord
  <2>7. CASE ReadWay(x) \/ ReadArc(x)  BY <1>1, <2>1, <2>7 DEF ReadWay, ReadArc
  <2>8. CASE ReadProblem(x)  BY <1>1, <2>1, <2>8 DEF ReadProblem
  <2>9. CASE ReadMalformed(x)  BY <1>1, <2>1, <2>9 DEF ReadMalformed, Fail
  <2> QED  BY <2>4, <2>5, <2>6, <2>7, <2>8, <2>9
<1>4. CASE EndOSM
  <2>1. /\ OSM /\ stage = "read" /\ graph = NoGraph
        /\ UNCHANGED <<options, count, places, roads, size>>
    BY <1>4 DEF EndOSM, ImportInv
  <2> DEFINE nodes == [v \in DOMAIN UsedIds |-> [id |-> UsedIds[v], place |-> places[UsedIds[v]]]]
  <2>2. \A v \in DOMAIN nodes : nodes[v].place \in Place
    <3>1. \A v \in DOMAIN UsedIds : UsedIds[v] \in DOMAIN places
      <4>1. IsFiniteSet(DOMAIN places)  BY DEF ImportInv
      <4> QED  BY <4>1, UsedIdsFacts DEF Used
    <3> QED  BY <1>1, <3>1
  <2>3. stage' = "built" => \A v \in DOMAIN graph'.nodes : graph'.nodes[v].place \in Place
    <3>1. CASE DOMAIN places = {} \/ roads = <<>>  BY <1>4, <3>1 DEF EndOSM, Fail
    <3>2. CASE ~(DOMAIN places = {} \/ roads = <<>>)
      <4>1. Built(Finalize(nodes, Lists(UsedIds, OSMArcs)))  BY <1>4, <3>2 DEF EndOSM
      <4> HIDE DEF nodes
      <4> QED  BY <2>1, <2>2, <4>1, BuiltPlaces
    <3> QED  BY <3>1, <3>2
  <2> QED  BY <1>1, <2>1, <2>3 DEF PlacesInv, OSM
<1>5. CASE EndArcs(origin)
  <2>1. ~OSM /\ stage = "read" /\ UNCHANGED <<options, roads, size, graph>>  BY <1>5 DEF EndArcs
  <2>2. CASE size = 0 \/ OutOfRange
    <3>1. stage' = "failed" /\ places' = places  BY <1>5, <2>2 DEF EndArcs
    <3> QED  BY <1>1, <2>1, <3>1 DEF PlacesInv
  <2>3. CASE ~(size = 0 \/ OutOfRange)
    <3>1. stage' = "coords" /\ places' = [i \in 1 .. size |-> origin]
      BY <1>5, <2>3 DEF EndArcs, Ids
    <3>2. DOMAIN places' = 1 .. size' /\ \A i \in DOMAIN places' : places'[i] \in Place
      BY <2>1, <3>1
    <3> QED  BY <3>1, <3>2 DEF PlacesInv
  <2> QED  BY <2>2, <2>3
<1>6. CASE EndCoords
  <2>1. /\ ~OSM /\ stage = "coords" /\ graph = NoGraph
        /\ UNCHANGED <<options, count, places, roads, size>>
    BY <1>6 DEF EndCoords, ImportInv
  <2> DEFINE nodes == [v \in Ids |-> [id |-> v, place |-> places[v]]]
  <2>2. \A v \in DOMAIN nodes : nodes[v].place \in Place  BY <1>1, <2>1 DEF Ids
  <2>3. Built(Finalize(nodes, Lists([v \in Ids |-> v], roads)))  BY <1>6 DEF EndCoords
  <2> HIDE DEF nodes
  <2>4. stage' = "built" => \A v \in DOMAIN graph'.nodes : graph'.nodes[v].place \in Place
    BY <2>1, <2>2, <2>3, BuiltPlaces
  <2> QED  BY <1>1, <2>1, <2>4 DEF PlacesInv, OSM
<1>7. CASE Create
  <2>1. stage' = "saving" /\ places' = <<>>  BY <1>7 DEF Create
  <2>2. DOMAIN places' = {}  BY <2>1
  <2> QED  BY <2>1, <2>2 DEF PlacesInv
<1>8. CASE Spill \/ Finish \/ Kill
  <2>1. stage' \in {"saving", "ended"} /\ places' = places  BY <1>8 DEF Spill, Finish, Kill
  <2> QED  BY <1>1, <2>1 DEF PlacesInv
<1>9. CASE Open \/ Fetch \/ Return \/ UNCHANGED gvars
  <2>1. UNCHANGED ivars  BY <1>9 DEF Open, Fetch, Return, gvars
  <2> QED  BY <1>2, <2>1
<1> QED
  BY <1>3, <1>4, <1>5, <1>6, <1>7, <1>8, <1>9 DEF StoreNext, Import

\* Whatever a file says and in whatever order it says it, the graph that an import
\* builds from it has what the searches assume: positive costs, and lower bounds
\* and a balanced potential that are consistent although they are rounded down
\* (graph.go:113-127; acbs.go:554-613; dijkstra.go:68-85).
THEOREM ImportedGraphsMeetSearch ==
  ASSUME NEW setups, NEW origin \in Place
  PROVE  StoreSpec(setups, origin) => []GraphsMeetSearch
<1>1. StoreInit(setups) => StoreInv /\ PlacesInv
  <2> SUFFICES ASSUME StoreInit(setups) PROVE StoreInv /\ PlacesInv  OBVIOUS
  <2>1. StoreInv  BY StoreStarts
  <2>2. places = <<>> /\ stage = "read"  BY DEF StoreInit, ImportInit
  <2>3. DOMAIN places = {}  BY <2>2
  <2> QED  BY <2>1, <2>2, <2>3 DEF PlacesInv
<1>2. StoreInv /\ PlacesInv /\ [StoreNext(origin)]_gvars => (StoreInv /\ PlacesInv)'
  <2> SUFFICES ASSUME StoreInv, PlacesInv, [StoreNext(origin)]_gvars PROVE (StoreInv /\ PlacesInv)'
    OBVIOUS
  <2>1. StoreInv'  BY StoreStep
  <2>2. PlacesInv'  BY PlacesStep DEF StoreInv
  <2> QED  BY <2>1, <2>2
<1>3. StoreInv /\ PlacesInv => GraphsMeetSearch
  <2> SUFFICES ASSUME StoreInv, PlacesInv, stage = "built",
                      NEW s \in 1 .. Len(graph.nodes), NEW t \in 1 .. Len(graph.nodes)
               PROVE  Answerable(Len(graph.nodes), QueryOn(graph, s, t))
    BY DEF GraphsMeetSearch, Answerable
  <2>1. IsFinished(graph)  BY DEF StoreInv, ImportInv
  <2>2. \A v \in DOMAIN graph.nodes : graph.nodes[v].place \in Place  BY DEF PlacesInv
  <2> QED  BY <2>1, <2>2, QueryFine
<1> QED  BY <1>1, <1>2, <1>3, PTL DEF StoreSpec

-----------------------------------------------------------------------------
(* The arcs of a graph are the roads of its file                           *)

\* The arcs of n lists, in the order of their tails and heads.
Arc(n) == [from : 1 .. n, to : 1 .. n, cost : Nat \ {0}]
ArcOf(v, e) == [from |-> v, to |-> e.to, cost |-> e.cost]
AreSorted(arcs) ==
  \A p, q \in 1 .. Len(arcs) : p < q =>
    \/ arcs[p].from < arcs[q].from
    \/ arcs[p].from = arcs[q].from /\ arcs[p].to < arcs[q].to
AreArcs(arcs, n, out) ==
  /\ arcs \in Seq(Arc(n)) /\ Len(arcs) = Len(FlattenSeq(out))
  /\ ToSet(arcs) = {ArcOf(a[1], a[2]) : a \in {a \in (1 .. n) \X Edge(n) : a[2] \in ToSet(out[a[1]])}}
  /\ AreSorted(arcs)

LEMMA TailByTailFacts ==
  ASSUME NEW n \in Nat, n # 0, NEW out \in [1 .. n -> Seq(Edge(n))],
         \A v \in 1 .. n : Increasing(out[v])
  PROVE  AreArcs(TailByTail(out), n, out)
<1> DEFINE o == Offsets([v \in 1 .. n |-> Len(out[v])])
           piece(v) == [k \in DOMAIN out[v] |-> [from |-> v, to |-> out[v][k].to, cost |-> out[v][k].cost]]
           s == [v \in DOMAIN out |-> piece(v)]
           arcs == FlattenSeq(s)
<1>1. \A v \in 1 .. n : Len(out[v]) \in Nat /\ DOMAIN out[v] = 1 .. Len(out[v])
        /\ \A k \in 1 .. Len(out[v]) : out[v][k] \in Edge(n)
  OBVIOUS
<1>2. AreOffsets(o, n, out)  BY <1>1, OffsetsOfBlocks DEF HasLengths
<1> HIDE DEF o
<1>3. ASSUME NEW v \in 1 .. n
      PROVE  /\ s[v] \in Seq(Arc(n)) /\ Len(s[v]) = Len(out[v])
             /\ \A k \in 1 .. Len(out[v]) : s[v][k] = ArcOf(v, out[v][k])
  <2>1. s[v] = [k \in 1 .. Len(out[v]) |-> ArcOf(v, out[v][k])]
    BY <1>1 DEF ArcOf
  <2> HIDE DEF s
  <2>2. \A k \in 1 .. Len(out[v]) : ArcOf(v, out[v][k]) \in Arc(n)
    <3> TAKE k \in 1 .. Len(out[v])
    <3>1. out[v][k] \in Edge(n)  BY <1>1
    <3> QED  BY <3>1 DEF Edge, Arc, ArcOf
  <2>3. Len(out[v]) \in Nat  BY <1>1
  <2> QED  BY <2>1, <2>2, <2>3
<1>4. s \in [1 .. n -> Seq(Arc(n))]
  <2>1. s = [v \in 1 .. n |-> s[v]]  OBVIOUS
  <2> HIDE DEF s
  <2>2. [v \in 1 .. n |-> s[v]] \in [1 .. n -> Seq(Arc(n))]  BY <1>3
  <2> QED  BY <2>1, <2>2, Zenon
<1> HIDE DEF s
<1>5. AreOffsets(o, n, s)  BY <1>2, <1>3 DEF AreOffsets
<1>6. HasBlocks(arcs, o, n, s, Arc(n))  BY <1>4, <1>5, FlattenFacts
<1>7. HasBlocks(FlattenSeq(out), o, n, out, Edge(n))  BY <1>2, FlattenFacts
<1>8. /\ arcs \in Seq(Arc(n)) /\ Len(arcs) = o[n + 1] /\ Len(FlattenSeq(out)) = o[n + 1]
      /\ \A v \in 1 .. n : \A k \in 1 .. Len(out[v]) :
           o[v] + k \in 1 .. o[n + 1] /\ arcs[o[v] + k] = ArcOf(v, out[v][k])
  BY <1>3, <1>6, <1>7 DEF HasBlocks
<1>9. ASSUME NEW p \in 1 .. o[n + 1]
      PROVE  \E v \in 1 .. n : \E k \in 1 .. Len(out[v]) : p = o[v] + k
  <2>1. HasLengths(out, n)  BY <1>1 DEF HasLengths
  <2>2. InABlock(p, o, n, out)  BY <1>2, <2>1, BlockOf
  <2> QED  BY <2>2 DEF InABlock
<1> HIDE DEF arcs
<1>10. ToSet(arcs) = {ArcOf(a[1], a[2]) : a \in {a \in (1 .. n) \X Edge(n) : a[2] \in ToSet(out[a[1]])}}
  <2>1. ASSUME NEW p \in DOMAIN arcs
        PROVE  \E v \in 1 .. n : \E e \in Edge(n) : e \in ToSet(out[v]) /\ arcs[p] = ArcOf(v, e)
    <3>0. PICK v \in 1 .. n : \E k \in 1 .. Len(out[v]) : p = o[v] + k
      <4>1. p \in 1 .. o[n + 1]  BY <1>8
      <4> QED  BY <1>9, <4>1
    <3>1. PICK k \in 1 .. Len(out[v]) : p = o[v] + k  BY <3>0
    <3>2. arcs[p] = ArcOf(v, out[v][k]) /\ out[v][k] \in Edge(n)  BY <1>1, <1>8, <3>1
    <3>3. out[v][k] \in ToSet(out[v])  BY <1>1 DEF ToSet
    <3> QED  BY <3>2, <3>3
  <2>2. ASSUME NEW v \in 1 .. n, NEW e \in ToSet(out[v])
        PROVE  \E p \in DOMAIN arcs : arcs[p] = ArcOf(v, e)
    <3>1. PICK k \in 1 .. Len(out[v]) : e = out[v][k]  BY <1>1 DEF ToSet
    <3>2. DOMAIN arcs = 1 .. o[n + 1]  BY <1>8
    <3>3. o[v] + k \in DOMAIN arcs /\ arcs[o[v] + k] = ArcOf(v, e)  BY <1>8, <3>1, <3>2
    <3> QED  BY <3>3
  <2>3. ToSet(arcs) = {arcs[p] : p \in DOMAIN arcs}  BY DEF ToSet
  <2> HIDE DEF ArcOf
  <2>4. ToSet(arcs) \subseteq {ArcOf(a[1], a[2]) : a \in {a \in (1 .. n) \X Edge(n) : a[2] \in ToSet(out[a[1]])}}
    <3> SUFFICES ASSUME NEW p \in DOMAIN arcs
                 PROVE  \E a \in (1 .. n) \X Edge(n) : a[2] \in ToSet(out[a[1]]) /\ arcs[p] = ArcOf(a[1], a[2])
      BY <2>3
    <3>1. PICK v \in 1 .. n, e \in Edge(n) : e \in ToSet(out[v]) /\ arcs[p] = ArcOf(v, e)  BY <2>1
    <3>2. <<v, e>> \in (1 .. n) \X Edge(n) /\ <<v, e>>[1] = v /\ <<v, e>>[2] = e  OBVIOUS
    <3> QED  BY <3>1, <3>2
  <2>5. {ArcOf(a[1], a[2]) : a \in {a \in (1 .. n) \X Edge(n) : a[2] \in ToSet(out[a[1]])}} \subseteq ToSet(arcs)
    <3> SUFFICES ASSUME NEW a \in (1 .. n) \X Edge(n), a[2] \in ToSet(out[a[1]])
                 PROVE  ArcOf(a[1], a[2]) \in ToSet(arcs)
      OBVIOUS
    <3>1. a[1] \in 1 .. n  OBVIOUS
    <3> QED  BY <2>2, <2>3, <3>1
  <2> QED  BY <2>4, <2>5
<1>11. ASSUME NEW p \in 1 .. Len(arcs), NEW q \in 1 .. Len(arcs), p < q
       PROVE  \/ arcs[p].from < arcs[q].from
              \/ arcs[p].from = arcs[q].from /\ arcs[p].to < arcs[q].to
  <2>a. PICK v \in 1 .. n : \E k \in 1 .. Len(out[v]) : p = o[v] + k  BY <1>8, <1>9
  <2>b. PICK w \in 1 .. n : \E l \in 1 .. Len(out[w]) : q = o[w] + l  BY <1>8, <1>9
  <2>1. PICK k \in 1 .. Len(out[v]) : p = o[v] + k  BY <2>a
  <2>2. PICK l \in 1 .. Len(out[w]) : q = o[w] + l  BY <2>b
  <2>3. arcs[p] = ArcOf(v, out[v][k]) /\ arcs[q] = ArcOf(w, out[w][l])  BY <1>8, <2>1, <2>2
  <2>4. o[v] \in Nat /\ o[w] \in Nat /\ Len(out[v]) \in Nat /\ Len(out[w]) \in Nat
    BY <1>1, <1>2 DEF AreOffsets
  <2>5. ~(w < v)
    <3> SUFFICES ASSUME w < v PROVE FALSE  OBVIOUS
    <3>1. o[w] + Len(out[w]) <= o[v]
      <4>1. HasLengths(out, n)  BY <1>1 DEF HasLengths
      <4> QED  BY <1>2, <4>1, BlocksInOrder
    <3>2. l <= Len(out[w]) /\ l \in Nat /\ k \in Nat /\ 0 < k  BY <2>4
    <3> DEFINE a == o[v]
               b == o[w]
               c == Len(out[w])
    <3>3. /\ a \in Nat /\ b \in Nat /\ c \in Nat /\ b + c <= a
          /\ p = a + k /\ q = b + l /\ p < q
      BY <1>11, <2>1, <2>2, <2>4, <3>1
    <3>4. l <= c  BY <3>2
    <3> HIDE DEF a, b, c
    <3> QED  BY <3>2, <3>3, <3>4
  <2>6. CASE v < w
    <3>1. arcs[p].from = v /\ arcs[q].from = w  BY <2>3 DEF ArcOf
    <3> QED  BY <2>6, <3>1
  <2>7. CASE v = w
    <3>1. k < l /\ k \in 1 .. Len(out[v]) /\ l \in 1 .. Len(out[v])  BY <1>11, <2>1, <2>2, <2>4, <2>7
    <3>2. out[v][k].to < out[v][l].to  BY <3>1 DEF Increasing
    <3>3. /\ arcs[p].from = v /\ arcs[q].from = v
          /\ arcs[p].to = out[v][k].to /\ arcs[q].to = out[v][l].to
      BY <2>3, <2>7 DEF ArcOf
    <3> QED  BY <3>2, <3>3
  <2> QED  BY <2>5, <2>6, <2>7
<1>12. TailByTail(out) = arcs  BY DEF TailByTail, arcs, s
<1>13. AreSorted(arcs)  BY <1>11 DEF AreSorted
<1> QED  BY <1>8, <1>10, <1>12, <1>13 DEF AreArcs

\* How many of the first arcs lead to a node: the place of an arc among them.
Rank(arcs, k, v) == Cardinality({i \in 1 .. k : arcs[i].to = v})
HasRanks(arcs, v) ==
  /\ \A k \in Nat : Rank(arcs, k, v) \in Nat
  /\ Rank(arcs, 0, v) = 0
  /\ \A k \in Nat : Rank(arcs, k + 1, v) = Rank(arcs, k, v) + (IF arcs[k + 1].to = v THEN 1 ELSE 0)
  /\ \A k, l \in Nat : k <= l => Rank(arcs, k, v) <= Rank(arcs, l, v)
LEMMA RankFacts ==
  ASSUME NEW arcs, NEW v
  PROVE  HasRanks(arcs, v)
<1> DEFINE Into(k) == {i \in 1 .. k : arcs[i].to = v}
<1>1. \A k \in Nat : IsFiniteSet(Into(k))
  <2> TAKE k \in Nat
  <2>1. IsFiniteSet(1 .. k)  BY FS_Interval
  <2> QED  BY <2>1, FS_Subset
<1>2. \A k \in Nat : Cardinality(Into(k)) \in Nat  BY <1>1, FS_CardinalityType
<1>3. Cardinality(Into(0)) = 0
  <2>1. Into(0) = {}  OBVIOUS
  <2> QED  BY <2>1, FS_EmptySet
<1>4. ASSUME NEW k \in Nat
      PROVE  Cardinality(Into(k + 1)) = Cardinality(Into(k)) + (IF arcs[k + 1].to = v THEN 1 ELSE 0)
  <2>1. CASE arcs[k + 1].to = v
    <3>1. Into(k + 1) = Into(k) \cup {k + 1} /\ k + 1 \notin Into(k)  BY <2>1
    <3>2. Cardinality(Into(k) \cup {k + 1}) = Cardinality(Into(k)) + 1
      <4> HIDE DEF Into
      <4> QED  BY <1>1, <3>1, FS_AddElement
    <3> QED  BY <2>1, <3>1, <3>2
  <2>2. CASE arcs[k + 1].to # v
    <3>1. Into(k + 1) = Into(k)  BY <2>2
    <3> QED  BY <1>2, <2>2, <3>1
  <2> QED  BY <2>1, <2>2
<1>5. ASSUME NEW k \in Nat, NEW l \in Nat, k <= l
      PROVE  Cardinality(Into(k)) <= Cardinality(Into(l))
  <2>1. Into(k) \subseteq Into(l)  BY <1>5
  <2> HIDE DEF Into
  <2> QED  BY <1>1, <2>1, FS_Subset
<1>6. \A k : Rank(arcs, k, v) = Cardinality(Into(k))  BY DEF Rank
<1> HIDE DEF Into
<1> QED  BY <1>2, <1>3, <1>4, <1>5, <1>6 DEF HasRanks

\* Every place is some arc's.
LEMMA RankReached ==
  ASSUME NEW arcs, NEW v, NEW m \in Nat, NEW r \in 1 .. Rank(arcs, m, v)
  PROVE  \E i \in 1 .. m : arcs[i].to = v /\ Rank(arcs, i, v) = r
<1>1. HasRanks(arcs, v)  BY RankFacts
<1> DEFINE c == [k \in Nat |-> Rank(arcs, k, v)]
<1>2. /\ c \in [Nat -> Nat] /\ c[0] = 0
      /\ \A k \in Nat : c[k + 1] = c[k] + (IF arcs[k + 1].to = v THEN 1 ELSE 0)
      /\ \A k, l \in Nat : k <= l => c[k] <= c[l]
      /\ r \in 1 .. c[m]
  <2>1. \A k \in Nat : c[k] = Rank(arcs, k, v) /\ k + 1 \in Nat  OBVIOUS
  <2>2. /\ \A k \in Nat : Rank(arcs, k, v) \in Nat
        /\ Rank(arcs, 0, v) = 0
        /\ \A k \in Nat : Rank(arcs, k + 1, v) = Rank(arcs, k, v) + (IF arcs[k + 1].to = v THEN 1 ELSE 0)
        /\ \A k, l \in Nat : k <= l => Rank(arcs, k, v) <= Rank(arcs, l, v)
    BY <1>1 DEF HasRanks
  <2>3. c \in [Nat -> Nat]  BY <2>2
  <2> HIDE DEF c
  <2>4. \A k \in Nat : c[k + 1] = c[k] + (IF arcs[k + 1].to = v THEN 1 ELSE 0)  BY <2>1, <2>2
  <2>5. \A k, l \in Nat : k <= l => c[k] <= c[l]  BY <2>1, <2>2
  <2>6. c[0] = 0 /\ r \in 1 .. c[m]  BY <2>1, <2>2
  <2> QED  BY <2>3, <2>4, <2>5, <2>6
<1>3. \A k \in Nat : Rank(arcs, k, v) = c[k]  OBVIOUS
<1> HIDE DEF c
<1> DEFINE T == {k \in Nat : r <= c[k]}
<1>4. PICK u \in T : \A k \in T : u <= k
  <2>1. T \subseteq Nat /\ m \in T  BY <1>2
  <2> HIDE DEF T
  <2> QED  BY <2>1, LeastNumber
<1>5. u \in Nat /\ r <= c[u] /\ u <= m  BY <1>2, <1>4
<1>6. u # 0  BY <1>2, <1>5
<1>7. u - 1 \in Nat /\ (u - 1) + 1 = u /\ ~(u <= u - 1)  BY <1>5, <1>6
<1>8. ~(r <= c[u - 1])  BY <1>4, <1>7
<1>9. c[u] = c[u - 1] + (IF arcs[u].to = v THEN 1 ELSE 0)
  <2>1. c[(u - 1) + 1] = c[u - 1] + (IF arcs[(u - 1) + 1].to = v THEN 1 ELSE 0)  BY <1>2, <1>7
  <2> QED  BY <1>7, <2>1
<1>10. arcs[u].to = v
  <2> SUFFICES ASSUME arcs[u].to # v PROVE FALSE  OBVIOUS
  <2>1. c[u] = c[u - 1] + 0  BY <1>9
  <2>2. c[u - 1] \in Nat  BY <1>2, <1>7
  <2> QED  BY <1>5, <1>8, <2>1, <2>2
<1>11. c[u] = r
  <2>1. c[u] = c[u - 1] + 1  BY <1>9, <1>10
  <2>2. c[u - 1] \in Nat  BY <1>2, <1>7
  <2>3. r \in Nat  BY <1>2
  <2> QED  BY <1>5, <1>8, <2>1, <2>2, <2>3
<1>12. u \in 1 .. m  BY <1>5, <1>6
<1> QED  BY <1>3, <1>5, <1>10, <1>11, <1>12

\* The offsets of the incoming arcs, and where they put each arc.
AreHeads(h, n, arcs) ==
  /\ h \in [1 .. n + 1 -> Nat] /\ h[1] = 0 /\ h[n + 1] = Len(arcs)
  /\ \A v \in 1 .. n : h[v + 1] = h[v] + Rank(arcs, Len(arcs), v)
LEMMA HeadsFacts ==
  ASSUME NEW n \in Nat, n # 0, NEW arcs \in Seq(Arc(n))
  PROVE  AreHeads(Offsets([v \in 1 .. n |-> Rank(arcs, Len(arcs), v)]), n, arcs)
<1> DEFINE m == Len(arcs)
           sizes == [v \in 1 .. n |-> Rank(arcs, m, v)]
           h == Offsets(sizes)
<1>0. m \in Nat /\ \A i \in 1 .. m : arcs[i].to \in 1 .. n
  <2>1. m \in Nat /\ \A i \in 1 .. m : arcs[i] \in Arc(n)  OBVIOUS
  <2> HIDE DEF m
  <2> QED  BY <2>1 DEF Arc
<1> HIDE DEF m
<1>1. sizes \in [1 .. n -> Nat] /\ \A v \in 1 .. n : sizes[v] = Rank(arcs, m, v)
  <2>1. \A v \in 1 .. n : Rank(arcs, m, v) \in Nat
    BY <1>0, RankFacts DEF HasRanks
  <2> QED  BY <2>1
<1> HIDE DEF sizes
<1>2. h \in [1 .. n + 1 -> Nat] /\ h[1] = 0 /\ \A v \in 1 .. n : h[v + 1] = h[v] + Rank(arcs, m, v)
  BY <1>1, OffsetsFacts
<1> HIDE DEF h
<1> DEFINE Below(v) == {i \in 1 .. m : arcs[i].to < v}
           T == {v \in 1 .. n + 1 : h[v] = Cardinality(Below(v))}
<1>3. 1 \in T
  <2>1. Below(1) = {}  BY <1>0
  <2>2. 1 \in 1 .. n + 1  OBVIOUS
  <2> QED  BY <1>2, <2>1, <2>2, FS_EmptySet
<1>4. ASSUME NEW v \in 1 .. n, v \in T PROVE v + 1 \in T
  <2> DEFINE a == Below(v)
             b == {i \in 1 .. m : arcs[i].to = v}
  <2>1. Below(v + 1) = a \cup b /\ a \cap b = {}  BY <1>0
  <2>2. IsFiniteSet(a) /\ IsFiniteSet(b)
    <3>1. IsFiniteSet(1 .. m)  BY <1>0, FS_Interval
    <3> QED  BY <3>1, FS_Subset
  <2>3. h[v] = Cardinality(a) /\ Rank(arcs, m, v) = Cardinality(b)  BY <1>4 DEF Rank
  <2> HIDE DEF a, b
  <2>4. Cardinality(a \cup b) = Cardinality(a) + Cardinality(b)
    <3>1. Cardinality(a) \in Nat /\ Cardinality(b) \in Nat  BY <2>2, FS_CardinalityType
    <3>2. Cardinality(a \cup b) = Cardinality(a) + Cardinality(b) - Cardinality(a \cap b)
      BY <2>2, FS_Union
    <3>3. Cardinality(a \cap b) = 0  BY <2>1, FS_EmptySet
    <3> QED  BY <3>1, <3>2, <3>3
  <2>5. h[v + 1] = h[v] + Rank(arcs, m, v) /\ v + 1 \in 1 .. n + 1  BY <1>2
  <2>6. h[v + 1] = Cardinality(a \cup b)  BY <2>3, <2>4, <2>5
  <2> QED  BY <2>1, <2>5, <2>6
<1>5. n + 1 \in T
  <2> DEFINE end == n + 1
  <2>1. end \in Int /\ 1 \in Int /\ \A v \in 1 .. end - 1 : v \in T => v + 1 \in T
    <3>1. end - 1 = n  OBVIOUS
    <3> HIDE DEF T
    <3> QED  BY <1>4, <3>1
  <2>2. end \in 1 .. end  OBVIOUS
  <2> HIDE DEF T, end
  <2>3. 1 .. end \subseteq T  BY <1>3, <2>1, IntervalInduction
  <2> QED  BY <2>2, <2>3 DEF end
<1>6. Below(n + 1) = 1 .. m  BY <1>0
<1>7. Cardinality(1 .. m) = m
  <2>1. Cardinality(1 .. m) = IF 1 > m THEN 0 ELSE m - 1 + 1  BY <1>0, FS_Interval
  <2> QED  BY <1>0, <2>1
<1>8. h[n + 1] = m  BY <1>5, <1>6, <1>7
<1> QED  BY <1>2, <1>8 DEF AreHeads, h, sizes, m

Slot(arcs, h, i) == h[arcs[i].to] + Rank(arcs, i, arcs[i].to)
HasSlots(arcs, h, m) ==
  \A i \in 1 .. m :
    /\ Slot(arcs, h, i) \in 1 .. m
    /\ \A j \in 1 .. m : i < j => Slot(arcs, h, i) # Slot(arcs, h, j)
    /\ Slot(arcs, h, i) = h[arcs[i].to] + Rank(arcs, i - 1, arcs[i].to) + 1
LEMMA SlotFacts ==
  ASSUME NEW n \in Nat, NEW arcs \in Seq(Arc(n)), NEW h, AreHeads(h, n, arcs)
  PROVE  HasSlots(arcs, h, Len(arcs))
<1> DEFINE m == Len(arcs)
           c(k, v) == Rank(arcs, k, v)
           s == [v \in 1 .. n |-> [k \in 1 .. c(m, v) |-> 0]]
<1>0. m \in Nat /\ \A i \in 1 .. m : arcs[i].to \in 1 .. n
  <2>1. m \in Nat /\ \A i \in 1 .. m : arcs[i] \in Arc(n)  OBVIOUS
  <2> HIDE DEF m
  <2> QED  BY <2>1 DEF Arc
<1>1. /\ h \in [1 .. n + 1 -> Nat] /\ h[1] = 0 /\ h[n + 1] = m
      /\ \A v \in 1 .. n : h[v + 1] = h[v] + c(m, v)
  BY DEF AreHeads
<1> HIDE DEF m
<1>2. \A v : /\ \A k \in Nat : c(k, v) \in Nat
             /\ \A k \in Nat : c(k + 1, v) = c(k, v) + (IF arcs[k + 1].to = v THEN 1 ELSE 0)
             /\ \A k, l \in Nat : k <= l => c(k, v) <= c(l, v)
  BY RankFacts DEF HasRanks
<1> HIDE DEF c
<1>3. \A v \in 1 .. n : Len(s[v]) = c(m, v) /\ c(m, v) \in Nat
  BY <1>0, <1>2
<1> HIDE DEF s
<1>4. HasLengths(s, n) /\ AreOffsets(h, n, s)  BY <1>1, <1>3 DEF HasLengths, AreOffsets
<1>5. \A u, v \in 1 .. n : u < v => h[u] + c(m, u) <= h[v]
  BY <1>3, <1>4, BlocksInOrder
<1>6. ASSUME NEW v \in 1 .. n PROVE h[v] + c(m, v) <= m
  <2>1. h[v + 1] = h[v] + c(m, v)  BY <1>1
  <2>2. CASE v = n  BY <1>0, <1>1, <2>1, <2>2
  <2>3. CASE v < n
    <3>1. h[v] + c(m, v) <= h[n] /\ h[n + 1] = h[n] + c(m, n)  BY <1>1, <1>5, <2>3
    <3>2. n \in 1 .. n + 1 /\ v \in 1 .. n + 1  BY <2>3
    <3>3. h[n] \in Nat /\ h[v] \in Nat  BY <1>1, <3>2
    <3>4. c(m, n) \in Nat /\ c(m, v) \in Nat  BY <1>0, <1>2
    <3> QED  BY <1>0, <1>1, <3>1, <3>3, <3>4
  <2> QED  BY <2>2, <2>3
<1>7. ASSUME NEW i \in 1 .. m
      PROVE  /\ c(i, arcs[i].to) = c(i - 1, arcs[i].to) + 1
             /\ c(i - 1, arcs[i].to) \in Nat
             /\ c(i, arcs[i].to) <= c(m, arcs[i].to)
  <2>1. i - 1 \in Nat /\ (i - 1) + 1 = i /\ i \in Nat /\ i <= m  BY <1>0
  <2>2. c((i - 1) + 1, arcs[i].to) = c(i - 1, arcs[i].to) + (IF arcs[(i - 1) + 1].to = arcs[i].to THEN 1 ELSE 0)
    BY <1>2, <2>1
  <2>3. c(i, arcs[i].to) = c(i - 1, arcs[i].to) + 1  BY <2>1, <2>2
  <2>4. c(i, arcs[i].to) <= c(m, arcs[i].to)  BY <1>0, <1>2, <2>1
  <2>5. c(i - 1, arcs[i].to) \in Nat  BY <1>2, <2>1
  <2> QED  BY <2>3, <2>4, <2>5
<1> DEFINE slot(i) == h[arcs[i].to] + c(i, arcs[i].to)
<1>8. \A i : Slot(arcs, h, i) = slot(i)  BY DEF Slot, c
<1>9. ASSUME NEW i \in 1 .. m
      PROVE  slot(i) \in 1 .. m /\ slot(i) = h[arcs[i].to] + c(i - 1, arcs[i].to) + 1
  <2> DEFINE v == arcs[i].to
             a == c(i, v)
             b == c(i - 1, v)
             d == c(m, v)
             x == h[v]
  <2>1. v \in 1 .. n /\ x \in Nat /\ x + d <= m  BY <1>0, <1>1, <1>6
  <2>2. a = b + 1 /\ b \in Nat /\ a <= d /\ d \in Nat  BY <1>0, <1>2, <1>7
  <2> HIDE DEF a, b, d, x
  <2>3. x + a \in 1 .. m /\ x + a = x + b + 1  BY <1>0, <2>1, <2>2
  <2> QED  BY <2>3 DEF a, b, x
<1>10. ASSUME NEW i \in 1 .. m, NEW j \in 1 .. m, i < j
       PROVE  slot(i) # slot(j)
  <2> DEFINE u == arcs[i].to
             v == arcs[j].to
             a == c(i, u)
             b == c(j, v)
             x == h[u]
             y == h[v]
  <2>1. /\ u \in 1 .. n /\ v \in 1 .. n /\ x \in Nat /\ y \in Nat
        /\ a \in Nat /\ b \in Nat /\ 1 <= a /\ 1 <= b
    <3>1. i \in Nat /\ j \in Nat  BY <1>0
    <3>2. a = c(i - 1, u) + 1 /\ c(i - 1, u) \in Nat  BY <1>7
    <3>3. b = c(j - 1, v) + 1 /\ c(j - 1, v) \in Nat  BY <1>7
    <3>4. u \in 1 .. n /\ v \in 1 .. n  BY <1>0
    <3>5. x \in Nat /\ y \in Nat
      <4>1. u \in 1 .. n + 1 /\ v \in 1 .. n + 1  BY <3>4
      <4> HIDE DEF u, v
      <4> QED  BY <1>1, <4>1
    <3>6. a \in Nat /\ b \in Nat /\ 1 <= a /\ 1 <= b
      <4> HIDE DEF a, b
      <4> QED  BY <3>2, <3>3
    <3> QED  BY <3>4, <3>5, <3>6
  <2>2. CASE u = v
    <3>1. i \in Nat /\ j - 1 \in Nat /\ i <= j - 1  BY <1>0, <1>10
    <3>2. a <= c(j - 1, v) /\ b = c(j - 1, v) + 1 /\ c(j - 1, v) \in Nat
      BY <1>2, <1>7, <2>2, <3>1
    <3>3. a < b
      <4> HIDE DEF a, b
      <4> QED  BY <2>1, <3>2
    <3>4. x = y  BY <2>2
    <3> HIDE DEF a, b, x, y
    <3>5. x + a # y + b  BY <2>1, <3>3, <3>4
    <3> QED  BY <3>5 DEF a, b, x, y
  <2>3. CASE u < v
    <3>1. x + c(m, u) <= y  BY <1>5, <2>1, <2>3
    <3>2. a <= c(m, u) /\ c(m, u) \in Nat  BY <1>0, <1>2, <1>7
    <3> HIDE DEF a, b, x, y
    <3>3. x + a # y + b  BY <2>1, <3>1, <3>2
    <3> QED  BY <3>3 DEF a, b, x, y
  <2>4. CASE v < u
    <3>1. y + c(m, v) <= x  BY <1>5, <2>1, <2>4
    <3>2. b <= c(m, v) /\ c(m, v) \in Nat  BY <1>0, <1>2, <1>7
    <3> HIDE DEF a, b, x, y
    <3>3. x + a # y + b  BY <2>1, <3>1, <3>2
    <3> QED  BY <3>3 DEF a, b, x, y
  <2>5. u = v \/ u < v \/ v < u  BY <2>1
  <2> QED  BY <2>2, <2>3, <2>4, <2>5
<1>11. HasSlots(arcs, h, m)
  <2> HIDE DEF slot
  <2>1. ASSUME NEW i \in 1 .. m
        PROVE  /\ Slot(arcs, h, i) \in 1 .. m
               /\ \A j \in 1 .. m : i < j => Slot(arcs, h, i) # Slot(arcs, h, j)
    BY <1>8, <1>9, <1>10
  <2>2. ASSUME NEW i \in 1 .. m
        PROVE  Slot(arcs, h, i) = h[arcs[i].to] + Rank(arcs, i - 1, arcs[i].to) + 1
    BY <1>8, <1>9 DEF c
  <2> QED  BY <2>1, <2>2 DEF HasSlots
<1> QED  BY <1>11 DEF m

\* The cursors put each arc into its slot.
Back(a) == [to |-> a.from, cost |-> a.cost]
IsFilled(edges, arcs, h) ==
  /\ Len(edges) = Len(arcs) /\ edges \in Seq([to : Nat, cost : Nat])
  /\ \A i \in 1 .. Len(arcs) : edges[Slot(arcs, h, i)] = Back(arcs[i])
LEMMA ReversedFacts ==
  ASSUME NEW n \in Nat, NEW arcs \in Seq(Arc(n)), NEW h, AreHeads(h, n, arcs)
  PROVE  IsFilled(Reversed(arcs, h), arcs, h)
<1> DEFINE m == Len(arcs)
           Cell == [to : Nat, cost : Nat]
           S == [edges : [1 .. m -> Cell], cursor : [1 .. n + 1 -> Nat]]
           start == [edges |-> [p \in DOMAIN arcs |-> [to |-> 0, cost |-> 0]], cursor |-> h]
           Put(r, a) == [edges |-> [r.edges EXCEPT ![r.cursor[a.to] + 1] = [to |-> a.from, cost |-> a.cost]],
                         cursor |-> [r.cursor EXCEPT ![a.to] = @ + 1]]
           Turn == [ip \in (1 .. m) \X S |-> Put(ip[2], arcs[ip[1]])]
           IsFilling(f) == f = [k \in 0 .. m |-> IF k = 0 THEN start ELSE Put(f[k - 1], arcs[k])]
           filled == CHOOSE f : IsFilling(f)
<1>0. /\ m \in Nat /\ DOMAIN arcs = 1 .. m /\ h \in [1 .. n + 1 -> Nat]
      /\ \A i \in 1 .. m : arcs[i] \in Arc(n)
  BY DEF AreHeads
<1>a. \A i \in 1 .. m : /\ arcs[i].to \in 1 .. n /\ arcs[i].to \in 1 .. n + 1
                        /\ arcs[i].from \in Nat /\ arcs[i].cost \in Nat
  <2> TAKE i \in 1 .. m
  <2>1. arcs[i] \in Arc(n)  BY <1>0
  <2> HIDE DEF m
  <2> QED  BY <2>1 DEF Arc
<1>b. Reversed(arcs, h) = filled[m].edges  BY DEF Reversed
<1> HIDE DEF m
<1>1. start \in S
  <2> DEFINE empty == [to |-> 0, cost |-> 0]
  <2>1. empty \in Cell  OBVIOUS
  <2> HIDE DEF Cell, empty
  <2>2. [p \in 1 .. m |-> empty] \in [1 .. m -> Cell]  BY <2>1
  <2>3. start = [edges |-> [p \in 1 .. m |-> empty], cursor |-> h]  BY <1>0 DEF empty
  <2> HIDE DEF start
  <2> QED  BY <1>0, <2>2, <2>3
<1>2. ASSUME NEW r \in S, NEW i \in 1 .. m PROVE Put(r, arcs[i]) \in S
  <2>1. r.edges \in [1 .. m -> Cell] /\ r.cursor \in [1 .. n + 1 -> Nat]  OBVIOUS
  <2>2. [to |-> arcs[i].from, cost |-> arcs[i].cost] \in Cell  BY <1>a
  <2> HIDE DEF Cell
  <2>3. [r.edges EXCEPT ![r.cursor[arcs[i].to] + 1] = [to |-> arcs[i].from, cost |-> arcs[i].cost]]
          \in [1 .. m -> Cell]
    BY <2>1, <2>2
  <2>4. [r.cursor EXCEPT ![arcs[i].to] = @ + 1] \in [1 .. n + 1 -> Nat]
    <3> DEFINE c == r.cursor
               x == arcs[i].to
    <3>1. c[x] \in Nat  BY <1>a, <2>1
    <3>2. c[x] + 1 \in Nat  BY <3>1
    <3> HIDE DEF c, x
    <3>3. [c EXCEPT ![x] = @ + 1] \in [1 .. n + 1 -> Nat]  BY <2>1, <3>2 DEF c
    <3> QED  BY <3>3 DEF c, x
  <2> QED  BY <2>3, <2>4
<1> HIDE DEF Put, start
<1>3. Turn \in [(1 .. m) \X S -> S]
  <2> HIDE DEF S
  <2> QED  BY <1>2
<1>4. PICK f : IsRun(f, m, S, start, Turn)
  <2> HIDE DEF Turn, S
  <2> QED  BY <1>0, <1>1, <1>3, PrimitiveRecursion
<1> HIDE DEF S
<1>5. f \in [0 .. m -> S] /\ f[0] = start /\ \A k \in 1 .. m : f[k] = Put(f[k - 1], arcs[k])
  <2>1. f \in [0 .. m -> S] /\ f[0] = start /\ \A k \in 1 .. m : f[k] = Turn[<<k, f[k - 1]>>]
    BY <1>4 DEF IsRun
  <2>2. ASSUME NEW k \in 1 .. m PROVE f[k] = Put(f[k - 1], arcs[k])
    <3>1. f[k - 1] \in S  BY <1>0, <2>1
    <3> QED  BY <2>1, <3>1
  <2> QED  BY <2>1, <2>2
<1>6. IsFilling(f)
  <2>1. ASSUME NEW k \in 0 .. m PROVE f[k] = IF k = 0 THEN start ELSE Put(f[k - 1], arcs[k])
    <3>1. k = 0 \/ k \in 1 .. m  BY <1>0
    <3>2. \A i \in 1 .. m : i # 0  BY <1>0
    <3> QED  BY <1>5, <3>1, <3>2
  <2>2. f = [k \in 0 .. m |-> f[k]]  BY <1>5
  <2> QED  BY <2>1, <2>2
<1>7. IsFilling(filled)
  <2> HIDE DEF IsFilling
  <2> QED  BY <1>6
<1>8. filled[0] = start /\ \A k \in 1 .. m : filled[k] = Put(filled[k - 1], arcs[k])
  <2> HIDE DEF filled
  <2>1. \A k \in 0 .. m : filled[k] = IF k = 0 THEN start ELSE Put(filled[k - 1], arcs[k])  BY <1>7
  <2>2. 0 \in 0 .. m /\ \A k \in 1 .. m : k \in 0 .. m /\ k # 0  BY <1>0
  <2> QED  BY <2>1, <2>2
<1> HIDE DEF filled
<1>9. HasSlots(arcs, h, m)  BY SlotFacts DEF m
<1> DEFINE Good(k) ==
             /\ filled[k] \in S
             /\ \A v \in 1 .. n : filled[k].cursor[v] = h[v] + Rank(arcs, k, v)
             /\ \A i \in 1 .. k : filled[k].edges[Slot(arcs, h, i)] = Back(arcs[i])
           T == {k \in 0 .. m : Good(k)}
<1>10. 0 \in T
  <2>1. \A v \in 1 .. n : filled[0].cursor[v] = h[v] + Rank(arcs, 0, v)
    <3> TAKE v \in 1 .. n
    <3>1. Rank(arcs, 0, v) = 0  BY RankFacts DEF HasRanks
    <3>2. filled[0].cursor = h /\ h[v] \in Nat  BY <1>0, <1>8 DEF start
    <3> QED  BY <3>1, <3>2
  <2>2. 0 \in 0 .. m  BY <1>0
  <2> QED  BY <1>1, <1>8, <2>1, <2>2
<1>11. ASSUME NEW k \in 0 .. m - 1, k \in T PROVE k + 1 \in T
  <2> DEFINE r == filled[k]
             j == k + 1
             a == arcs[j]
  <2>1. /\ k \in 0 .. m /\ j \in 1 .. m /\ j \in 0 .. m /\ j - 1 = k /\ r \in S
        /\ filled[j] = Put(r, a)
    <3>1. k \in 0 .. m /\ j \in 1 .. m /\ j \in 0 .. m /\ j - 1 = k  BY <1>0
    <3> QED  BY <1>8, <1>11, <3>1
  <2>2. a.to \in 1 .. n  BY <1>a, <2>1
  <2>3. /\ r.edges \in [1 .. m -> Cell] /\ r.cursor \in [1 .. n + 1 -> Nat]
        /\ \A v \in 1 .. n : r.cursor[v] = h[v] + Rank(arcs, k, v)
        /\ \A i \in 1 .. k : r.edges[Slot(arcs, h, i)] = Back(arcs[i])
    BY <1>11, <2>1 DEF S
  <2>4. Slot(arcs, h, j) = r.cursor[a.to] + 1
    <3>1. Slot(arcs, h, j) = h[a.to] + Rank(arcs, k, a.to) + 1
      BY <1>9, <2>1 DEF HasSlots
    <3> QED  BY <2>2, <2>3, <3>1
  <2>5. /\ filled[j].edges = [r.edges EXCEPT ![Slot(arcs, h, j)] = Back(a)]
        /\ filled[j].cursor = [r.cursor EXCEPT ![a.to] = @ + 1]
    BY <2>1, <2>4 DEF Put, Back
  <2>6. ASSUME NEW i \in 1 .. j PROVE filled[j].edges[Slot(arcs, h, i)] = Back(arcs[i])
    <3>1. CASE i = j
      <4>1. Slot(arcs, h, j) \in 1 .. m  BY <1>9, <2>1 DEF HasSlots
      <4> QED  BY <2>3, <2>5, <3>1, <4>1
    <3>2. CASE i # j
      <4>0. k \in Nat /\ k + 1 <= m  BY <1>0
      <4>1. i \in 1 .. k /\ i \in 1 .. m /\ i < j  BY <1>0, <3>2, <4>0
      <4>2. Slot(arcs, h, i) \in 1 .. m /\ Slot(arcs, h, i) # Slot(arcs, h, j)
        BY <1>9, <2>1, <4>1 DEF HasSlots
      <4> QED  BY <2>3, <2>5, <4>1, <4>2
    <3> QED  BY <3>1, <3>2
  <2>7. ASSUME NEW v \in 1 .. n PROVE filled[j].cursor[v] = h[v] + Rank(arcs, j, v)
    <3>1. /\ Rank(arcs, j, v) = Rank(arcs, k, v) + (IF a.to = v THEN 1 ELSE 0)
          /\ Rank(arcs, k, v) \in Nat
      <4>1. k \in Nat
        <5>1. \A i \in 0 .. m - 1 : i \in Nat  BY <1>0
        <5> QED  BY <5>1
      <4>2. HasRanks(arcs, v)  BY RankFacts
      <4>3. Rank(arcs, k + 1, v) = Rank(arcs, k, v) + (IF arcs[k + 1].to = v THEN 1 ELSE 0)
        BY <4>1, <4>2 DEF HasRanks
      <4>4. Rank(arcs, k, v) \in Nat  BY <4>1, <4>2 DEF HasRanks
      <4> QED  BY <4>3, <4>4
    <3>2. r.cursor[v] = h[v] + Rank(arcs, k, v) /\ h[v] \in Nat /\ v \in 1 .. n + 1
      <4>1. r.cursor[v] = h[v] + Rank(arcs, k, v)  BY <2>3
      <4>2. v \in 1 .. n + 1  OBVIOUS
      <4>3. h[v] \in Nat  BY <1>0, <4>2
      <4> QED  BY <4>1, <4>2, <4>3
    <3>3. CASE a.to = v
      <4>1. filled[j].cursor[v] = r.cursor[v] + 1  BY <2>3, <2>5, <3>2, <3>3
      <4>2. Rank(arcs, j, v) = Rank(arcs, k, v) + 1  BY <3>1, <3>3
      <4> QED  BY <3>1, <3>2, <4>1, <4>2
    <3>4. CASE a.to # v
      <4>1. filled[j].cursor[v] = r.cursor[v]  BY <2>3, <2>5, <3>2, <3>4
      <4>2. Rank(arcs, j, v) = Rank(arcs, k, v) + 0  BY <3>1, <3>4
      <4> QED  BY <3>1, <3>2, <4>1, <4>2
    <3> QED  BY <3>3, <3>4
  <2>8. filled[j] \in S  BY <1>2, <2>1
  <2>9. Good(j)  BY <2>6, <2>7, <2>8
  <2> QED  BY <2>1, <2>9
<1>12. m \in T
  <2>1. 0 \in Int /\ m \in Int /\ m \in 0 .. m /\ \A k \in 0 .. m - 1 : k \in T => k + 1 \in T
    <3> HIDE DEF T
    <3> QED  BY <1>0, <1>11
  <2> HIDE DEF T
  <2>2. 0 .. m \subseteq T  BY <1>10, <2>1, IntervalInduction
  <2> QED  BY <2>1, <2>2
<1> DEFINE edges == filled[m].edges
<1>13. edges \in [1 .. m -> Cell] /\ \A i \in 1 .. m : edges[Slot(arcs, h, i)] = Back(arcs[i])
  BY <1>12 DEF S
<1> HIDE DEF edges
<1>14. edges \in Seq(Cell) /\ Len(edges) = m
  <2> HIDE DEF Cell
  <2> QED  BY <1>0, <1>13
<1>15. Reversed(arcs, h) = edges  BY <1>b DEF edges
<1>16. IsFilled(edges, arcs, h)  BY <1>13, <1>14 DEF IsFilled, m
<1> QED  BY <1>15, <1>16

\* The block of a node holds its incoming arcs, turned round, by their tails.
HasTurned(b, arcs, v) ==
  /\ Increasing(b)
  /\ ToSet(b) = {Back(a) : a \in {a \in ToSet(arcs) : a.to = v}}
LEMMA InBlockFacts ==
  ASSUME NEW n \in Nat, NEW arcs \in Seq(Arc(n)), AreSorted(arcs), NEW h, AreHeads(h, n, arcs),
         NEW edges, IsFilled(edges, arcs, h), NEW v \in 1 .. n
  PROVE  HasTurned(Block(h, edges, v), arcs, v)
<1> DEFINE m == Len(arcs)
           c == Rank(arcs, m, v)
           b == Block(h, edges, v)
           Cell == [to : Nat, cost : Nat]
           x == h[v]
<1>0. m \in Nat /\ DOMAIN arcs = 1 .. m /\ \A i \in 1 .. m : arcs[i] \in Arc(n)  OBVIOUS
<1>1. x \in Nat /\ h[v + 1] = x + c /\ c \in Nat
  <2>1. v \in 1 .. n + 1 /\ m \in Nat  OBVIOUS
  <2>2. c \in Nat  BY <2>1, RankFacts DEF HasRanks
  <2>3. h[v] \in Nat  BY <2>1 DEF AreHeads
  <2>4. h[v + 1] = h[v] + Rank(arcs, Len(arcs), v)  BY DEF AreHeads
  <2> QED  BY <2>2, <2>3, <2>4
<1>2. HasSlots(arcs, h, m)  BY SlotFacts
<1>3. edges \in Seq(Cell) /\ Len(edges) = m /\ \A i \in 1 .. m : edges[Slot(arcs, h, i)] = Back(arcs[i])
  BY DEF IsFilled
<1>a. AreSorted(arcs) /\ HasRanks(arcs, v)  BY RankFacts
<1> HIDE DEF Cell
<1>4. ASSUME NEW k \in 1 .. c
      PROVE  \E i \in 1 .. m : /\ arcs[i].to = v /\ Rank(arcs, i, v) = k
                               /\ x + k \in 1 .. m /\ edges[x + k] = Back(arcs[i])
  <2>1. PICK i \in 1 .. m : arcs[i].to = v /\ Rank(arcs, i, v) = k  BY <1>0, RankReached
  <2>2. Slot(arcs, h, i) = x + k  BY <2>1 DEF Slot
  <2>3. Slot(arcs, h, i) \in 1 .. m  BY <1>2 DEF HasSlots
  <2> QED  BY <1>3, <2>1, <2>2, <2>3
<1>5. x + c <= m \/ c = 0
  <2>1. CASE c # 0
    <3>1. c \in 1 .. c  BY <1>1, <2>1
    <3>2. x + c \in 1 .. m  BY <1>4, <3>1
    <3> QED  BY <1>0, <3>2
  <2> QED  BY <2>1
<1> HIDE DEF m, c, x
<1>6. Len(b) = c /\ DOMAIN b = 1 .. c /\ \A k \in 1 .. c : b[k] = edges[x + k]
  <2>1. b = SubSeq(edges, x + 1, x + c)  BY <1>1 DEF Block, x
  <2>2. x + 1 \in Nat /\ x + c \in Nat /\ edges \in Seq(Cell) /\ Len(edges) \in Nat  BY <1>1, <1>3
  <2> HIDE DEF b
  <2>3. CASE c = 0
    <3>1. Len(b) = 0  BY <1>1, <2>1, <2>2, <2>3
    <3>2. DOMAIN b = 1 .. 0  BY <2>1, <2>2, <3>1
    <3> QED  BY <2>3, <3>1, <3>2
  <2>4. CASE x + c <= m
    <3>1. x + c <= Len(edges)  BY <1>3, <2>4
    <3>2. Len(b) = c /\ \A k \in 1 .. c : b[k] = edges[x + k]  BY <1>1, <2>1, <2>2, <3>1
    <3>3. DOMAIN b = 1 .. c  BY <2>1, <2>2, <3>2
    <3> QED  BY <3>2, <3>3
  <2> QED  BY <1>5, <2>3, <2>4
<1> HIDE DEF b
<1>7. Increasing(b)
  <2> SUFFICES ASSUME NEW k \in 1 .. c, NEW l \in 1 .. c, k < l PROVE b[k].to < b[l].to
    BY <1>6 DEF Increasing
  <2>1. PICK i \in 1 .. m : Rank(arcs, i, v) = k /\ arcs[i].to = v /\ edges[x + k] = Back(arcs[i])
    BY <1>4
  <2>2. PICK j \in 1 .. m : Rank(arcs, j, v) = l /\ arcs[j].to = v /\ edges[x + l] = Back(arcs[j])
    BY <1>4
  <2>3. i < j
    <3> SUFFICES ASSUME j <= i PROVE FALSE  BY <1>0
    <3>1. i \in Nat /\ j \in Nat  BY <1>0
    <3>2. Rank(arcs, j, v) <= Rank(arcs, i, v)  BY <1>a, <3>1 DEF HasRanks
    <3>3. l <= k /\ l \in Nat /\ k \in Nat  BY <1>1, <2>1, <2>2, <3>2
    <3> QED  BY <3>3
  <2>4. arcs[i].from < arcs[j].from
    <3>1. \/ arcs[i].from < arcs[j].from
          \/ arcs[i].from = arcs[j].from /\ arcs[i].to < arcs[j].to
      BY <1>a, <2>3 DEF AreSorted, m
    <3>2. ~(v < v)  OBVIOUS
    <3> QED  BY <2>1, <2>2, <3>1, <3>2
  <2>5. b[k].to = arcs[i].from /\ b[l].to = arcs[j].from  BY <1>6, <2>1, <2>2 DEF Back
  <2> QED  BY <2>4, <2>5
<1>8. ToSet(b) = {Back(a) : a \in {a \in ToSet(arcs) : a.to = v}}
  <2>1. ToSet(b) = {b[k] : k \in 1 .. c} /\ ToSet(arcs) = {arcs[i] : i \in 1 .. m}
    BY <1>0, <1>6 DEF ToSet
  <2>2. ASSUME NEW k \in 1 .. c PROVE \E i \in 1 .. m : arcs[i].to = v /\ b[k] = Back(arcs[i])
    BY <1>4, <1>6
  <2>3. ASSUME NEW i \in 1 .. m, arcs[i].to = v PROVE \E k \in 1 .. c : b[k] = Back(arcs[i])
    <3> DEFINE k == Rank(arcs, i, v)
    <3>1. k \in 1 .. c
      <4>1. i \in Nat /\ i - 1 \in Nat /\ m \in Nat /\ i <= m /\ (i - 1) + 1 = i  BY <1>0
      <4>2. k <= c /\ k \in Nat  BY <1>a, <4>1 DEF HasRanks, c
      <4>3. k = Rank(arcs, i - 1, v) + 1 /\ Rank(arcs, i - 1, v) \in Nat
        <5>1. Rank(arcs, (i - 1) + 1, v) = Rank(arcs, i - 1, v) + (IF arcs[(i - 1) + 1].to = v THEN 1 ELSE 0)
          BY <1>a, <4>1 DEF HasRanks
        <5>2. Rank(arcs, i - 1, v) \in Nat  BY <1>a, <4>1 DEF HasRanks
        <5> QED  BY <2>3, <4>1, <5>1, <5>2
      <4> HIDE DEF k
      <4> QED  BY <1>1, <4>2, <4>3
    <3>2. Slot(arcs, h, i) = x + k  BY <2>3 DEF Slot, x
    <3> QED  BY <1>3, <1>6, <3>1, <3>2
  <2> HIDE DEF Back
  <2>4. ToSet(b) \subseteq {Back(a) : a \in {a \in ToSet(arcs) : a.to = v}}
    <3> SUFFICES ASSUME NEW k \in 1 .. c PROVE \E a \in ToSet(arcs) : a.to = v /\ b[k] = Back(a)
      BY <2>1
    <3> QED  BY <2>1, <2>2
  <2>5. {Back(a) : a \in {a \in ToSet(arcs) : a.to = v}} \subseteq ToSet(b)
    <3> SUFFICES ASSUME NEW a \in ToSet(arcs), a.to = v PROVE Back(a) \in ToSet(b)
      OBVIOUS
    <3>1. PICK i \in 1 .. m : a = arcs[i]  BY <2>1
    <3>2. \E k \in 1 .. c : b[k] = Back(arcs[i])  BY <2>3, <3>1
    <3> QED  BY <2>1, <3>1, <3>2
  <2> QED  BY <2>4, <2>5
<1> QED  BY <1>7, <1>8 DEF HasTurned, b

\* What deduplication leaves of the lists are the cheapest arcs, under their ids.
IsNamed(ids, n) == DOMAIN ids = 1 .. n /\ \A u, v \in 1 .. n : ids[u] = ids[v] => u = v
AreRoads(A, ids, n) ==
  \A a \in A : a = <<a[1], a[2], a[3]>> /\ \E u, v \in 1 .. n : a[1] = ids[u] /\ a[2] = ids[v]
Named(ids, v, e) == <<ids[v], ids[e.to], e.cost>>
HasCheapest(out, n, ids, wanted) ==
  /\ \A v \in 1 .. n : \A e \in ToSet(out[v]) : Named(ids, v, e) \in wanted
  /\ \A a \in wanted : \E v \in 1 .. n : \E e \in ToSet(out[v]) : a = Named(ids, v, e)
AreKept(out, n, adj) ==
  \A v \in 1 .. n : /\ adj[v] \in Seq(Edge(n)) /\ out[v] \in Seq(Edge(n))
                    /\ Increasing(out[v]) /\ IsCheapest(out[v], adj[v])
LEMMA CheapestKept ==
  ASSUME NEW n \in Nat, NEW ids, IsNamed(ids, n), NEW A, AreRoads(A, ids, n),
         NEW adj, HasListed(adj, n, ids, A), NEW out, AreKept(out, n, adj)
  PROVE  HasCheapest(out, n, ids, Cheapest(A))
<1>1. \A v \in 1 .. n : IndexIn(ids, ids[v]) = v
  BY DEF IsNamed, IndexIn
<1>2. ASSUME NEW a \in A
      PROVE  \E v \in 1 .. n : \E w \in 1 .. n :
               /\ a[1] = ids[v] /\ a[2] = ids[w] /\ a = <<ids[v], ids[w], a[3]>>
               /\ IndexIn(ids, a[1]) = v /\ EdgeFor(ids, a) = [to |-> w, cost |-> a[3]]
  <2>1. a = <<a[1], a[2], a[3]>> /\ \E u, v \in 1 .. n : a[1] = ids[u] /\ a[2] = ids[v]
    BY DEF AreRoads
  <2>2. PICK v \in 1 .. n, w \in 1 .. n : a[1] = ids[v] /\ a[2] = ids[w]  BY <2>1
  <2>3. IndexIn(ids, a[1]) = v /\ IndexIn(ids, a[2]) = w  BY <1>1, <2>2
  <2> QED  BY <2>1, <2>2, <2>3 DEF EdgeFor
<1>3. ASSUME NEW v \in 1 .. n, NEW e \in ToSet(adj[v])
      PROVE  Named(ids, v, e) \in A
  <2>1. PICK a \in A : IndexIn(ids, a[1]) = v /\ e = EdgeFor(ids, a)  BY DEF HasListed
  <2>2. PICK u \in 1 .. n : \E w \in 1 .. n :
               /\ a[1] = ids[u] /\ a[2] = ids[w] /\ a = <<ids[u], ids[w], a[3]>>
               /\ IndexIn(ids, a[1]) = u /\ EdgeFor(ids, a) = [to |-> w, cost |-> a[3]]
    BY <1>2
  <2>3. PICK w \in 1 .. n :
               /\ a[1] = ids[u] /\ a[2] = ids[w] /\ a = <<ids[u], ids[w], a[3]>>
               /\ IndexIn(ids, a[1]) = u /\ EdgeFor(ids, a) = [to |-> w, cost |-> a[3]]
    BY <2>2
  <2>4. u = v /\ e.to = w /\ e.cost = a[3]  BY <2>1, <2>3
  <2>5. Named(ids, v, e) = <<ids[u], ids[w], a[3]>>  BY <2>4 DEF Named
  <2>6. Named(ids, v, e) = a  BY <2>3, <2>5
  <2> QED  BY <2>6
<1>4. ASSUME NEW a \in A
      PROVE  \E v \in 1 .. n : \E e \in ToSet(adj[v]) : a = Named(ids, v, e)
  <2>1. PICK v \in 1 .. n : \E w \in 1 .. n :
               /\ a[1] = ids[v] /\ a[2] = ids[w] /\ a = <<ids[v], ids[w], a[3]>>
               /\ IndexIn(ids, a[1]) = v /\ EdgeFor(ids, a) = [to |-> w, cost |-> a[3]]
    BY <1>2
  <2>2. PICK w \in 1 .. n :
               /\ a[1] = ids[v] /\ a[2] = ids[w] /\ a = <<ids[v], ids[w], a[3]>>
               /\ IndexIn(ids, a[1]) = v /\ EdgeFor(ids, a) = [to |-> w, cost |-> a[3]]
    BY <2>1
  <2>3. EdgeFor(ids, a) \in ToSet(adj[v])  BY <2>2 DEF HasListed
  <2>4. a = Named(ids, v, EdgeFor(ids, a))  BY <2>2 DEF Named
  <2> QED  BY <2>3, <2>4
<1>5. \A v \in 1 .. n : \A d, e \in ToSet(out[v]) : d.to = e.to => d = e
  <2> SUFFICES ASSUME NEW v \in 1 .. n, NEW d \in ToSet(out[v]), NEW e \in ToSet(out[v]), d.to = e.to
               PROVE  d = e
    OBVIOUS
  <2> DEFINE s == out[v]
  <2>1. s \in Seq(Edge(n)) /\ Increasing(s)  BY DEF AreKept
  <2>2. d \in ToSet(s) /\ e \in ToSet(s)  OBVIOUS
  <2> HIDE DEF s
  <2>3. DOMAIN s = 1 .. Len(s) /\ Len(s) \in Nat /\ \A k \in 1 .. Len(s) : s[k] \in Edge(n)  BY <2>1
  <2>4. PICK i \in 1 .. Len(s) : d = s[i]  BY <2>2, <2>3 DEF ToSet
  <2>5. PICK j \in 1 .. Len(s) : e = s[j]  BY <2>2, <2>3 DEF ToSet
  <2>6. s[i].to \in Nat /\ s[j].to \in Nat  BY <2>3 DEF Edge
  <2>7. ~(s[i].to < s[j].to) /\ ~(s[j].to < s[i].to)  BY <2>4, <2>5, <2>6
  <2>8. ~(i < j) /\ ~(j < i)  BY <2>1, <2>7 DEF Increasing
  <2>9. i = j  BY <2>3, <2>8
  <2> QED  BY <2>4, <2>5, <2>9
<1>6. \A v \in 1 .. n : /\ \A e \in ToSet(out[v]) : e \in ToSet(adj[v])
                        /\ \A d \in ToSet(adj[v]) : \E e \in ToSet(out[v]) : e.to = d.to /\ e.cost <= d.cost
                        /\ \A d \in ToSet(adj[v]) : d.to \in 1 .. n /\ d.cost \in Nat
  <2> TAKE v \in 1 .. n
  <2>1. IsCheapest(out[v], adj[v]) /\ adj[v] \in Seq(Edge(n))  BY DEF AreKept
  <2>2. \A d \in ToSet(adj[v]) : d \in Edge(n)  BY <2>1, SeqOfItself
  <2> QED  BY <2>1, <2>2 DEF IsCheapest, Edge
<1>7. ASSUME NEW v \in 1 .. n, NEW e \in ToSet(out[v])
      PROVE  Named(ids, v, e) \in Cheapest(A)
  <2> DEFINE a == Named(ids, v, e)
  <2>1. a \in A  BY <1>3, <1>6
  <2>2. ASSUME NEW b \in A, b[1] = a[1], b[2] = a[2] PROVE a[3] <= b[3]
    <3>1. PICK w \in 1 .. n : \E d \in ToSet(adj[w]) : b = Named(ids, w, d)  BY <1>4
    <3>2. PICK d \in ToSet(adj[w]) : b = Named(ids, w, d)  BY <3>1
    <3>3. ids[w] = ids[v] /\ ids[d.to] = ids[e.to]  BY <2>2, <3>2 DEF Named
    <3>4. w = v /\ d.to = e.to  BY <1>6, <3>3 DEF IsNamed
    <3>5. PICK c \in ToSet(out[v]) : c.to = d.to /\ c.cost <= d.cost  BY <1>6, <3>4
    <3>6. c = e  BY <1>5, <3>4, <3>5
    <3>7. a[3] = e.cost /\ b[3] = d.cost  BY <3>2 DEF Named
    <3> QED  BY <3>5, <3>6, <3>7
  <2> HIDE DEF a
  <2>3. a \in Cheapest(A)  BY <2>1, <2>2 DEF Cheapest
  <2> QED  BY <2>3 DEF a
<1>8. ASSUME NEW a \in Cheapest(A)
      PROVE  \E v \in 1 .. n : \E e \in ToSet(out[v]) : a = Named(ids, v, e)
  <2>1. a \in A /\ \A b \in A : b[1] = a[1] /\ b[2] = a[2] => a[3] <= b[3]  BY DEF Cheapest
  <2>2. PICK v \in 1 .. n : \E d \in ToSet(adj[v]) : a = Named(ids, v, d)  BY <1>4, <2>1
  <2>3. PICK d \in ToSet(adj[v]) : a = Named(ids, v, d)  BY <2>2
  <2>4. PICK e \in ToSet(out[v]) : e.to = d.to /\ e.cost <= d.cost  BY <1>6
  <2>5. Named(ids, v, e) \in A  BY <1>3, <1>6
  <2>6. /\ Named(ids, v, e)[1] = a[1] /\ Named(ids, v, e)[2] = a[2]
        /\ Named(ids, v, e)[3] = e.cost /\ a[3] = d.cost
    BY <2>3, <2>4 DEF Named
  <2>7. d.cost <= e.cost  BY <2>1, <2>5, <2>6
  <2>8. e.cost \in Nat /\ d.cost \in Nat  BY <1>6
  <2>9. e.cost = d.cost  BY <2>4, <2>7, <2>8
  <2>10. a = Named(ids, v, e)  BY <2>3, <2>4, <2>9 DEF Named
  <2> QED  BY <2>10
<1> QED  BY <1>7, <1>8 DEF HasCheapest

\* The arcs of the lists are as many as the roads they stand for.
HoldsArcs(arcs, n, out) ==
  /\ \A a \in ToSet(arcs) : \E v \in 1 .. n : \E e \in ToSet(out[v]) : a = ArcOf(v, e)
  /\ \A v \in 1 .. n : \A e \in ToSet(out[v]) : e \in Edge(n) /\ ArcOf(v, e) \in ToSet(arcs)
LEMMA ArcsHeld ==
  ASSUME NEW n \in Nat, NEW out, \A v \in 1 .. n : out[v] \in Seq(Edge(n)),
         NEW arcs, AreArcs(arcs, n, out)
  PROVE  HoldsArcs(arcs, n, out)
<1> DEFINE Ends == {a \in (1 .. n) \X Edge(n) : a[2] \in ToSet(out[a[1]])}
<1>1. ToSet(arcs) = {ArcOf(a[1], a[2]) : a \in Ends}  BY DEF AreArcs
<1>2. \A v \in 1 .. n : \A e \in ToSet(out[v]) : e \in Edge(n)
  <2> TAKE v \in 1 .. n
  <2>1. out[v] \in Seq(Edge(n))  OBVIOUS
  <2> QED  BY <2>1, SeqOfItself
<1>3. \A a \in Ends : a[1] \in 1 .. n /\ a[2] \in ToSet(out[a[1]])  OBVIOUS
<1>4. \A v \in 1 .. n : \A e \in ToSet(out[v]) : <<v, e>> \in Ends /\ <<v, e>>[1] = v /\ <<v, e>>[2] = e
  BY <1>2
<1> HIDE DEF Ends
<1>5. ASSUME NEW a \in ToSet(arcs) PROVE \E v \in 1 .. n : \E e \in ToSet(out[v]) : a = ArcOf(v, e)
  <2>1. PICK x \in Ends : a = ArcOf(x[1], x[2])  BY <1>1
  <2> QED  BY <1>3, <2>1
<1>6. ASSUME NEW v \in 1 .. n, NEW e \in ToSet(out[v]) PROVE ArcOf(v, e) \in ToSet(arcs)
  <2>1. <<v, e>> \in Ends /\ ArcOf(<<v, e>>[1], <<v, e>>[2]) = ArcOf(v, e)  BY <1>4
  <2> QED  BY <1>1, <2>1
<1> QED  BY <1>2, <1>5, <1>6 DEF HoldsArcs

LEMMA ArcsCounted ==
  ASSUME NEW n \in Nat, NEW ids, IsNamed(ids, n), NEW out, NEW arcs, AreSorted(arcs),
         arcs \in Seq(Arc(n)), HoldsArcs(arcs, n, out), NEW wanted, HasCheapest(out, n, ids, wanted)
  PROVE  Len(arcs) = Cardinality(wanted)
<1> DEFINE m == Len(arcs)
           named(a) == <<ids[a.from], ids[a.to], a.cost>>
           f == [p \in 1 .. m |-> named(arcs[p])]
<1>1. m \in Nat /\ DOMAIN arcs = 1 .. m /\ \A p \in 1 .. m : arcs[p] \in Arc(n)  OBVIOUS
<1> HIDE DEF m
<1>2. ToSet(arcs) = {arcs[p] : p \in 1 .. m}  BY <1>1 DEF ToSet
<1>3. \A v \in 1 .. n : \A e \in ToSet(out[v]) : named(ArcOf(v, e)) = Named(ids, v, e)
  BY DEF ArcOf, Named
<1>4. \A p \in 1 .. m : f[p] \in wanted
  <2> TAKE p \in 1 .. m
  <2>1. arcs[p] \in ToSet(arcs)  BY <1>2
  <2>2. PICK v \in 1 .. n : \E e \in ToSet(out[v]) : arcs[p] = ArcOf(v, e)  BY <2>1 DEF HoldsArcs
  <2>3. PICK e \in ToSet(out[v]) : arcs[p] = ArcOf(v, e)  BY <2>2
  <2>4. f[p] = named(arcs[p])  OBVIOUS
  <2> HIDE DEF named
  <2>5. f[p] = Named(ids, v, e)  BY <1>3, <2>3, <2>4
  <2> QED  BY <2>5 DEF HasCheapest
<1>5. \A a \in wanted : \E p \in 1 .. m : f[p] = a
  <2> TAKE a \in wanted
  <2>1. PICK v \in 1 .. n : \E e \in ToSet(out[v]) : a = Named(ids, v, e)  BY DEF HasCheapest
  <2>2. PICK e \in ToSet(out[v]) : a = Named(ids, v, e)  BY <2>1
  <2>3. ArcOf(v, e) \in ToSet(arcs)  BY DEF HoldsArcs
  <2>4. PICK p \in 1 .. m : ArcOf(v, e) = arcs[p]  BY <1>2, <2>3
  <2>5. f[p] = named(arcs[p])  OBVIOUS
  <2> HIDE DEF named
  <2> QED  BY <1>3, <2>2, <2>4, <2>5
<1>6. \A p, q \in 1 .. m : f[p] = f[q] => p = q
  <2> SUFFICES ASSUME NEW p \in 1 .. m, NEW q \in 1 .. m, p < q PROVE f[p] # f[q]
    BY <1>1
  <2>1. \/ arcs[p].from < arcs[q].from
        \/ arcs[p].from = arcs[q].from /\ arcs[p].to < arcs[q].to
    BY DEF AreSorted, m
  <2> DEFINE u == arcs[p].from
             v == arcs[q].from
             w == arcs[p].to
             x == arcs[q].to
  <2>2. u \in 1 .. n /\ v \in 1 .. n /\ w \in 1 .. n /\ x \in 1 .. n
    <3>1. arcs[p] \in Arc(n) /\ arcs[q] \in Arc(n)  BY <1>1
    <3> QED  BY <3>1 DEF Arc
  <2>3. u # v \/ w # x
    <3>1. u < v \/ w < x  BY <2>1
    <3> HIDE DEF u, v, w, x
    <3> QED  BY <2>2, <3>1
  <2>4. ids[u] # ids[v] \/ ids[w] # ids[x]
    <3> HIDE DEF u, v, w, x
    <3> QED  BY <2>2, <2>3 DEF IsNamed
  <2>5. f[p] = <<ids[u], ids[w], arcs[p].cost>> /\ f[q] = <<ids[v], ids[x], arcs[q].cost>>  OBVIOUS
  <2> HIDE DEF f, u, v, w, x
  <2> QED  BY <2>4, <2>5
<1>7. f \in Bijection(1 .. m, wanted)
  <2>1. f \in [1 .. m -> wanted]  BY <1>4
  <2> HIDE DEF f
  <2>2. f \in Injection(1 .. m, wanted)  BY <1>6, <2>1 DEF Injection, IsInjective
  <2>3. f \in Surjection(1 .. m, wanted)  BY <1>5, <2>1 DEF Surjection
  <2> QED  BY <2>2, <2>3 DEF Bijection
<1> HIDE DEF f
<1>8. ExistsBijection(1 .. m, wanted)  BY <1>7 DEF ExistsBijection
<1>9. IsFiniteSet(1 .. m) /\ Cardinality(1 .. m) = m
  <2>1. IsFiniteSet(1 .. m) /\ Cardinality(1 .. m) = IF 1 > m THEN 0 ELSE m - 1 + 1  BY <1>1, FS_Interval
  <2> QED  BY <1>1, <2>1
<1>10. Cardinality(wanted) = m  BY <1>8, <1>9, FS_Bijection
<1> QED  BY <1>10 DEF m

\* The compacted graph: outgoing and incoming arcs, their number and whether all of
\* them have an arc back.
HoldsBoth(g, out, n) ==
  /\ \A v \in 1 .. n : OutEdges(g, v) = out[v]
  /\ \A v \in 1 .. n : Increasing(InEdges(g, v))
  /\ \A v \in 1 .. n : \A d \in ToSet(InEdges(g, v)) :
       \E u \in 1 .. n : \E e \in ToSet(out[u]) : e.to = v /\ d = Back(ArcOf(u, e))
  /\ \A u \in 1 .. n : \A e \in ToSet(out[u]) :
       e.to \in 1 .. n /\ Back(ArcOf(u, e)) \in ToSet(InEdges(g, e.to))
  /\ g.directed <=> \E v \in 1 .. n : \E e \in ToSet(out[v]) : \A b \in ToSet(out[e.to]) : b.to # v
LEMMA CompactedBoth ==
  ASSUME NEW n \in Nat, n # 0, NEW nodes, Len(nodes) = n, NEW out \in [1 .. n -> Seq(Edge(n))],
         \A v \in 1 .. n : Increasing(out[v])
  PROVE  HoldsBoth(Compacted(nodes, out), out, n)
<1> DEFINE g == Compacted(nodes, out)
           arcs == TailByTail(out)
           h == Offsets([v \in 1 .. n |-> Rank(arcs, Len(arcs), v)])
           edges == Reversed(arcs, h)
<1>1. AreArcs(arcs, n, out)  BY TailByTailFacts
<1>2. HoldsArcs(arcs, n, out)
  <2>1. \A v \in 1 .. n : out[v] \in Seq(Edge(n))  OBVIOUS
  <2> HIDE DEF arcs
  <2> QED  BY <1>1, <2>1, ArcsHeld
<1>3. arcs \in Seq(Arc(n)) /\ AreSorted(arcs) /\ DOMAIN arcs = 1 .. Len(arcs)
  <2>1. arcs \in Seq(Arc(n)) /\ AreSorted(arcs)  BY <1>1 DEF AreArcs
  <2> HIDE DEF arcs
  <2> QED  BY <2>1
<1>4. g.inOffsets = h /\ g.inEdges = edges /\ g.directed = DetectDirected(out)
  <2> DEFINE o == Offsets([v \in 1 .. n |-> Cardinality({k \in DOMAIN arcs : arcs[k].to = v})])
  <2>1. g.inOffsets = o /\ g.inEdges = Reversed(arcs, o) /\ g.directed = DetectDirected(out)
    BY DEF Compacted
  <2>2. o = h  BY <1>3 DEF Rank
  <2> HIDE DEF o, h
  <2> QED  BY <2>1, <2>2
<1> HIDE DEF arcs
<1>5. AreHeads(h, n, arcs)  BY <1>3, HeadsFacts
<1> HIDE DEF h
<1>6. IsFilled(edges, arcs, h)  BY <1>3, <1>5, ReversedFacts
<1> HIDE DEF edges
<1>7. \A v \in 1 .. n : HasTurned(InEdges(g, v), arcs, v)
  <2> TAKE v \in 1 .. n
  <2>1. HasTurned(Block(h, edges, v), arcs, v)  BY <1>3, <1>5, <1>6, InBlockFacts
  <2> QED  BY <1>4, <2>1 DEF InEdges
<1>8. \A v \in 1 .. n : OutEdges(g, v) = out[v]  BY CompactedBlocks DEF KeepsBlocks
<1>9. g.directed <=> \E v \in 1 .. n : \E e \in ToSet(out[v]) : \A b \in ToSet(out[e.to]) : b.to # v
  BY <1>4 DEF DetectDirected
<1> HIDE DEF g
<1>10. ASSUME NEW v \in 1 .. n, NEW d \in ToSet(InEdges(g, v))
       PROVE  \E u \in 1 .. n : \E e \in ToSet(out[u]) : e.to = v /\ d = Back(ArcOf(u, e))
  <2>1. PICK a \in ToSet(arcs) : a.to = v /\ d = Back(a)  BY <1>7 DEF HasTurned
  <2>2. PICK u \in 1 .. n : \E e \in ToSet(out[u]) : a = ArcOf(u, e)  BY <1>2 DEF HoldsArcs
  <2>3. PICK e \in ToSet(out[u]) : a = ArcOf(u, e)  BY <2>2
  <2>4. e.to = v  BY <2>1, <2>3 DEF ArcOf
  <2> QED  BY <2>1, <2>3, <2>4
<1>11. ASSUME NEW u \in 1 .. n, NEW e \in ToSet(out[u])
       PROVE  e.to \in 1 .. n /\ Back(ArcOf(u, e)) \in ToSet(InEdges(g, e.to))
  <2>1. e \in Edge(n) /\ ArcOf(u, e) \in ToSet(arcs)  BY <1>2 DEF HoldsArcs
  <2>2. e.to \in 1 .. n /\ ArcOf(u, e).to = e.to  BY <2>1 DEF Edge, ArcOf
  <2>3. HasTurned(InEdges(g, e.to), arcs, e.to)  BY <1>7, <2>2
  <2> QED  BY <2>1, <2>2, <2>3 DEF HasTurned
<1>12. \A v \in 1 .. n : Increasing(InEdges(g, v))  BY <1>7 DEF HasTurned
<1> QED  BY <1>8, <1>9, <1>10, <1>11, <1>12 DEF HoldsBoth, g

\* A graph with the cheapest arcs in both directions is what was asked for.
LEMMA ExactlyThose ==
  ASSUME NEW n \in Nat, NEW ids, IsNamed(ids, n), NEW out, NEW wanted,
         HasCheapest(out, n, ids, wanted), \A v \in 1 .. n : Increasing(out[v]),
         NEW g, HoldsBoth(g, out, n), g.edgeCount = Cardinality(wanted),
         DOMAIN g.nodes = 1 .. n, \A v \in 1 .. n : g.nodes[v].id = ids[v]
  PROVE  HasExactly(g, wanted)
<1>1. \A v \in 1 .. n : \A e \in ToSet(out[v]) :
        <<g.nodes[v].id, g.nodes[e.to].id, e.cost>> = Named(ids, v, e)
  <2> TAKE v \in 1 .. n
  <2> TAKE e \in ToSet(out[v])
  <2>1. e.to \in 1 .. n  BY DEF HoldsBoth
  <2>2. g.nodes[v].id = ids[v] /\ g.nodes[e.to].id = ids[e.to]  BY <2>1
  <2> QED  BY <2>2 DEF Named
<1>2. UNION {{<<g.nodes[v].id, g.nodes[e.to].id, e.cost>> : e \in ToSet(OutEdges(g, v))} : v \in 1 .. n} = wanted
  <2> DEFINE A == UNION {{<<g.nodes[v].id, g.nodes[e.to].id, e.cost>> : e \in ToSet(OutEdges(g, v))} : v \in 1 .. n}
             B == UNION {{Named(ids, v, e) : e \in ToSet(out[v])} : v \in 1 .. n}
  <2>1. A = B
    <3>1. \A v \in 1 .. n : {<<g.nodes[v].id, g.nodes[e.to].id, e.cost>> : e \in ToSet(OutEdges(g, v))}
                              = {Named(ids, v, e) : e \in ToSet(out[v])}
      <4> TAKE v \in 1 .. n
      <4>1. OutEdges(g, v) = out[v]  BY DEF HoldsBoth
      <4> HIDE DEF Named
      <4> QED  BY <1>1, <4>1
    <3> QED  BY <3>1
  <2>2. B = wanted
    <3> HIDE DEF Named
    <3>1. ASSUME NEW x \in B PROVE x \in wanted
      <4>1. PICK v \in 1 .. n : x \in {Named(ids, v, e) : e \in ToSet(out[v])}  OBVIOUS
      <4>2. PICK e \in ToSet(out[v]) : x = Named(ids, v, e)  BY <4>1
      <4> QED  BY <4>2 DEF HasCheapest
    <3>2. ASSUME NEW x \in wanted PROVE x \in B
      <4>1. PICK v \in 1 .. n : \E e \in ToSet(out[v]) : x = Named(ids, v, e)  BY DEF HasCheapest
      <4> QED  BY <4>1
    <3> QED  BY <3>1, <3>2
  <2> QED  BY <2>1, <2>2
<1>3. UNION {{<<g.nodes[e.to].id, g.nodes[v].id, e.cost>> : e \in ToSet(InEdges(g, v))} : v \in 1 .. n} = wanted
  <2> DEFINE A == UNION {{<<g.nodes[e.to].id, g.nodes[v].id, e.cost>> : e \in ToSet(InEdges(g, v))} : v \in 1 .. n}
  <2>0. ASSUME NEW u \in 1 .. n, NEW e \in ToSet(out[u])
        PROVE  <<g.nodes[Back(ArcOf(u, e)).to].id, g.nodes[e.to].id, Back(ArcOf(u, e)).cost>> = Named(ids, u, e)
    <3>1. Back(ArcOf(u, e)).to = u /\ Back(ArcOf(u, e)).cost = e.cost  BY DEF Back, ArcOf
    <3> QED  BY <1>1, <3>1
  <2>1. ASSUME NEW x \in A PROVE x \in wanted
    <3>1. PICK v \in 1 .. n : x \in {<<g.nodes[d.to].id, g.nodes[v].id, d.cost>> : d \in ToSet(InEdges(g, v))}
      OBVIOUS
    <3>2. PICK d \in ToSet(InEdges(g, v)) : x = <<g.nodes[d.to].id, g.nodes[v].id, d.cost>>  BY <3>1
    <3>3. PICK u \in 1 .. n : \E e \in ToSet(out[u]) : e.to = v /\ d = Back(ArcOf(u, e))  BY DEF HoldsBoth
    <3>4. PICK e \in ToSet(out[u]) : e.to = v /\ d = Back(ArcOf(u, e))  BY <3>3
    <3>5. x = Named(ids, u, e)  BY <2>0, <3>2, <3>4
    <3> QED  BY <3>5 DEF HasCheapest
  <2>2. ASSUME NEW x \in wanted PROVE x \in A
    <3>1. PICK u \in 1 .. n : \E e \in ToSet(out[u]) : x = Named(ids, u, e)  BY DEF HasCheapest
    <3>2. PICK e \in ToSet(out[u]) : x = Named(ids, u, e)  BY <3>1
    <3>3. e.to \in 1 .. n /\ Back(ArcOf(u, e)) \in ToSet(InEdges(g, e.to))  BY DEF HoldsBoth
    <3> DEFINE d == Back(ArcOf(u, e))
               v == e.to
    <3>4. x = <<g.nodes[d.to].id, g.nodes[v].id, d.cost>>  BY <2>0, <3>2
    <3>5. v \in 1 .. n /\ d \in ToSet(InEdges(g, v))  BY <3>3
    <3> HIDE DEF d, v
    <3>6. x \in {<<g.nodes[b.to].id, g.nodes[v].id, b.cost>> : b \in ToSet(InEdges(g, v))}  BY <3>4, <3>5
    <3> QED  BY <3>5, <3>6
  <2> HIDE DEF A
  <2>3. A = wanted  BY <2>1, <2>2
  <2> QED  BY <2>3 DEF A
<1>4. \A v \in 1 .. n : Increasing(OutEdges(g, v)) /\ Increasing(InEdges(g, v))  BY DEF HoldsBoth
<1>5. g.directed <=> \E a \in wanted : \A b \in wanted : <<b[1], b[2]>> # <<a[2], a[1]>>
  <2>1. g.directed <=> \E v \in 1 .. n : \E e \in ToSet(out[v]) : \A b \in ToSet(out[e.to]) : b.to # v
    BY DEF HoldsBoth
  <2>2. ASSUME NEW v \in 1 .. n, NEW e \in ToSet(out[v]), \A b \in ToSet(out[e.to]) : b.to # v
        PROVE  \E a \in wanted : \A b \in wanted : <<b[1], b[2]>> # <<a[2], a[1]>>
    <3>1. Named(ids, v, e) \in wanted /\ e.to \in 1 .. n  BY DEF HasCheapest, HoldsBoth
    <3>2. ASSUME NEW b \in wanted, b[1] = ids[e.to], b[2] = ids[v] PROVE FALSE
      <4>1. PICK u \in 1 .. n : \E d \in ToSet(out[u]) : b = Named(ids, u, d)  BY DEF HasCheapest
      <4>2. PICK d \in ToSet(out[u]) : b = Named(ids, u, d)  BY <4>1
      <4>3. ids[u] = ids[e.to] /\ ids[d.to] = ids[v] /\ d.to \in 1 .. n
        BY <3>2, <4>2 DEF Named, HoldsBoth
      <4>4. u = e.to /\ d.to = v  BY <3>1, <4>3 DEF IsNamed
      <4> QED  BY <2>2, <4>4
    <3>3. Named(ids, v, e)[1] = ids[v] /\ Named(ids, v, e)[2] = ids[e.to]  BY DEF Named
    <3>4. \A b \in wanted : <<b[1], b[2]>> # <<Named(ids, v, e)[2], Named(ids, v, e)[1]>>  BY <3>2, <3>3
    <3> QED  BY <3>1, <3>4
  <2>3. ASSUME NEW a \in wanted, \A b \in wanted : <<b[1], b[2]>> # <<a[2], a[1]>>
        PROVE  \E v \in 1 .. n : \E e \in ToSet(out[v]) : \A b \in ToSet(out[e.to]) : b.to # v
    <3>1. PICK v \in 1 .. n : \E e \in ToSet(out[v]) : a = Named(ids, v, e)  BY DEF HasCheapest
    <3>2. PICK e \in ToSet(out[v]) : a = Named(ids, v, e)  BY <3>1
    <3>3. e.to \in 1 .. n  BY DEF HoldsBoth
    <3>4. ASSUME NEW b \in ToSet(out[e.to]), b.to = v PROVE FALSE
      <4>1. Named(ids, e.to, b) \in wanted  BY <3>3 DEF HasCheapest
      <4>2. /\ Named(ids, e.to, b)[1] = ids[e.to] /\ Named(ids, e.to, b)[2] = ids[v]
            /\ a[1] = ids[v] /\ a[2] = ids[e.to]
        BY <3>2, <3>4 DEF Named
      <4>3. <<Named(ids, e.to, b)[1], Named(ids, e.to, b)[2]>> # <<a[2], a[1]>>  BY <2>3, <4>1
      <4> QED  BY <4>2, <4>3
    <3> QED  BY <3>4
  <2> QED  BY <2>1, <2>2, <2>3
<1> QED  BY <1>2, <1>3, <1>4, <1>5 DEF HasExactly

LEMMA CompactedNodes ==
  ASSUME NEW nodes, NEW out
  PROVE  /\ Compacted(nodes, out).nodes = nodes
         /\ Compacted(nodes, out).edgeCount = Len(FlattenSeq(out))
BY DEF Compacted

\* What is built from a list of roads between named nodes has exactly the cheapest.
LEMMA FinalizedRoads ==
  ASSUME NEW n \in Nat, NEW ids, DOMAIN ids = 1 .. n, NEW arcs, IsSeq(arcs),
         AreRoads(ToSet(arcs), ids, n),
         NEW nodes, nodes = [v \in 1 .. n |-> [id |-> nodes[v].id, place |-> nodes[v].place]],
         \A v \in 1 .. n : nodes[v].id = ids[v],
         Finalize(nodes, Lists(ids, arcs)).ok
  PROVE  HasExactly(Finalize(nodes, Lists(ids, arcs)), Cheapest(ToSet(arcs)))
<1> DEFINE adj == Lists(ids, arcs)
           g == Finalize(nodes, adj)
           out == [v \in 1 .. n |-> Dedup(adj[v])]
           A == ToSet(arcs)
<1>1. IsRaw(n, nodes, adj) /\ HasListed(adj, n, ids, A)
  <2>1. IsRaw(n, nodes, adj)  BY RawFacts
  <2>2. HasListed(adj, n, ids, A)  BY ListsFacts
  <2> QED  BY <2>1, <2>2
<1> HIDE DEF adj, A
<1>2. Acceptable(nodes, adj)  BY DEF Finalize, NoGraph, adj
<1>3. /\ n # 0 /\ DOMAIN nodes = 1 .. n /\ Len(nodes) = n
      /\ \A v \in 1 .. n : adj[v] \in Seq(Edge(n))
  BY <1>1, <1>2, AcceptedEdges DEF IsRaw
<1>4. g = Compacted(nodes, out)  BY <1>2, <1>3 DEF Finalize
<1>5. IsNamed(ids, n)
  <2>1. \A u, v \in 1 .. n : nodes[u].id = nodes[v].id => u = v  BY <1>2, <1>3 DEF Acceptable
  <2> QED  BY <2>1 DEF IsNamed
<1>6. \A e \in Edge(n) : e.to \in Int /\ e.cost \in Int  BY DEF Edge
<1>7. ASSUME NEW v \in 1 .. n
      PROVE  Dedup(adj[v]) \in Seq(Edge(n)) /\ Increasing(Dedup(adj[v])) /\ IsCheapest(Dedup(adj[v]), adj[v])
  <2>1. Len(adj[v]) \in Nat /\ adj[v] \in [1 .. Len(adj[v]) -> Edge(n)]  BY <1>3
  <2> QED  BY <1>6, <2>1, DedupFacts
<1>8. /\ out \in [1 .. n -> Seq(Edge(n))]
      /\ \A v \in 1 .. n : Increasing(out[v]) /\ IsCheapest(out[v], adj[v])
  BY <1>7
<1> HIDE DEF out
<1>9. AreKept(out, n, adj)  BY <1>3, <1>8 DEF AreKept
<1>10. HasCheapest(out, n, ids, Cheapest(A))  BY <1>1, <1>5, <1>9, CheapestKept DEF A
<1>11. HoldsBoth(g, out, n)  BY <1>3, <1>4, <1>8, CompactedBoth
<1>12. g.nodes = nodes /\ g.edgeCount = Len(FlattenSeq(out))
  <2> DEFINE c == Compacted(nodes, out)
  <2>1. c.nodes = nodes /\ c.edgeCount = Len(FlattenSeq(out))  BY CompactedNodes
  <2>2. g = c  BY <1>4
  <2> HIDE DEF g, c
  <2> QED  BY <2>1, <2>2, Zenon
<1>13. g.edgeCount = Cardinality(Cheapest(A))
  <2> DEFINE all == TailByTail(out)
  <2>1. AreArcs(all, n, out)  BY <1>3, <1>8, TailByTailFacts
  <2> HIDE DEF all
  <2>2. \A v \in 1 .. n : out[v] \in Seq(Edge(n))  BY <1>8
  <2>3. HoldsArcs(all, n, out)  BY <2>1, <2>2, ArcsHeld
  <2>4. all \in Seq(Arc(n)) /\ AreSorted(all) /\ Len(all) = Len(FlattenSeq(out))  BY <2>1 DEF AreArcs
  <2>5. Len(all) = Cardinality(Cheapest(A))  BY <1>5, <1>10, <2>3, <2>4, ArcsCounted
  <2>6. g.edgeCount = Len(FlattenSeq(out))  BY <1>12
  <2> QED  BY <2>4, <2>5, <2>6
<1> HIDE DEF g
<1>14. HasExactly(g, Cheapest(A))
  <2>1. DOMAIN g.nodes = 1 .. n /\ \A v \in 1 .. n : g.nodes[v].id = ids[v]  BY <1>3, <1>12
  <2>2. \A v \in 1 .. n : Increasing(out[v])  BY <1>8
  <2> QED  BY <1>5, <1>10, <1>11, <1>13, <2>1, <2>2, ExactlyThose
<1> QED  BY <1>14 DEF g, adj, A

\* The arcs of a stretch: one for each sense in which it may be driven.
HoldsSenses(arcs, s) ==
  \A y : y \in ToSet(arcs) <=>
    \/ onewayDirection(s.tags, options.profile) # "back"
         /\ y = <<s.a, s.b, Cost(Meters(places[s.a], places[s.b]), s.tags)>>
    \/ onewayDirection(s.tags, options.profile) # "forth"
         /\ y = <<s.b, s.a, Cost(Meters(places[s.a], places[s.b]), s.tags)>>
LEMMA ArcsOfFacts ==
  ASSUME NEW s
  PROVE  HoldsSenses(ArcsOf(s), s)
<1> DEFINE dir == onewayDirection(s.tags, options.profile)
           cost == Cost(Meters(places[s.a], places[s.b]), s.tags)
           forth == <<s.a, s.b, cost>>
           back == <<s.b, s.a, cost>>
<1>1. ArcsOf(s) = CASE dir = "forth" -> <<forth>> [] dir = "back" -> <<back>> [] OTHER -> <<forth, back>>
  BY DEF ArcsOf
<1> HIDE DEF dir, forth, back
<1>2. /\ ToSet(<<forth>>) = {forth} /\ ToSet(<<back>>) = {back}
      /\ ToSet(<<forth, back>>) = {forth, back}
  <2>1. \A x : DOMAIN <<x>> = {1} /\ <<x>>[1] = x  OBVIOUS
  <2>2. \A x, y : DOMAIN <<x, y>> = {1, 2} /\ <<x, y>>[1] = x /\ <<x, y>>[2] = y  OBVIOUS
  <2>3. \A x : ToSet(<<x>>) = {x}  BY <2>1 DEF ToSet
  <2>4. \A x, y : ToSet(<<x, y>>) = {x, y}  BY <2>2 DEF ToSet
  <2> QED  BY <2>3, <2>4
<1>3. "forth" # "back"  OBVIOUS
<1>4. \A y : y \in ToSet(ArcsOf(s)) <=> (dir # "back" /\ y = forth) \/ (dir # "forth" /\ y = back)
  <2>1. CASE dir = "forth"
    <3>1. ArcsOf(s) = <<forth>>  BY <1>1, <2>1
    <3> QED  BY <1>2, <1>3, <2>1, <3>1
  <2>2. CASE dir = "back"
    <3>1. ArcsOf(s) = <<back>>  BY <1>1, <1>3, <2>2
    <3> QED  BY <1>2, <1>3, <2>2, <3>1
  <2>3. CASE dir # "forth" /\ dir # "back"
    <3>1. ArcsOf(s) = <<forth, back>>  BY <1>1, <2>3
    <3> QED  BY <1>2, <2>3, <3>1
  <2> QED  BY <2>1, <2>2, <2>3
<1> QED  BY <1>4 DEF HoldsSenses, dir, forth, back

\* The arcs of an OSM file are those that may be driven.
LEMMA DrivenFacts ==
  ASSUME \A w \in ToSet(roads) : IsSeq(w.refs) /\ Len(w.refs) >= 2,
         \A i \in DOMAIN places : places[i] \in Place
  PROVE  \A x : x \in Driven <=> \E w \in ToSet(roads) : OnWay(x, w)
<1> DEFINE Dir(w) == onewayDirection(w.tags, options.profile)
           CostOf(w, u, v) == Cost(Meters(places[u], places[v]), w.tags)
           Neighbours(w, u, v) ==
             \E i \in 1 .. Len(w.refs) - 1 :
               \/ <<u, v>> = <<w.refs[i], w.refs[i + 1]>> /\ Dir(w) # "back"
               \/ <<v, u>> = <<w.refs[i], w.refs[i + 1]>> /\ Dir(w) # "forth"
           Pairs(w) == {p \in (DOMAIN places) \X (DOMAIN places) :
                          places[p[1]] # places[p[2]] /\ Neighbours(w, p[1], p[2])}
           IsDriven(x, w) ==
             \E u, v \in DOMAIN places :
               places[u] # places[v] /\ Neighbours(w, u, v) /\ x = <<u, v, CostOf(w, u, v)>>
<1>1. \A x : x \in Driven <=> \E w \in ToSet(roads) : IsDriven(x, w)
  <2>1. Driven = UNION {{<<p[1], p[2], CostOf(w, p[1], p[2])>> : p \in Pairs(w)} : w \in ToSet(roads)}
    BY DEF Driven
  <2>2. \A w, x : x \in {<<p[1], p[2], CostOf(w, p[1], p[2])>> : p \in Pairs(w)} <=> IsDriven(x, w)
    <3> SUFFICES ASSUME NEW w, NEW x
                 PROVE  x \in {<<p[1], p[2], CostOf(w, p[1], p[2])>> : p \in Pairs(w)} <=> IsDriven(x, w)
      OBVIOUS
    <3> HIDE DEF CostOf, Neighbours
    <3>1. ASSUME NEW p \in Pairs(w), x = <<p[1], p[2], CostOf(w, p[1], p[2])>> PROVE IsDriven(x, w)
      <4>1. p[1] \in DOMAIN places /\ p[2] \in DOMAIN places  OBVIOUS
      <4> QED  BY <3>1, <4>1
    <3>2. ASSUME IsDriven(x, w) PROVE \E p \in Pairs(w) : x = <<p[1], p[2], CostOf(w, p[1], p[2])>>
      <4>1. PICK u \in DOMAIN places, v \in DOMAIN places :
               places[u] # places[v] /\ Neighbours(w, u, v) /\ x = <<u, v, CostOf(w, u, v)>>
        BY <3>2
      <4>2. <<u, v>> \in Pairs(w) /\ <<u, v>>[1] = u /\ <<u, v>>[2] = v  BY <4>1
      <4> QED  BY <4>1, <4>2
    <3> QED  BY <3>1, <3>2
  <2> HIDE DEF IsDriven, Pairs, CostOf
  <2> QED  BY <2>1, <2>2
<1> SUFFICES ASSUME NEW w \in ToSet(roads), NEW x PROVE IsDriven(x, w) <=> OnWay(x, w)
  <2> HIDE DEF IsDriven
  <2> QED  BY <1>1
<1>2. \A s : HoldsSenses(ArcsOf(s), s)  BY ArcsOfFacts
<1> DEFINE n == Len(w.refs)
<1>3. n \in Nat /\ \A i \in 1 .. n - 1 : w.refs[i] \in ToSet(w.refs) /\ w.refs[i + 1] \in ToSet(w.refs)
  <2>1. w.refs \in Seq(ToSet(w.refs))  BY DEF IsSeq
  <2>2. n \in Nat  BY <2>1
  <2>3. \A i \in 1 .. n - 1 : i \in 1 .. n /\ i + 1 \in 1 .. n  BY <2>2
  <2> QED  BY <2>1, <2>2, <2>3
<1>4. \A i \in DOMAIN places : i \in ToSet(w.refs) => i \in Used
  <2>1. PICK k \in DOMAIN roads : w = roads[k]  BY DEF ToSet
  <2> QED  BY <2>1 DEF Used
<1>5. \A i \in 1 .. n - 1 :
        /\ Stretch(w, i).a = w.refs[i] /\ Stretch(w, i).b = w.refs[i + 1]
        /\ Stretch(w, i).tags = w.tags
  BY DEF Stretch
<1>6. \A u, v \in DOMAIN places : CostOf(w, u, v) = CostOf(w, v, u)
  BY MetricAssumption
<1>7. ASSUME OnWay(x, w) PROVE IsDriven(x, w)
  <2>1. PICK i \in 1 .. n - 1 : Usable(Stretch(w, i)) /\ x \in ToSet(ArcsOf(Stretch(w, i)))
    BY <1>7 DEF OnWay
  <2> DEFINE a == w.refs[i]
             b == w.refs[i + 1]
  <2>2. a \in DOMAIN places /\ b \in DOMAIN places /\ places[a] # places[b]
    BY <1>5, <2>1 DEF Usable, Used
  <2>3. \/ Dir(w) # "back" /\ x = <<a, b, CostOf(w, a, b)>>
        \/ Dir(w) # "forth" /\ x = <<b, a, CostOf(w, a, b)>>
    BY <1>2, <1>5, <2>1 DEF HoldsSenses
  <2>4. CASE Dir(w) # "back" /\ x = <<a, b, CostOf(w, a, b)>>
    <3>1. Neighbours(w, a, b)  BY <2>4
    <3> HIDE DEF Neighbours, CostOf, Dir, a, b
    <3> QED  BY <2>2, <2>4, <3>1
  <2>5. CASE Dir(w) # "forth" /\ x = <<b, a, CostOf(w, a, b)>>
    <3>1. Neighbours(w, b, a)  BY <2>5
    <3> HIDE DEF Neighbours, CostOf, Dir, a, b
    <3>2. x = <<b, a, CostOf(w, b, a)>>  BY <1>6, <2>2, <2>5
    <3> QED  BY <2>2, <3>1, <3>2
  <2> HIDE DEF IsDriven, Dir, CostOf, a, b
  <2> QED  BY <2>3, <2>4, <2>5
<1>8. ASSUME IsDriven(x, w) PROVE OnWay(x, w)
  <2>1. PICK u \in DOMAIN places, v \in DOMAIN places :
           places[u] # places[v] /\ Neighbours(w, u, v) /\ x = <<u, v, CostOf(w, u, v)>>
    BY <1>8
  <2>2. PICK i \in 1 .. n - 1 :
               \/ <<u, v>> = <<w.refs[i], w.refs[i + 1]>> /\ Dir(w) # "back"
               \/ <<v, u>> = <<w.refs[i], w.refs[i + 1]>> /\ Dir(w) # "forth"
    BY <2>1
  <2> DEFINE s == Stretch(w, i)
  <2>3. s.a = w.refs[i] /\ s.b = w.refs[i + 1] /\ s.tags = w.tags  BY <1>5
  <2> HIDE DEF s
  <2>4. CASE u = s.a /\ v = s.b /\ Dir(w) # "back"
    <3>1. Usable(s)  BY <1>3, <1>4, <2>1, <2>3, <2>4 DEF Usable
    <3>2. x = <<s.a, s.b, Cost(Meters(places[s.a], places[s.b]), s.tags)>>  BY <2>1, <2>3, <2>4
    <3>3. x \in ToSet(ArcsOf(s))  BY <1>2, <2>3, <2>4, <3>2 DEF HoldsSenses
    <3> QED  BY <3>1, <3>3 DEF OnWay, s
  <2>5. CASE u = s.b /\ v = s.a /\ Dir(w) # "forth"
    <3>1. Usable(s)  BY <1>3, <1>4, <2>1, <2>3, <2>5 DEF Usable
    <3>2. x = <<s.b, s.a, Cost(Meters(places[s.a], places[s.b]), s.tags)>>
      <4>1. x = <<u, v, CostOf(w, v, u)>>
        <5> HIDE DEF CostOf, Neighbours
        <5> QED  BY <1>6, <2>1
      <4> QED  BY <2>3, <2>5, <4>1
    <3>3. x \in ToSet(ArcsOf(s))  BY <1>2, <2>3, <2>5, <3>2 DEF HoldsSenses
    <3> QED  BY <3>1, <3>3 DEF OnWay, s
  <2> QED  BY <2>2, <2>3, <2>4, <2>5
<1> QED  BY <1>7, <1>8

\* The import of an OSM file builds what is driven in it; that of a DIMACS file has
\* the arcs of its lines.
LEMMA OSMBuilt ==
  ASSUME ImportInv, PlacesInv, EndOSM, stage' = "built"
  PROVE  HasExactly(graph', Cheapest(Driven))
<1> DEFINE nodes == [v \in DOMAIN UsedIds |-> [id |-> UsedIds[v], place |-> places[UsedIds[v]]]]
           n == Cardinality(Used)
           g == Finalize(nodes, Lists(UsedIds, OSMArcs))
<1>1. IsSeq(roads) /\ \A w \in ToSet(roads) : IsSeq(w.refs) /\ Len(w.refs) >= 2
  BY DEF ImportInv, EndOSM
<1>2. \A i \in DOMAIN places : places[i] \in Place  BY DEF PlacesInv
<1>3. /\ n \in Nat /\ DOMAIN UsedIds = 1 .. n
      /\ \A v \in DOMAIN UsedIds : UsedIds[v] \in Used
      /\ \A i \in Used : \E v \in DOMAIN UsedIds : UsedIds[v] = i
  BY UsedIdsFacts DEF ImportInv
<1>4. IsSeq(OSMArcs) /\ \A x : x \in ToSet(OSMArcs) <=> \E w \in ToSet(roads) : OnWay(x, w)
  BY <1>1, OSMArcsFacts
<1>5. ToSet(OSMArcs) = Driven
  <2>1. \A x : x \in Driven <=> \E w \in ToSet(roads) : OnWay(x, w)  BY <1>1, <1>2, DrivenFacts
  <2> QED  BY <1>4, <2>1
<1> HIDE DEF n
<1>6. AreRoads(ToSet(OSMArcs), UsedIds, n)
  <2> SUFFICES ASSUME NEW x \in ToSet(OSMArcs)
               PROVE  /\ x = <<x[1], x[2], x[3]>>
                      /\ \E u, v \in 1 .. n : x[1] = UsedIds[u] /\ x[2] = UsedIds[v]
    BY DEF AreRoads
  <2>1. PICK w \in ToSet(roads) : OnWay(x, w)  BY <1>4
  <2>2. PICK i \in 1 .. Len(w.refs) - 1 : Usable(Stretch(w, i)) /\ x \in ToSet(ArcsOf(Stretch(w, i)))
    BY <2>1 DEF OnWay
  <2> DEFINE s == Stretch(w, i)
             cost == Cost(Meters(places[s.a], places[s.b]), s.tags)
  <2>3. HoldsSenses(ArcsOf(s), s)  BY ArcsOfFacts
  <2> HIDE DEF s
  <2>4. x = <<s.a, s.b, cost>> \/ x = <<s.b, s.a, cost>>  BY <2>2, <2>3 DEF HoldsSenses, s
  <2>5. s.a \in Used /\ s.b \in Used  BY <2>2 DEF Usable, s
  <2> HIDE DEF cost
  <2>6. x = <<x[1], x[2], x[3]>> /\ x[1] \in Used /\ x[2] \in Used  BY <2>4, <2>5
  <2>7. PICK u \in 1 .. n : UsedIds[u] = x[1]  BY <1>3, <2>6
  <2>8. PICK v \in 1 .. n : UsedIds[v] = x[2]  BY <1>3, <2>6
  <2> QED  BY <2>6, <2>7, <2>8
<1>7. /\ nodes = [v \in 1 .. n |-> [id |-> nodes[v].id, place |-> nodes[v].place]]
      /\ \A v \in 1 .. n : nodes[v].id = UsedIds[v]
  BY <1>3
<1>8. ~(DOMAIN places = {} \/ roads = <<>>)  BY DEF EndOSM, Fail
<1>9. Built(g)  BY <1>8 DEF EndOSM
<1> HIDE DEF nodes, g
<1>10. g.ok /\ graph' = g  BY <1>9 DEF Built, Fail
<1>11. HasExactly(g, Cheapest(ToSet(OSMArcs)))
  BY <1>3, <1>4, <1>6, <1>7, <1>10, FinalizedRoads DEF g
<1> QED  BY <1>5, <1>10, <1>11

AreTriples(s) == \A a \in ToSet(s) : a = <<a[1], a[2], a[3]>>
LEMMA DIMACSBuilt ==
  ASSUME ImportInv, AreTriples(roads), ~OutOfRange, EndCoords, stage' = "built"
  PROVE  HasExactly(graph', Cheapest(ToSet(roads)))
<1> DEFINE ids == [v \in Ids |-> v]
           nodes == [v \in Ids |-> [id |-> v, place |-> places[v]]]
           g == Finalize(nodes, Lists(ids, roads))
<1>1. IsSeq(roads) /\ size \in Nat /\ Ids = 1 .. size  BY DEF ImportInv, Ids
<1>2. DOMAIN ids = 1 .. size /\ \A v \in 1 .. size : ids[v] = v  BY <1>1
<1>3. AreRoads(ToSet(roads), ids, size)
  <2> SUFFICES ASSUME NEW a \in ToSet(roads)
               PROVE  /\ a = <<a[1], a[2], a[3]>>
                      /\ \E u, v \in 1 .. size : a[1] = ids[u] /\ a[2] = ids[v]
    BY DEF AreRoads
  <2>1. a = <<a[1], a[2], a[3]>>  BY DEF AreTriples
  <2>2. PICK k \in DOMAIN roads : a = roads[k]  BY DEF ToSet
  <2>3. a[1] \in 1 .. size /\ a[2] \in 1 .. size  BY <1>1, <2>2 DEF OutOfRange
  <2> HIDE DEF ids
  <2> QED  BY <1>2, <2>1, <2>3
<1>4. /\ nodes = [v \in 1 .. size |-> [id |-> nodes[v].id, place |-> nodes[v].place]]
      /\ \A v \in 1 .. size : nodes[v].id = ids[v]
  BY <1>1
<1>5. Built(g)  BY DEF EndCoords
<1> HIDE DEF ids, nodes, g
<1>6. g.ok /\ graph' = g  BY <1>5 DEF Built, Fail
<1>7. HasExactly(g, Cheapest(ToSet(roads)))
  BY <1>1, <1>2, <1>3, <1>4, <1>6, FinalizedRoads DEF g
<1> QED  BY <1>6, <1>7

RoadsInv ==
  /\ ~OSM => AreTriples(roads)
  /\ ~OSM /\ stage = "coords" => ~OutOfRange
  /\ RoadsAreArcs
LEMMA SameWanted ==
  ASSUME UNCHANGED <<options, places, roads>>
  PROVE  Wanted' = Wanted
BY DEF Wanted, OSM, Driven, Cost

LEMMA RoadsStep ==
  ASSUME NEW origin, ImportInv, PlacesInv, RoadsInv, [StoreNext(origin)]_gvars
  PROVE  RoadsInv'
<1>1. ASSUME UNCHANGED ivars PROVE RoadsInv'
  <2>1. UNCHANGED <<stage, options, count, places, roads, size, graph>>  BY <1>1 DEF ivars
  <2>2. Wanted' = Wanted  BY <2>1, SameWanted
  <2>3. RoadsAreArcs'  BY <2>1, <2>2 DEF RoadsAreArcs, RoadsInv
  <2> QED  BY <2>1, <2>3 DEF RoadsInv, OSM, AreTriples, OutOfRange, Ids
<1>2. CASE Read
  <2>1. stage \in {"read", "coords"} /\ UNCHANGED options  BY <1>2 DEF Read
  <2>2. PICK x \in Elements :
          ReadNode(x) \/ ReadWay(x) \/ ReadProblem(x) \/ ReadArc(x) \/ ReadCoord(x) \/ ReadMalformed(x)
    BY <1>2 DEF Read
  <2>3. stage' = stage \/ stage' = "failed"
    BY <2>2 DEF ReadNode, ReadWay, ReadProblem, ReadArc, ReadCoord, ReadMalformed, Fail
  <2>4. RoadsAreArcs'  BY <2>1, <2>3 DEF RoadsAreArcs
  <2>5. ~OSM => AreTriples(roads')
    <3> SUFFICES ASSUME ~OSM PROVE AreTriples(roads')  OBVIOUS
    <3>1. CASE ReadArc(x)
      <4>1. roads' = Append(roads, x.arc) /\ x.kind = "a"  BY <3>1 DEF ReadArc
      <4>2. x.arc = <<x.arc[1], x.arc[2], x.arc[3]>>  BY <4>1, ElementAssumption
      <4>3. \A a \in ToSet(Append(roads, x.arc)) : a \in ToSet(roads) \/ a = x.arc
        BY AppendIsSeq DEF ImportInv
      <4>4. AreTriples(roads)  BY DEF RoadsInv
      <4> QED  BY <4>1, <4>2, <4>3, <4>4 DEF AreTriples
    <3>2. CASE ~ReadArc(x)
      <4>1. UNCHANGED roads
        BY <2>2, <3>2 DEF ReadNode, ReadWay, ReadProblem, ReadCoord, ReadMalformed
      <4> QED  BY <4>1 DEF RoadsInv
    <3> QED  BY <3>1, <3>2
  <2>6. ~OSM /\ stage' = "coords" => ~OutOfRange'
    <3> SUFFICES ASSUME ~OSM, stage' = "coords" PROVE ~OutOfRange'  OBVIOUS
    <3>1. stage = "coords"  BY <2>3
    <3>2. UNCHANGED <<roads, size>>
      BY <2>2, <3>1 DEF ReadNode, ReadWay, ReadProblem, ReadArc, ReadCoord, ReadMalformed
    <3> QED  BY <3>1, <3>2 DEF RoadsInv, OutOfRange, Ids
  <2>7. OSM' <=> OSM  BY <2>1 DEF OSM
  <2> QED  BY <2>4, <2>5, <2>6, <2>7 DEF RoadsInv, AreTriples
<1>3. CASE EndOSM
  <2>1. OSM /\ UNCHANGED <<options, count, places, roads, size>>  BY <1>3 DEF EndOSM
  <2>2. OSM' /\ Wanted' = Wanted /\ Wanted = Cheapest(Driven)
    BY <2>1, SameWanted DEF OSM, Wanted
  <2>3. stage' = "built" => HasExactly(graph', Wanted')
    <3>1. stage' = "built" => HasExactly(graph', Cheapest(Driven))  BY <1>3, OSMBuilt
    <3> QED  BY <2>2, <3>1
  <2> QED  BY <2>2, <2>3 DEF RoadsInv, RoadsAreArcs
<1>4. CASE EndArcs(origin)
  <2>1. ~OSM /\ stage = "read" /\ UNCHANGED <<options, count, roads, size, graph>>  BY <1>4 DEF EndArcs
  <2>2. stage' = "failed" \/ (stage' = "coords" /\ ~OutOfRange)  BY <1>4 DEF EndArcs
  <2>3. ~OSM' /\ AreTriples(roads)' /\ (OutOfRange' <=> OutOfRange)
    BY <2>1 DEF OSM, RoadsInv, AreTriples, OutOfRange, Ids
  <2> QED  BY <2>2, <2>3 DEF RoadsInv, RoadsAreArcs
<1>5. CASE EndCoords
  <2>1. ~OSM /\ stage = "coords" /\ UNCHANGED <<options, count, places, roads, size>>
    BY <1>5 DEF EndCoords
  <2>2. ~OSM' /\ Wanted' = Wanted /\ Wanted = Cheapest(ToSet(roads))
    BY <2>1, SameWanted DEF OSM, Wanted
  <2>3. AreTriples(roads) /\ ~OutOfRange  BY <2>1 DEF RoadsInv
  <2>4. stage' = "built" => HasExactly(graph', Wanted')
    <3>1. stage' = "built" => HasExactly(graph', Cheapest(ToSet(roads)))  BY <1>5, <2>3, DIMACSBuilt
    <3> QED  BY <2>2, <3>1
  <2>5. stage' # "coords"  BY <1>5 DEF EndCoords, Built, Fail
  <2> QED  BY <2>1, <2>2, <2>3, <2>4, <2>5 DEF RoadsInv, RoadsAreArcs, AreTriples
<1>6. CASE Create
  <2>1. stage' = "saving" /\ roads' = <<>>  BY <1>6 DEF Create
  <2>2. ToSet(roads') = {}  BY <2>1 DEF ToSet
  <2> QED  BY <2>1, <2>2 DEF RoadsInv, RoadsAreArcs, AreTriples
<1>7. CASE Spill \/ Finish \/ Kill
  <2>1. stage' \in {"saving", "ended"} /\ UNCHANGED <<options, roads>>  BY <1>7 DEF Spill, Finish, Kill
  <2> QED  BY <2>1 DEF RoadsInv, RoadsAreArcs, AreTriples, OSM
<1>8. CASE Open \/ Fetch \/ Return \/ UNCHANGED gvars
  <2>1. UNCHANGED ivars  BY <1>8 DEF Open, Fetch, Return, gvars
  <2> QED  BY <1>1, <2>1
<1> QED
  BY <1>2, <1>3, <1>4, <1>5, <1>6, <1>7, <1>8 DEF StoreNext, Import

\* Whatever a file says and in whatever order, an import that does not fail leaves
\* exactly its roads, or its arcs, under the ids of the file and at their least
\* costs, in the arrays of both directions, each sorted and without doubles
\* (graph.go:94-151; osmxml.go and dimacs.go).
THEOREM ArcsAlwaysRoads ==
  ASSUME NEW setups, NEW origin \in Place
  PROVE  StoreSpec(setups, origin) => []RoadsAreArcs
<1> DEFINE Inv == StoreInv /\ PlacesInv /\ RoadsInv
<1>1. StoreInit(setups) => Inv
  <2> SUFFICES ASSUME StoreInit(setups) PROVE Inv  OBVIOUS
  <2>1. StoreInv  BY StoreStarts
  <2>2. places = <<>> /\ stage = "read" /\ roads = <<>>  BY DEF StoreInit, ImportInit
  <2>3. DOMAIN places = {} /\ ToSet(roads) = {}  BY <2>2 DEF ToSet
  <2>4. PlacesInv  BY <2>2, <2>3 DEF PlacesInv
  <2>5. RoadsAreArcs /\ AreTriples(roads)  BY <2>2, <2>3 DEF RoadsAreArcs, AreTriples
  <2>6. RoadsInv  BY <2>2, <2>5 DEF RoadsInv
  <2> QED  BY <2>1, <2>4, <2>6
<1>2. Inv /\ [StoreNext(origin)]_gvars => Inv'
  <2> SUFFICES ASSUME StoreInv, PlacesInv, RoadsInv, [StoreNext(origin)]_gvars PROVE Inv'
    OBVIOUS
  <2>1. StoreInv'  BY StoreStep
  <2>2. PlacesInv'  BY PlacesStep DEF StoreInv
  <2>3. RoadsInv'  BY RoadsStep DEF StoreInv
  <2> QED  BY <2>1, <2>2, <2>3
<1>3. Inv => RoadsAreArcs  BY DEF RoadsInv
<1> QED  BY <1>1, <1>2, <1>3, PTL DEF StoreSpec

-----------------------------------------------------------------------------
(* The pool is the largest strongly connected component                    *)

\* Sets that keep growing reach any number of elements.
LEMMA GrowingSets ==
  ASSUME NEW U, IsFiniteSet(U), NEW n \in Nat, NEW D, \A k \in 0 .. n : D[k] \subseteq U,
         \A k \in 0 .. n - 1 : D[k] \subseteq D[k + 1] /\ D[k] # D[k + 1]
  PROVE  Cardinality(D[n]) \in Nat /\ Cardinality(D[n]) >= n + Cardinality(D[0])
<1>1. \A k \in 0 .. n : IsFiniteSet(D[k]) /\ Cardinality(D[k]) \in Nat
  BY FS_Subset, FS_CardinalityType
<1> DEFINE T == {k \in 0 .. n : Cardinality(D[k]) >= k + Cardinality(D[0])}
<1>2. 0 \in T  BY <1>1
<1>3. ASSUME NEW k \in 0 .. n - 1, k \in T PROVE k + 1 \in T
  <2>1. k \in 0 .. n /\ k + 1 \in 0 .. n  OBVIOUS
  <2>2. PICK x \in D[k + 1] : x \notin D[k]  OBVIOUS
  <2>3. IsFiniteSet(D[k]) /\ IsFiniteSet(D[k + 1])  BY <1>1, <2>1
  <2>4. Cardinality(D[k] \cup {x}) = Cardinality(D[k]) + 1  BY <2>2, <2>3, FS_AddElement
  <2>5. D[k] \cup {x} \subseteq D[k + 1]  BY <2>2
  <2>6. Cardinality(D[k] \cup {x}) <= Cardinality(D[k + 1])  BY <2>3, <2>5, FS_Subset
  <2>7. 0 \in 0 .. n /\ Cardinality(D[0]) \in Nat /\ Cardinality(D[k]) \in Nat /\ Cardinality(D[k + 1]) \in Nat
    BY <1>1, <2>1
  <2> QED  BY <1>3, <2>1, <2>4, <2>6, <2>7
<1>4. n \in 0 .. n /\ 0 \in 0 .. n /\ 0 \in Int /\ n \in Int  OBVIOUS
<1>5. 0 .. n \subseteq T
  <2> HIDE DEF T
  <2> QED  BY <1>2, <1>3, <1>4, IntervalInduction
<1> QED  BY <1>1, <1>4, <1>5

\* What holds from some turn of a loop on holds at its end.
LEMMA FromThenOn ==
  ASSUME NEW n \in Nat, NEW a \in 0 .. n, NEW T, a \in T, \A k \in 0 .. n - 1 : k \in T => k + 1 \in T
  PROVE  n \in T
<1>1. a \in Int /\ n \in Int /\ \A i \in a .. n - 1 : i \in 0 .. n - 1  OBVIOUS
<1>2. a .. n \subseteq T  BY <1>1, IntervalInduction
<1> QED  BY <1>2

\* The graphs that are searched: n nodes, arcs between them that both arrays have,
\* and as many steps as the arcs need.
LeadsTo(g, u, v) == \E e \in ToSet(OutEdges(g, u)) : e.to = v
Looks(g, n) == UNION {{v} \X (1 .. Len(OutEdges(g, v))) : v \in 1 .. n}
IsNetwork(g, n) ==
  /\ n \in Nat /\ n # 0 /\ DOMAIN g.nodes = 1 .. n /\ Len(g.nodes) = n
  /\ \A v \in 1 .. n : OutEdges(g, v) \in Seq(Edge(n))
  /\ \A v \in 1 .. n : \A e \in ToSet(InEdges(g, v)) : e.to \in 1 .. n /\ LeadsTo(g, e.to, v)
  /\ \A u, v \in 1 .. n : LeadsTo(g, u, v) => \E e \in ToSet(InEdges(g, v)) : e.to = u
  /\ g.edgeCount \in Nat /\ IsFiniteSet(Looks(g, n)) /\ Cardinality(Looks(g, n)) <= g.edgeCount

LEMMA ArcsStay ==
  ASSUME NEW g, NEW n, IsNetwork(g, n), NEW u \in 1 .. n, NEW v, LeadsTo(g, u, v)
  PROVE  v \in 1 .. n
<1>1. OutEdges(g, u) \in Seq(Edge(n))  BY DEF IsNetwork
<1>2. \A e \in ToSet(OutEdges(g, u)) : e \in Edge(n)  BY <1>1, SeqOfItself
<1> QED  BY <1>2 DEF LeadsTo, Edge

\* To be reached is reflexive and transitive, and arcs reach.
LEMMA ReachesItself ==
  ASSUME NEW g, NEW v
  PROVE  Reaches(g, v, v)
BY DEF Reaches

LEMMA ReachesOn ==
  ASSUME NEW g, NEW u, NEW v, NEW w, Reaches(g, u, v), Reaches(g, v, w)
  PROVE  Reaches(g, u, w)
BY DEF Reaches

LEMMA ReachesAlong ==
  ASSUME NEW g, NEW u, NEW v, LeadsTo(g, u, v)
  PROVE  Reaches(g, u, v)
BY DEF Reaches, IsClosed, LeadsTo

\* A route is a sequence of arcs.
IsRoute(g, p, u, v) ==
  /\ p \in Seq(DOMAIN g.nodes) /\ p # <<>> /\ p[1] = u /\ p[Len(p)] = v
  /\ \A i \in 1 .. Len(p) - 1 : LeadsTo(g, p[i], p[i + 1])

\* Sequences that grow and shrink at their end.
LEMMA AppendFacts ==
  ASSUME NEW T, NEW s \in Seq(T), NEW e \in T
  PROVE  /\ Append(s, e) \in Seq(T) /\ Len(Append(s, e)) = Len(s) + 1
         /\ Append(s, e)[Len(s) + 1] = e
         /\ \A i \in 1 .. Len(s) : Append(s, e)[i] = s[i]
OBVIOUS

LEMMA FrontFacts ==
  ASSUME NEW T, NEW s \in Seq(T), s # <<>>
  PROVE  /\ Len(s) \in Nat \ {0} /\ Last(s) = s[Len(s)] /\ Last(s) \in T
         /\ Front(s) \in Seq(T) /\ Len(Front(s)) = Len(s) - 1
         /\ \A i \in 1 .. Len(s) - 1 : Front(s)[i] = s[i]
<1>1. Len(s) \in Nat \ {0}  OBVIOUS
<1>2. Front(s) = SubSeq(s, 1, Len(s) - 1) /\ Last(s) = s[Len(s)]  BY DEF Front, Last
<1>3. \A i \in 1 .. Len(s) : s[i] \in T  OBVIOUS
<1>4. Len(s) \in 1 .. Len(s) /\ Len(s) - 1 \in Nat /\ 1 .. Len(s) - 1 \subseteq 1 .. Len(s)  BY <1>1
<1>5. /\ SubSeq(s, 1, Len(s) - 1) \in Seq(T) /\ Len(SubSeq(s, 1, Len(s) - 1)) = Len(s) - 1
      /\ \A i \in 1 .. Len(s) - 1 : SubSeq(s, 1, Len(s) - 1)[i] = s[i]
  <2> DEFINE k == Len(s) - 1
             b == SubSeq(s, 1, k)
  <2>1. b = [i \in 1 .. k |-> s[i]]  BY <1>1, <1>4
  <2>2. k \in Nat /\ \A i \in 1 .. k : s[i] \in T  BY <1>1, <1>3, <1>4
  <2> HIDE DEF b, k
  <2>3. b \in Seq(T) /\ Len(b) = k /\ \A i \in 1 .. k : b[i] = s[i]  BY <2>1, <2>2
  <2> QED  BY <2>3 DEF b, k
<1> QED  BY <1>1, <1>2, <1>3, <1>4, <1>5

\* A search in depth: t is its stack, o lists the nodes that are finished.  What was
\* listed from q up to the node at p is reached from it, and from what was listed
\* before no arc leads there.
Frame(n) == [v : 1 .. n, next : Nat \ {0}]
HasTree(g, o, p) ==
  \E q \in 1 .. p : /\ \A j \in q .. p : Reaches(g, o[p], o[j])
                    /\ \A x \in 1 .. q - 1 : \A j \in q .. p : ~LeadsTo(g, o[x], o[j])
HasOpenTree(g, t, o, i) ==
  \E q \in 1 .. Len(o) + 1 :
     /\ \A j \in q .. Len(o) : Reaches(g, t[i].v, o[j])
     /\ \A x \in 1 .. q - 1 : \A w : LeadsTo(g, o[x], w) =>
          (\E y \in 1 .. q - 1 : o[y] = w) \/ (\E k \in 1 .. i - 1 : t[k].v = w)
AreApart(t, o) ==
  /\ \A i, j \in 1 .. Len(t) : t[i].v = t[j].v => i = j
  /\ \A i, j \in 1 .. Len(o) : o[i] = o[j] => i = j
  /\ \A i \in 1 .. Len(t) : \A j \in 1 .. Len(o) : t[i].v # o[j]
AreSeen(t, o, seen) ==
  \A w : w \in seen <=> (\E i \in 1 .. Len(t) : t[i].v = w) \/ (\E j \in 1 .. Len(o) : o[j] = w)
IsWalked(g, n, t, o, seen) ==
  /\ t \in Seq(Frame(n)) /\ o \in Seq(1 .. n)
  /\ AreSeen(t, o, seen) /\ AreApart(t, o)
  /\ \A j \in 1 .. Len(o) : \A w : LeadsTo(g, o[j], w) => w \in seen
  /\ \A i \in 1 .. Len(t) : \A j \in i .. Len(t) : Reaches(g, t[i].v, t[j].v)
  /\ \A p \in 1 .. Len(o) : HasTree(g, o, p)
  /\ \A i \in 1 .. Len(t) : HasOpenTree(g, t, o, i)

\* The stacks have the same nodes up to the k-th.
SameNodes(t, r, k) == \A i \in 1 .. k : t[i].v = r[i].v

LEMMA SameOpenTree ==
  ASSUME NEW g, NEW t, NEW o, NEW i \in Nat \ {0}, HasOpenTree(g, t, o, i),
         NEW r, \A k \in 1 .. i : r[k].v = t[k].v
  PROVE  HasOpenTree(g, r, o, i)
<1>1. PICK q \in 1 .. Len(o) + 1 :
         /\ \A j \in q .. Len(o) : Reaches(g, t[i].v, o[j])
         /\ \A x \in 1 .. q - 1 : \A w : LeadsTo(g, o[x], w) =>
              (\E y \in 1 .. q - 1 : o[y] = w) \/ (\E k \in 1 .. i - 1 : t[k].v = w)
  BY DEF HasOpenTree
<1>2. r[i].v = t[i].v /\ \A k \in 1 .. i - 1 : r[k].v = t[k].v  OBVIOUS
<1>3. \A w : (\E k \in 1 .. i - 1 : t[k].v = w) => (\E k \in 1 .. i - 1 : r[k].v = w)  BY <1>2
<1>4. \A j \in q .. Len(o) : Reaches(g, r[i].v, o[j])  BY <1>1, <1>2
<1>5. \A x \in 1 .. q - 1 : \A w : LeadsTo(g, o[x], w) =>
        (\E y \in 1 .. q - 1 : o[y] = w) \/ (\E k \in 1 .. i - 1 : r[k].v = w)
  BY <1>1, <1>3
<1> QED  BY <1>1, <1>4, <1>5 DEF HasOpenTree

LEMMA WalkLooks ==
  ASSUME NEW g, NEW n \in Nat, NEW t, NEW o, NEW seen, IsWalked(g, n, t, o, seen),
         NEW r \in Seq(Frame(n)), Len(r) = Len(t), SameNodes(r, t, Len(t))
  PROVE  IsWalked(g, n, r, o, seen)
<1>1. Len(t) \in Nat /\ \A i \in 1 .. Len(t) : r[i].v = t[i].v
  BY DEF IsWalked, SameNodes
<1>2. AreSeen(r, o, seen) /\ AreApart(r, o)  BY <1>1 DEF IsWalked, AreSeen, AreApart
<1>3. \A i \in 1 .. Len(r) : \A j \in i .. Len(r) : Reaches(g, r[i].v, r[j].v)
  <2> TAKE i \in 1 .. Len(r)
  <2> TAKE j \in i .. Len(r)
  <2>1. i \in 1 .. Len(t) /\ j \in i .. Len(t) /\ j \in 1 .. Len(t)  BY <1>1
  <2> QED  BY <1>1, <2>1 DEF IsWalked
<1>4. \A i \in 1 .. Len(r) : HasOpenTree(g, r, o, i)
  <2> TAKE i \in 1 .. Len(r)
  <2>1. HasOpenTree(g, t, o, i)  BY <1>1 DEF IsWalked
  <2>2. \A k \in 1 .. i : r[k].v = t[k].v  BY <1>1
  <2> QED  BY <1>1, <2>1, <2>2, SameOpenTree
<1> QED  BY <1>2, <1>3, <1>4 DEF IsWalked

\* A node that has not been seen is put on the stack.
LEMMA WalkVisits ==
  ASSUME NEW g, NEW n \in Nat, NEW t, NEW o, NEW seen, IsWalked(g, n, t, o, seen),
         NEW m, m = Len(t), NEW w, w \notin seen, m # 0 => LeadsTo(g, t[m].v, w),
         NEW r \in Seq(Frame(n)), Len(r) = m + 1, SameNodes(r, t, m), r[m + 1].v = w
  PROVE  IsWalked(g, n, r, o, seen \cup {w})
<1>1. m \in Nat /\ Len(o) \in Nat /\ \A i \in 1 .. m : r[i].v = t[i].v
  BY DEF IsWalked, SameNodes
<1>2. \A i \in 1 .. m + 1 : i \in 1 .. m \/ i = m + 1  BY <1>1
<1>3. 1 .. m \subseteq 1 .. m + 1 /\ m + 1 \in 1 .. m + 1 /\ m + 1 \notin 1 .. m  BY <1>1
<1>4. AreSeen(r, o, seen \cup {w})
  <2>1. \A x : x \in seen <=> (\E i \in 1 .. m : t[i].v = x) \/ (\E j \in 1 .. Len(o) : o[j] = x)
    BY DEF IsWalked, AreSeen
  <2>2. \A x : (\E i \in 1 .. m + 1 : r[i].v = x) <=> (\E i \in 1 .. m : t[i].v = x) \/ x = w
    BY <1>1, <1>2, <1>3
  <2> QED  BY <2>1, <2>2 DEF AreSeen
<1>5. AreApart(r, o)
  <2>1. \A i \in 1 .. m : t[i].v # w  BY DEF IsWalked, AreSeen
  <2>2. \A j \in 1 .. Len(o) : o[j] # w  BY DEF IsWalked, AreSeen
  <2>3. AreApart(t, o)  BY DEF IsWalked
  <2>4. \A i, j \in 1 .. m + 1 : r[i].v = r[j].v => i = j
    BY <1>1, <1>2, <2>1, <2>3 DEF AreApart
  <2>5. \A i \in 1 .. m + 1 : \A j \in 1 .. Len(o) : r[i].v # o[j]
    BY <1>1, <1>2, <2>2, <2>3 DEF AreApart
  <2> QED  BY <2>3, <2>4, <2>5 DEF AreApart
<1>6. \A j \in 1 .. Len(o) : \A x : LeadsTo(g, o[j], x) => x \in seen \cup {w}  BY DEF IsWalked
<1>7. \A i \in 1 .. m + 1 : \A j \in i .. m + 1 : Reaches(g, r[i].v, r[j].v)
  <2> TAKE i \in 1 .. m + 1
  <2> TAKE j \in i .. m + 1
  <2>1. CASE i = m + 1
    <3>1. j = i  BY <1>1, <2>1
    <3> QED  BY <3>1, ReachesItself
  <2>2. CASE i \in 1 .. m /\ j \in 1 .. m
    <3>1. j \in i .. m  BY <1>1, <2>2
    <3> QED  BY <1>1, <2>2, <3>1 DEF IsWalked
  <2>3. CASE i \in 1 .. m /\ j = m + 1
    <3>1. m # 0 /\ m \in i .. m  BY <1>1, <2>3
    <3>2. Reaches(g, t[i].v, t[m].v)  BY <2>3, <3>1 DEF IsWalked
    <3>3. Reaches(g, t[m].v, w)  BY <3>1, ReachesAlong
    <3> QED  BY <1>1, <2>3, <3>2, <3>3, ReachesOn
  <2>4. j \in 1 .. m + 1  BY <1>1
  <2> QED  BY <1>2, <2>1, <2>2, <2>3, <2>4
<1>8. \A i \in 1 .. m + 1 : HasOpenTree(g, r, o, i)
  <2> TAKE i \in 1 .. m + 1
  <2>1. CASE i \in 1 .. m
    <3>1. HasOpenTree(g, t, o, i) /\ i \in Nat \ {0}  BY <1>1, <2>1 DEF IsWalked
    <3>2. \A k \in 1 .. i : r[k].v = t[k].v  BY <1>1, <2>1
    <3> QED  BY <3>1, <3>2, SameOpenTree
  <2>2. CASE i = m + 1
    <3> DEFINE q == Len(o) + 1
    <3>1. q \in 1 .. Len(o) + 1 /\ q .. Len(o) = {} /\ 1 .. q - 1 = 1 .. Len(o) /\ 1 .. i - 1 = 1 .. m
      BY <1>1, <2>2
    <3>2. \A x \in 1 .. Len(o) : \A y : LeadsTo(g, o[x], y) =>
            (\E z \in 1 .. Len(o) : o[z] = y) \/ (\E k \in 1 .. m : r[k].v = y)
      BY <1>1 DEF IsWalked, AreSeen
    <3>3. \A x \in 1 .. q - 1 : \A y : LeadsTo(g, o[x], y) =>
            (\E z \in 1 .. q - 1 : o[z] = y) \/ (\E k \in 1 .. i - 1 : r[k].v = y)
      <4> HIDE DEF q
      <4> QED  BY <3>1, <3>2
    <3>4. \A j \in q .. Len(o) : Reaches(g, r[i].v, o[j])
      <4> HIDE DEF q
      <4> QED  BY <3>1
    <3> HIDE DEF q
    <3> QED  BY <3>1, <3>3, <3>4 DEF HasOpenTree
  <2> QED  BY <1>2, <2>1, <2>2
<1> QED  BY <1>4, <1>5, <1>6, <1>7, <1>8 DEF IsWalked

\* The node at the top of the stack is finished.
IsPopped(t, o, r, d, n, m, l) ==
  /\ m = Len(t) /\ m # 0 /\ r \in Seq(Frame(n)) /\ Len(r) = m - 1 /\ SameNodes(r, t, m - 1)
  /\ d \in Seq(1 .. n) /\ l = Len(o) /\ Len(d) = l + 1
  /\ \A j \in 1 .. l : d[j] = o[j]
  /\ d[l + 1] = t[m].v
LEMMA WalkFinishes ==
  ASSUME NEW g, NEW n \in Nat, NEW t, NEW o, NEW seen, IsWalked(g, n, t, o, seen),
         NEW m, NEW l, NEW r, NEW d, IsPopped(t, o, r, d, n, m, l),
         \A w : LeadsTo(g, t[m].v, w) => w \in seen
  PROVE  IsWalked(g, n, r, d, seen)
<1>0. /\ m = Len(t) /\ m # 0 /\ r \in Seq(Frame(n)) /\ Len(r) = m - 1 /\ SameNodes(r, t, m - 1)
      /\ d \in Seq(1 .. n) /\ l = Len(o) /\ Len(d) = l + 1
      /\ \A j \in 1 .. l : d[j] = o[j]
      /\ d[l + 1] = t[m].v
  BY DEF IsPopped
<1> USE <1>0
<1>1. m \in Nat \ {0} /\ l \in Nat /\ \A i \in 1 .. m - 1 : r[i].v = t[i].v
  <2>1. t \in Seq(Frame(n)) /\ o \in Seq(1 .. n)  BY DEF IsWalked
  <2>2. m \in Nat /\ l \in Nat  BY <2>1
  <2>3. \A i \in 1 .. m - 1 : r[i].v = t[i].v  BY <1>0 DEF SameNodes
  <2> QED  BY <2>2, <2>3
<1>2. /\ \A i \in 1 .. m : i \in 1 .. m - 1 \/ i = m
      /\ 1 .. m - 1 \subseteq 1 .. m /\ m \in 1 .. m /\ m \notin 1 .. m - 1
  BY <1>1
<1>3. /\ \A i \in 1 .. l + 1 : i \in 1 .. l \/ i = l + 1
      /\ 1 .. l \subseteq 1 .. l + 1 /\ l + 1 \in 1 .. l + 1 /\ l + 1 \notin 1 .. l
  BY <1>1
<1>4. AreSeen(r, d, seen)
  <2>1. \A x : x \in seen <=> (\E i \in 1 .. m : t[i].v = x) \/ (\E j \in 1 .. l : o[j] = x)
    BY DEF IsWalked, AreSeen
  <2>2. \A x : (\E i \in 1 .. m : t[i].v = x) <=> (\E i \in 1 .. m - 1 : r[i].v = x) \/ x = t[m].v
    BY <1>1, <1>2
  <2>3. \A x : (\E j \in 1 .. l + 1 : d[j] = x) <=> (\E j \in 1 .. l : o[j] = x) \/ x = t[m].v
    BY <1>3
  <2> QED  BY <2>1, <2>2, <2>3 DEF AreSeen
<1>5. AreApart(r, d)
  <2>1. /\ \A i, j \in 1 .. m : t[i].v = t[j].v => i = j
        /\ \A i, j \in 1 .. l : o[i] = o[j] => i = j
        /\ \A i \in 1 .. m : \A j \in 1 .. l : t[i].v # o[j]
    BY DEF IsWalked, AreApart
  <2>2. \A i, j \in 1 .. m - 1 : r[i].v = r[j].v => i = j
    <3> SUFFICES ASSUME NEW i \in 1 .. m - 1, NEW j \in 1 .. m - 1, r[i].v = r[j].v PROVE i = j
      OBVIOUS
    <3>1. t[i].v = t[j].v  BY <1>1
    <3>2. i \in 1 .. m /\ j \in 1 .. m  BY <1>2
    <3> QED  BY <2>1, <3>1, <3>2, Zenon
  <2>3. \A j \in 1 .. l : d[j] = o[j] /\ o[j] # t[m].v
    <3>1. m \in 1 .. m  BY <1>2
    <3>2. \A j \in 1 .. l : t[m].v # o[j]  BY <2>1, <3>1, Zenon
    <3> QED  BY <3>2
  <2>4. \A i, j \in 1 .. l + 1 : d[i] = d[j] => i = j
    <3> SUFFICES ASSUME NEW i \in 1 .. l + 1, NEW j \in 1 .. l + 1, d[i] = d[j] PROVE i = j
      OBVIOUS
    <3>1. CASE i \in 1 .. l /\ j \in 1 .. l  BY <2>1, <2>3, <3>1
    <3>2. CASE i = l + 1 \/ j = l + 1  BY <1>3, <2>3, <3>2
    <3> QED  BY <1>3, <3>1, <3>2
  <2>5. \A i \in 1 .. m - 1 : \A j \in 1 .. l + 1 : r[i].v # d[j]
    <3> TAKE i \in 1 .. m - 1
    <3> TAKE j \in 1 .. l + 1
    <3>1. r[i].v = t[i].v /\ i \in 1 .. m /\ i # m  BY <1>1, <1>2
    <3>2. CASE j \in 1 .. l  BY <2>1, <2>3, <3>1, <3>2
    <3>3. CASE j = l + 1  BY <1>2, <2>1, <3>1, <3>3
    <3> QED  BY <1>3, <3>2, <3>3
  <2> QED  BY <2>2, <2>4, <2>5 DEF AreApart
<1>6. \A j \in 1 .. l + 1 : \A w : LeadsTo(g, d[j], w) => w \in seen  BY <1>3 DEF IsWalked
<1>7. \A i \in 1 .. m - 1 : \A j \in i .. m - 1 : Reaches(g, r[i].v, r[j].v)
  <2> TAKE i \in 1 .. m - 1
  <2> TAKE j \in i .. m - 1
  <2>1. i \in 1 .. m /\ j \in i .. m /\ j \in 1 .. m - 1  BY <1>1
  <2>2. Reaches(g, t[i].v, t[j].v)  BY <2>1 DEF IsWalked
  <2> QED  BY <1>1, <2>1, <2>2
<1>8. \A p \in 1 .. l + 1 : HasTree(g, d, p)
  <2> TAKE p \in 1 .. l + 1
  <2>1. CASE p \in 1 .. l
    <3>1. HasTree(g, o, p)  BY <2>1 DEF IsWalked
    <3>2. \A j \in 1 .. p : d[j] = o[j] /\ p \in 1 .. p  BY <1>1, <2>1
    <3>3. PICK q \in 1 .. p : /\ \A j \in q .. p : Reaches(g, o[p], o[j])
                              /\ \A x \in 1 .. q - 1 : \A j \in q .. p : ~LeadsTo(g, o[x], o[j])
      BY <3>1 DEF HasTree
    <3>4. q .. p \subseteq 1 .. p /\ 1 .. q - 1 \subseteq 1 .. p /\ p \in 1 .. p  BY <1>1, <2>1
    <3>5. \A j \in q .. p : Reaches(g, d[p], d[j])  BY <3>2, <3>3, <3>4
    <3>6. \A x \in 1 .. q - 1 : \A j \in q .. p : ~LeadsTo(g, d[x], d[j])  BY <3>2, <3>3, <3>4
    <3> QED  BY <3>5, <3>6 DEF HasTree
  <2>2. CASE p = l + 1
    <3>1. HasOpenTree(g, t, o, m)  BY <1>2 DEF IsWalked
    <3>2. PICK q \in 1 .. l + 1 :
             /\ \A j \in q .. l : Reaches(g, t[m].v, o[j])
             /\ \A x \in 1 .. q - 1 : \A w : LeadsTo(g, o[x], w) =>
                  (\E y \in 1 .. q - 1 : o[y] = w) \/ (\E k \in 1 .. m - 1 : t[k].v = w)
      BY <3>1 DEF HasOpenTree
    <3>3. q .. p \subseteq 1 .. l + 1 /\ 1 .. q - 1 \subseteq 1 .. l /\ q \in 1 .. p  BY <1>1, <2>2
    <3>4. ASSUME NEW j \in q .. p PROVE Reaches(g, d[p], d[j])
      <4>1. CASE j = p  BY <4>1, ReachesItself
      <4>2. CASE j # p
        <5>1. j \in Nat /\ q \in Nat /\ j >= q /\ j <= p /\ q >= 1  BY <1>1, <2>2, <3>3
        <5>2. j <= l  BY <1>1, <2>2, <4>2, <5>1
        <5>3. j \in q .. l /\ j \in 1 .. l  BY <1>1, <5>1, <5>2
        <5> QED  BY <2>2, <3>2, <5>3
      <4> QED  BY <4>1, <4>2
    <3>5. ASSUME NEW x \in 1 .. q - 1, NEW j \in q .. p, LeadsTo(g, d[x], d[j]) PROVE FALSE
      <4>1. x \in 1 .. l /\ d[x] = o[x] /\ j \in 1 .. l + 1 /\ j \notin 1 .. q - 1  BY <1>1, <3>3
      <4>2. CASE \E y \in 1 .. q - 1 : o[y] = d[j]
        <5>1. PICK y \in 1 .. q - 1 : o[y] = d[j]  BY <4>2
        <5>2. y \in 1 .. l /\ y \in 1 .. l + 1 /\ d[y] = d[j]  BY <1>3, <3>3, <5>1
        <5>3. y = j  BY <1>5, <4>1, <5>2 DEF AreApart
        <5> QED  BY <4>1, <5>3
      <4>3. CASE \E k \in 1 .. m - 1 : t[k].v = d[j]
        <5>1. PICK k \in 1 .. m - 1 : t[k].v = d[j]  BY <4>3
        <5>2. r[k].v = d[j] /\ k \in 1 .. Len(r)  BY <1>1, <5>1
        <5> QED  BY <1>5, <4>1, <5>2 DEF AreApart
      <4> QED  BY <3>2, <3>5, <4>1, <4>2, <4>3
    <3> QED  BY <3>3, <3>4, <3>5 DEF HasTree
  <2> QED  BY <1>3, <2>1, <2>2
<1>9. \A i \in 1 .. m - 1 : HasOpenTree(g, r, d, i)
  <2> TAKE i \in 1 .. m - 1
  <2>1. HasOpenTree(g, t, o, i) /\ i \in Nat /\ i \in 1 .. m /\ m \in i .. m  BY <1>1, <1>2 DEF IsWalked
  <2>2. PICK q \in 1 .. l + 1 :
           /\ \A j \in q .. l : Reaches(g, t[i].v, o[j])
           /\ \A x \in 1 .. q - 1 : \A w : LeadsTo(g, o[x], w) =>
                (\E y \in 1 .. q - 1 : o[y] = w) \/ (\E k \in 1 .. i - 1 : t[k].v = w)
    BY <2>1 DEF HasOpenTree
  <2>3. q \in 1 .. (l + 1) + 1 /\ 1 .. q - 1 \subseteq 1 .. l /\ 1 .. i - 1 \subseteq 1 .. m - 1
    BY <1>1
  <2>4. ASSUME NEW j \in q .. l + 1 PROVE Reaches(g, r[i].v, d[j])
    <3>1. CASE j = l + 1
      <4>1. Reaches(g, t[i].v, t[m].v)  BY <2>1 DEF IsWalked
      <4> QED  BY <1>1, <3>1, <4>1
    <3>2. CASE j # l + 1
      <4>1. j \in q .. l /\ j \in 1 .. l  BY <1>1, <3>2
      <4> QED  BY <1>1, <2>2, <4>1
    <3> QED  BY <3>1, <3>2
  <2>5. \A y \in 1 .. q - 1 : d[y] = o[y]  BY <2>3
  <2>6. \A k \in 1 .. i - 1 : r[k].v = t[k].v  BY <1>1, <2>3
  <2>7. \A x \in 1 .. q - 1 : \A w : LeadsTo(g, d[x], w) =>
          (\E y \in 1 .. q - 1 : d[y] = w) \/ (\E k \in 1 .. i - 1 : r[k].v = w)
    <3>1. \A w : (\E y \in 1 .. q - 1 : o[y] = w) => (\E y \in 1 .. q - 1 : d[y] = w)  BY <2>5
    <3>2. \A w : (\E k \in 1 .. i - 1 : t[k].v = w) => (\E k \in 1 .. i - 1 : r[k].v = w)  BY <2>6
    <3>3. \A x \in 1 .. q - 1 : \A w : LeadsTo(g, d[x], w) => LeadsTo(g, o[x], w)  BY <2>5
    <3> QED  BY <2>2, <3>1, <3>2, <3>3
  <2> QED  BY <2>3, <2>4, <2>7 DEF HasOpenTree
<1> QED  BY <1>4, <1>5, <1>6, <1>7, <1>8, <1>9 DEF IsWalked

\* The states of that search.
IsState(s) == s = [stack |-> s.stack, seen |-> s.seen, order |-> s.order]
HasLooked(g, t, seen) ==
  \A i \in 1 .. Len(t) : \A k \in 1 .. t[i].next - 1 :
    k \in 1 .. Len(OutEdges(g, t[i].v)) /\ OutEdges(g, t[i].v)[k].to \in seen
IsSearch(g, n, s) ==
  IsState(s) /\ IsWalked(g, n, s.stack, s.order, s.seen) /\ HasLooked(g, s.stack, s.seen)
Unseen(g, s) == DOMAIN g.nodes \ s.seen
NextArc(g, s) == OutEdges(g, Last(s.stack).v)[Last(s.stack).next]
LookedOn(s) == Append(Front(s.stack), [v |-> Last(s.stack).v, next |-> Last(s.stack).next + 1])
VisitedOn(s, t, v) ==
  [stack |-> Append(t, [v |-> v, next |-> 1]), seen |-> s.seen \cup {v}, order |-> s.order]
Finishing(s) == [stack |-> Front(s.stack), seen |-> s.seen, order |-> Append(s.order, Last(s.stack).v)]

LEMMA DFSStepCases ==
  ASSUME NEW g, NEW s, IsState(s)
  PROVE  /\ s.stack = <<>> /\ Unseen(g, s) = {} => DFSStep(g, s) = s
         /\ s.stack = <<>> /\ Unseen(g, s) # {} => DFSStep(g, s) = VisitedOn(s, <<>>, Min(Unseen(g, s)))
         /\ s.stack # <<>> /\ Last(s.stack).next > Len(OutEdges(g, Last(s.stack).v)) =>
              DFSStep(g, s) = Finishing(s)
         /\ s.stack # <<>> /\ ~(Last(s.stack).next > Len(OutEdges(g, Last(s.stack).v))) =>
              IF NextArc(g, s).to \in s.seen
              THEN DFSStep(g, s) = [stack |-> LookedOn(s), seen |-> s.seen, order |-> s.order]
              ELSE DFSStep(g, s) = VisitedOn(s, LookedOn(s), NextArc(g, s).to)
<1> DEFINE f == Last(s.stack)
           new == Unseen(g, s)
           arcs == OutEdges(g, f.v)
           looked == LookedOn(s)
<1>1. DFSStep(g, s) =
        IF s.stack = <<>> THEN IF new = {} THEN s ELSE VisitedOn(s, <<>>, Min(new))
        ELSE IF f.next > Len(arcs) THEN Finishing(s)
        ELSE IF arcs[f.next].to \in s.seen THEN [s EXCEPT !.stack = looked]
        ELSE VisitedOn(s, looked, arcs[f.next].to)
  BY DEF DFSStep, Unseen, LookedOn, VisitedOn, Finishing
<1>2. [s EXCEPT !.stack = looked] = [stack |-> looked, seen |-> s.seen, order |-> s.order]
  <2> HIDE DEF looked
  <2> QED  BY DEF IsState
<1>3. arcs[f.next] = NextArc(g, s)  BY DEF NextArc
<1> HIDE DEF new, arcs, looked
<1>4. CASE s.stack = <<>>
  <2> HIDE DEF f
  <2> QED  BY <1>1, <1>4 DEF new
<1>5. CASE s.stack # <<>>
  <2>1. DFSStep(g, s) =
        IF f.next > Len(arcs) THEN Finishing(s)
        ELSE IF NextArc(g, s).to \in s.seen THEN [stack |-> looked, seen |-> s.seen, order |-> s.order]
        ELSE VisitedOn(s, looked, NextArc(g, s).to)
    BY <1>1, <1>2, <1>3, <1>5
  <2> QED  BY <1>5, <2>1 DEF arcs, looked
<1> QED  BY <1>4, <1>5

\* What is done of the search; each step does something.
Tasks(g, n) == ((1 .. n) \X {-1}) \cup ((1 .. n) \X {0}) \cup Looks(g, n)
IsFinishedIn(o, v) == \E j \in 1 .. Len(o) : o[j] = v
TaskDone(t, o, seen, v, k) ==
  \/ k = -1 /\ v \in seen
  \/ k # -1 /\ IsFinishedIn(o, v)
  \/ k > 0 /\ \E i \in 1 .. Len(t) : t[i].v = v /\ k < t[i].next
Advance(g, n, s) == {x \in Tasks(g, n) : TaskDone(s.stack, s.order, s.seen, x[1], x[2])}
IsOver(g, s) == s.stack = <<>> /\ DOMAIN g.nodes \subseteq s.seen
Advances(g, n, s, r) == Advance(g, n, s) \subseteq Advance(g, n, r) /\ Advance(g, n, s) # Advance(g, n, r)

LEMMA TaskNumber ==
  ASSUME NEW g, NEW n, IsNetwork(g, n)
  PROVE  /\ IsFiniteSet(Tasks(g, n)) /\ Cardinality(Tasks(g, n)) <= 2 * n + g.edgeCount
         /\ Cardinality(Tasks(g, n)) \in Nat
<1> DEFINE A == (1 .. n) \X {-1}
           B == (1 .. n) \X {0}
           C == Looks(g, n)
<1>1. n \in Nat /\ g.edgeCount \in Nat /\ IsFiniteSet(C) /\ Cardinality(C) <= g.edgeCount
  BY DEF IsNetwork
<1>2. IsFiniteSet(1 .. n) /\ Cardinality(1 .. n) = n
  <2>1. IsFiniteSet(1 .. n) /\ Cardinality(1 .. n) = IF 1 > n THEN 0 ELSE n - 1 + 1  BY <1>1, FS_Interval
  <2> QED  BY <1>1, <2>1
<1>3. \A c : /\ IsFiniteSet((1 .. n) \X {c}) /\ Cardinality((1 .. n) \X {c}) = n
  <2> TAKE c
  <2>1. IsFiniteSet({c}) /\ Cardinality({c}) = 1  BY FS_Singleton
  <2>2. IsFiniteSet((1 .. n) \X {c}) /\ Cardinality((1 .. n) \X {c}) = Cardinality(1 .. n) * Cardinality({c})
    BY <1>2, <2>1, FS_Product
  <2> QED  BY <1>1, <1>2, <2>1, <2>2
<1>4. IsFiniteSet(A) /\ Cardinality(A) = n /\ IsFiniteSet(B) /\ Cardinality(B) = n  BY <1>3
<1> HIDE DEF A, B, C
<1>5. /\ IsFiniteSet(A \cup B) /\ IsFiniteSet(A \cap B)
      /\ Cardinality(A \cup B) = Cardinality(A) + Cardinality(B) - Cardinality(A \cap B)
  BY <1>4, FS_Union, FS_Intersection
<1>6. /\ IsFiniteSet((A \cup B) \cup C) /\ IsFiniteSet((A \cup B) \cap C)
      /\ Cardinality((A \cup B) \cup C) = Cardinality(A \cup B) + Cardinality(C) - Cardinality((A \cup B) \cap C)
  BY <1>1, <1>5, FS_Union, FS_Intersection
<1>7. /\ Cardinality(A \cap B) \in Nat /\ Cardinality((A \cup B) \cap C) \in Nat /\ Cardinality(C) \in Nat
      /\ Cardinality((A \cup B) \cup C) \in Nat
  BY <1>1, <1>5, <1>6, FS_CardinalityType
<1>8. Tasks(g, n) = (A \cup B) \cup C  BY DEF Tasks, A, B, C
<1> QED  BY <1>1, <1>4, <1>5, <1>6, <1>7, <1>8

\* What is done stays done.
KeepsFrames(t, r, d) ==
  \A i \in 1 .. Len(t) :
    IsFinishedIn(d, t[i].v) \/ \E j \in 1 .. Len(r) : r[j].v = t[i].v /\ r[j].next >= t[i].next
LEMMA AdvanceGrows ==
  ASSUME NEW g, NEW n, NEW s, NEW r, s.seen \subseteq r.seen, s.stack \in Seq(Frame(n)),
         r.stack \in Seq(Frame(n)),
         \A v : IsFinishedIn(s.order, v) => IsFinishedIn(r.order, v),
         KeepsFrames(s.stack, r.stack, r.order), IsNetwork(g, n),
         NEW x \in Tasks(g, n), ~TaskDone(s.stack, s.order, s.seen, x[1], x[2]),
         TaskDone(r.stack, r.order, r.seen, x[1], x[2])
  PROVE  Advances(g, n, s, r)
<1>1. ASSUME NEW y \in Tasks(g, n), TaskDone(s.stack, s.order, s.seen, y[1], y[2])
      PROVE  TaskDone(r.stack, r.order, r.seen, y[1], y[2])
  <2> DEFINE v == y[1]
             k == y[2]
  <2>1. k \in Int
    <3>1. \A u \in 1 .. n : Len(OutEdges(g, u)) \in Nat  BY DEF IsNetwork
    <3> QED  BY <3>1 DEF Tasks, Looks
  <2> HIDE DEF v, k
  <2>2. TaskDone(s.stack, s.order, s.seen, v, k)  BY <1>1 DEF v, k
  <2>3. CASE k = -1 /\ v \in s.seen  BY <2>3 DEF TaskDone, v, k
  <2>4. CASE k # -1 /\ IsFinishedIn(s.order, v)  BY <2>4 DEF TaskDone, v, k
  <2>5. CASE k > 0 /\ \E i \in 1 .. Len(s.stack) : s.stack[i].v = v /\ k < s.stack[i].next
    <3>1. PICK i \in 1 .. Len(s.stack) : s.stack[i].v = v /\ k < s.stack[i].next  BY <2>5
    <3>2. CASE IsFinishedIn(r.order, v)
      <4>1. k # -1  BY <2>1, <2>5
      <4> QED  BY <3>2, <4>1 DEF TaskDone, v, k
    <3>3. CASE \E j \in 1 .. Len(r.stack) : r.stack[j].v = v /\ r.stack[j].next >= s.stack[i].next
      <4>1. PICK j \in 1 .. Len(r.stack) : r.stack[j].v = v /\ r.stack[j].next >= s.stack[i].next
        BY <3>3
      <4>2. s.stack[i] \in Frame(n) /\ r.stack[j] \in Frame(n)  BY <3>1
      <4>3. s.stack[i].next \in Nat /\ r.stack[j].next \in Nat  BY <4>2 DEF Frame
      <4>4. k < r.stack[j].next  BY <2>1, <3>1, <4>1, <4>3
      <4> QED  BY <2>5, <4>1, <4>4 DEF TaskDone, v, k
    <3> QED  BY <3>1, <3>2, <3>3 DEF KeepsFrames
  <2> QED  BY <2>2, <2>3, <2>4, <2>5 DEF TaskDone
<1>2. x \in Advance(g, n, r) /\ x \notin Advance(g, n, s)  BY DEF Advance
<1>3. Advance(g, n, s) \subseteq Advance(g, n, r)  BY <1>1 DEF Advance
<1> QED  BY <1>2, <1>3 DEF Advances

\* The node w is visited from the search s, whose stack t is but for the arc that
\* was looked at.
LEMMA VisitKeeps ==
  ASSUME NEW g, NEW n, IsNetwork(g, n), NEW s, IsSearch(g, n, s),
         NEW t, IsWalked(g, n, t, s.order, s.seen), KeepsFrames(s.stack, t, s.order),
         NEW w \in 1 .. n, w \notin s.seen, HasLooked(g, t, s.seen \cup {w}),
         Len(t) # 0 => LeadsTo(g, t[Len(t)].v, w)
  PROVE  IsSearch(g, n, VisitedOn(s, t, w)) /\ Advances(g, n, s, VisitedOn(s, t, w))
<1> DEFINE f == [v |-> w, next |-> 1]
           r == VisitedOn(s, t, w)
           m == Len(t)
<1>1. r.stack = Append(t, f) /\ r.seen = s.seen \cup {w} /\ r.order = s.order /\ IsState(r)
  BY DEF VisitedOn, IsState
<1>2. f \in Frame(n) /\ f.v = w /\ f.next = 1  BY DEF Frame
<1>3. t \in Seq(Frame(n)) /\ m \in Nat /\ n \in Nat  BY DEF IsWalked, IsNetwork
<1> HIDE DEF f
<1>4. /\ r.stack \in Seq(Frame(n)) /\ Len(r.stack) = m + 1 /\ r.stack[m + 1] = f
      /\ \A i \in 1 .. m : r.stack[i] = t[i]
  BY <1>1, <1>2, <1>3, AppendFacts
<1> HIDE DEF r, m
<1>5. SameNodes(r.stack, t, m)  BY <1>4 DEF SameNodes
<1>6. IsWalked(g, n, r.stack, r.order, r.seen)
  <2>1. m = Len(t)  BY DEF m
  <2>2. r.stack[m + 1].v = w  BY <1>2, <1>4
  <2>3. m # 0 => LeadsTo(g, t[m].v, w)  BY <2>1
  <2> DEFINE q == r.stack
             o == s.order
             seen == s.seen
  <2>4. IsWalked(g, n, t, o, seen) /\ w \notin seen  OBVIOUS
  <2>5. q \in Seq(Frame(n)) /\ Len(q) = m + 1 /\ SameNodes(q, t, m) /\ q[m + 1].v = w
    BY <1>4, <1>5, <2>2
  <2>6. r.order = o /\ r.seen = seen \cup {w}  BY <1>1
  <2> HIDE DEF q, o, seen
  <2>7. IsWalked(g, n, q, o, seen \cup {w})  BY <1>3, <2>1, <2>3, <2>4, <2>5, WalkVisits
  <2> QED  BY <2>6, <2>7 DEF q
<1>7. HasLooked(g, r.stack, r.seen)
  <2> SUFFICES ASSUME NEW i \in 1 .. m + 1, NEW k \in 1 .. r.stack[i].next - 1
               PROVE  /\ k \in 1 .. Len(OutEdges(g, r.stack[i].v))
                      /\ OutEdges(g, r.stack[i].v)[k].to \in r.seen
    BY <1>4 DEF HasLooked
  <2>1. CASE i \in 1 .. m
    <3>1. r.stack[i] = t[i] /\ i \in 1 .. Len(t)  BY <1>4, <2>1 DEF m
    <3> QED  BY <1>1, <3>1 DEF HasLooked
  <2>2. CASE i = m + 1
    <3>1. r.stack[i].next = 1  BY <1>2, <1>4, <2>2
    <3> QED  BY <3>1
  <2> QED  BY <1>3, <2>1, <2>2
<1>8. IsSearch(g, n, r)  BY <1>1, <1>6, <1>7 DEF IsSearch
<1>9. Advances(g, n, s, r)
  <2> DEFINE x == <<w, -1>>
  <2>1. x \in Tasks(g, n) /\ x[1] = w /\ x[2] = -1  BY DEF Tasks
  <2>2. ~TaskDone(s.stack, s.order, s.seen, w, -1) /\ TaskDone(r.stack, r.order, r.seen, w, -1)
    BY <1>1 DEF TaskDone
  <2>3. KeepsFrames(s.stack, r.stack, r.order)
    <3> SUFFICES ASSUME NEW i \in 1 .. Len(s.stack), ~IsFinishedIn(r.order, s.stack[i].v)
                 PROVE  \E j \in 1 .. m + 1 : r.stack[j].v = s.stack[i].v /\ r.stack[j].next >= s.stack[i].next
      BY <1>4 DEF KeepsFrames
    <3>1. PICK j \in 1 .. m : t[j].v = s.stack[i].v /\ t[j].next >= s.stack[i].next
      BY <1>1 DEF KeepsFrames, m
    <3>2. r.stack[j] = t[j] /\ j \in 1 .. m + 1  BY <1>3, <1>4, <3>1
    <3> QED  BY <3>1, <3>2
  <2>4. s.seen \subseteq r.seen /\ \A v : IsFinishedIn(s.order, v) => IsFinishedIn(r.order, v)  BY <1>1
  <2>5. s.stack \in Seq(Frame(n))  BY DEF IsSearch, IsWalked
  <2> HIDE DEF x
  <2> QED  BY <1>4, <2>1, <2>2, <2>3, <2>4, <2>5, AdvanceGrows
<1> QED  BY <1>8, <1>9 DEF r

\* One of the arcs of the node at the top of the stack is looked at.
HasLookedOn(g, n, s, t) ==
  /\ IsWalked(g, n, t, s.order, s.seen) /\ Len(t) = Len(s.stack)
  /\ NextArc(g, s) \in ToSet(OutEdges(g, t[Len(t)].v)) /\ NextArc(g, s).to \in 1 .. n
  /\ HasLooked(g, t, s.seen \cup {NextArc(g, s).to})
  /\ t[Len(t)] = [v |-> Last(s.stack).v, next |-> Last(s.stack).next + 1]
  /\ \A i \in 1 .. Len(t) - 1 : t[i] = s.stack[i]
LEMMA LookKeeps ==
  ASSUME NEW g, NEW n, IsNetwork(g, n), NEW s, IsSearch(g, n, s), s.stack # <<>>,
         ~(Last(s.stack).next > Len(OutEdges(g, Last(s.stack).v)))
  PROVE  HasLookedOn(g, n, s, LookedOn(s)) /\ KeepsFrames(s.stack, LookedOn(s), s.order)
<1> DEFINE st == s.stack
           f == Last(st)
           f1 == [v |-> f.v, next |-> f.next + 1]
           t == LookedOn(s)
           m == Len(st)
           out == OutEdges(g, f.v)
<1>1. st \in Seq(Frame(n)) /\ n \in Nat  BY DEF IsSearch, IsWalked, IsNetwork
<1>2. /\ m \in Nat \ {0} /\ f = st[m] /\ f \in Frame(n)
      /\ Front(st) \in Seq(Frame(n)) /\ Len(Front(st)) = m - 1
      /\ \A i \in 1 .. m - 1 : Front(st)[i] = st[i]
  BY <1>1, FrontFacts
<1>3. t = Append(Front(st), f1)  BY DEF LookedOn
<1> HIDE DEF f, m, t
<1>4. f.v \in 1 .. n /\ f.next \in Nat \ {0} /\ f1 \in Frame(n)  BY <1>2 DEF Frame
<1>5. f1.v = f.v /\ f1.next = f.next + 1  OBVIOUS
<1> HIDE DEF f1
<1>6. /\ t \in Seq(Frame(n)) /\ Len(t) = (m - 1) + 1 /\ t[(m - 1) + 1] = f1
      /\ \A i \in 1 .. m - 1 : t[i] = Front(st)[i]
  BY <1>2, <1>3, <1>4, AppendFacts
<1>7. /\ Len(t) = m /\ t[m] = f1 /\ \A i \in 1 .. m - 1 : t[i] = st[i]
      /\ \A i \in 1 .. m : i \in 1 .. m - 1 \/ i = m
  BY <1>2, <1>6
<1>8. SameNodes(t, st, m)  BY <1>2, <1>5, <1>7 DEF SameNodes
<1>9. IsWalked(g, n, t, s.order, s.seen)
  <2>1. IsWalked(g, n, st, s.order, s.seen) /\ m = Len(st)  BY DEF IsSearch, m
  <2> HIDE DEF st
  <2> QED  BY <1>1, <1>6, <1>7, <1>8, <2>1, WalkLooks
<1>10. out \in Seq(Edge(n)) /\ f.next \in 1 .. Len(out) /\ NextArc(g, s) = out[f.next]
  <2>1. out \in Seq(Edge(n))  BY <1>4 DEF IsNetwork
  <2>2. Len(out) \in Nat /\ ~(f.next > Len(out)) /\ NextArc(g, s) = out[f.next]  BY <2>1 DEF f, NextArc
  <2> QED  BY <1>4, <2>1, <2>2
<1> HIDE DEF out
<1>11. NextArc(g, s) \in ToSet(out) /\ NextArc(g, s).to \in 1 .. n
  <2>1. DOMAIN out = 1 .. Len(out) /\ out[f.next] \in Edge(n)  BY <1>10
  <2> QED  BY <1>10, <2>1 DEF ToSet, Edge
<1>12. HasLooked(g, t, s.seen \cup {NextArc(g, s).to})
  <2> SUFFICES ASSUME NEW i \in 1 .. m, NEW k \in 1 .. t[i].next - 1
               PROVE  /\ k \in 1 .. Len(OutEdges(g, t[i].v))
                      /\ OutEdges(g, t[i].v)[k].to \in s.seen \cup {NextArc(g, s).to}
    BY <1>7 DEF HasLooked
  <2>1. HasLooked(g, st, s.seen) /\ m = Len(st)  BY DEF IsSearch, m
  <2>2. CASE i \in 1 .. m - 1
    <3>1. t[i] = st[i]  BY <1>7, <2>2
    <3> QED  BY <2>1, <3>1 DEF HasLooked
  <2>3. CASE i = m
    <3>1. t[i].v = f.v /\ t[i].next = f.next + 1 /\ out = OutEdges(g, t[i].v)
      BY <1>5, <1>7, <2>3 DEF out
    <3>2. CASE k = f.next  BY <1>10, <3>1, <3>2
    <3>3. CASE k # f.next
      <4>1. k \in 1 .. f.next - 1  BY <1>4, <3>1, <3>3
      <4>2. k \in 1 .. st[m].next - 1 /\ m \in 1 .. Len(st)  BY <1>2, <2>1, <4>1
      <4> QED  BY <1>2, <2>1, <3>1, <4>2 DEF HasLooked, out
    <3> QED  BY <3>2, <3>3
  <2> QED  BY <1>7, <2>2, <2>3
<1>13. KeepsFrames(st, t, s.order)
  <2> SUFFICES ASSUME NEW i \in 1 .. m
               PROVE  t[i].v = st[i].v /\ t[i].next >= st[i].next
    BY <1>7 DEF KeepsFrames, m
  <2>1. st[i] \in Frame(n) /\ st[i].next \in Nat
    <3>1. i \in 1 .. Len(st)  BY DEF m
    <3> HIDE DEF st
    <3>2. st[i] \in Frame(n)  BY <1>1, <3>1
    <3> QED  BY <3>2 DEF Frame
  <2>2. CASE i \in 1 .. m - 1  BY <1>7, <2>1, <2>2
  <2>3. CASE i = m  BY <1>2, <1>4, <1>5, <1>7, <2>3
  <2> QED  BY <1>7, <2>2, <2>3
<1>14. t[Len(t)].v = f.v  BY <1>5, <1>7
<1> QED  BY <1>7, <1>9, <1>11, <1>12, <1>13, <1>14 DEF HasLookedOn, t, m, f, f1, out

\* A step of the search keeps it one, and does something unless it is over.
LEMMA DFSStepKeeps ==
  ASSUME NEW g, NEW n, IsNetwork(g, n), NEW s, IsSearch(g, n, s)
  PROVE  /\ IsSearch(g, n, DFSStep(g, s))
         /\ IF IsOver(g, s) THEN DFSStep(g, s) = s ELSE Advances(g, n, s, DFSStep(g, s))
<1> DEFINE st == s.stack
           f == Last(st)
           r == DFSStep(g, s)
           m == Len(st)
<1>1. st \in Seq(Frame(n)) /\ s.order \in Seq(1 .. n) /\ n \in Nat /\ DOMAIN g.nodes = 1 .. n /\ IsState(s)
  BY DEF IsSearch, IsWalked, IsNetwork
<1>2. IsWalked(g, n, st, s.order, s.seen) /\ HasLooked(g, st, s.seen)  BY DEF IsSearch
<1>3. CASE st = <<>> /\ Unseen(g, s) = {}
  <2>1. r = s  BY <1>1, <1>3, DFSStepCases
  <2>2. IsOver(g, s)  BY <1>3 DEF IsOver, Unseen
  <2> QED  BY <2>1, <2>2
<1>4. CASE st = <<>> /\ Unseen(g, s) # {}
  <2> DEFINE w == Min(Unseen(g, s))
  <2>1. w \in Unseen(g, s)
    <3>1. Unseen(g, s) \subseteq Nat  BY <1>1 DEF Unseen
    <3>2. \E x \in Unseen(g, s) : \A y \in Unseen(g, s) : x <= y  BY <1>4, <3>1, LeastNumber
    <3> QED  BY <3>2 DEF Min
  <2>2. w \in 1 .. n /\ w \notin s.seen  BY <1>1, <2>1 DEF Unseen
  <2>3. r = VisitedOn(s, st, w)  BY <1>1, <1>4, DFSStepCases
  <2> HIDE DEF w
  <2>4. Len(st) = 0  BY <1>4
  <2>5. KeepsFrames(st, st, s.order) /\ HasLooked(g, st, s.seen \cup {w})
    BY <2>4 DEF KeepsFrames, HasLooked
  <2>6. ~IsOver(g, s)  BY <1>4 DEF IsOver, Unseen
  <2> HIDE DEF r
  <2> QED  BY <1>2, <2>2, <2>3, <2>4, <2>5, <2>6, VisitKeeps DEF r
<1>5. CASE st # <<>> /\ f.next > Len(OutEdges(g, f.v))
  <2>1. r = Finishing(s)  BY <1>1, <1>5, DFSStepCases
  <2>2. r.stack = Front(st) /\ r.seen = s.seen /\ r.order = Append(s.order, f.v) /\ IsState(r)
    BY <2>1 DEF Finishing, IsState
  <2>3. /\ m \in Nat \ {0} /\ f = st[m] /\ f \in Frame(n)
        /\ r.stack \in Seq(Frame(n)) /\ Len(r.stack) = m - 1
        /\ \A i \in 1 .. m - 1 : r.stack[i] = st[i]
    BY <1>1, <1>5, <2>2, FrontFacts
  <2> HIDE DEF r, f
  <2>4. f.v \in 1 .. n /\ f.next \in Nat  BY <2>3 DEF Frame
  <2> DEFINE l == Len(s.order)
             x == <<f.v, 0>>
  <2>5. /\ r.order \in Seq(1 .. n) /\ Len(r.order) = l + 1 /\ r.order[l + 1] = f.v /\ l \in Nat
        /\ \A j \in 1 .. l : r.order[j] = s.order[j]
    BY <1>1, <2>2, <2>4, AppendFacts
  <2>6. \A w : LeadsTo(g, st[m].v, w) => w \in s.seen
    <3> SUFFICES ASSUME NEW e \in ToSet(OutEdges(g, f.v)) PROVE e.to \in s.seen
      BY <2>3 DEF LeadsTo
    <3>1. OutEdges(g, f.v) \in Seq(Edge(n))  BY <2>4 DEF IsNetwork
    <3>2. PICK k \in 1 .. Len(OutEdges(g, f.v)) : e = OutEdges(g, f.v)[k]  BY <3>1 DEF ToSet
    <3>3. k \in 1 .. f.next - 1  BY <1>5, <2>4, <3>1 DEF f
    <3> QED  BY <1>2, <2>3, <3>2, <3>3 DEF HasLooked
  <2>7. SameNodes(r.stack, st, m - 1)  BY <2>3 DEF SameNodes
  <2>8. IsWalked(g, n, r.stack, r.order, s.seen)
    <3>1. m = Len(st) /\ m # 0 /\ l = Len(s.order) /\ r.order[l + 1] = st[m].v  BY <2>3, <2>5
    <3> DEFINE q == r.stack
               d == r.order
               o == s.order
               seen == s.seen
    <3>2. IsWalked(g, n, st, o, seen) /\ \A w : LeadsTo(g, st[m].v, w) => w \in seen
      BY <1>2, <2>6
    <3>3. IsPopped(st, o, q, d, n, m, l)
      BY <2>3, <2>5, <2>7, <3>1 DEF IsPopped
    <3> HIDE DEF m, l, st, q, d, o, seen
    <3>4. n \in Nat  BY <1>1
    <3>5. IsWalked(g, n, q, d, seen)  BY <3>2, <3>3, <3>4, WalkFinishes
    <3> QED  BY <3>5 DEF q, d, seen
  <2>9. HasLooked(g, r.stack, s.seen)
    <3>1. \A i \in 1 .. m - 1 : i \in 1 .. m  BY <2>3
    <3> QED  BY <1>2, <2>3, <3>1 DEF HasLooked
  <2>10. IsSearch(g, n, r)  BY <2>2, <2>8, <2>9 DEF IsSearch
  <2>11. \A v : IsFinishedIn(r.order, v) <=> IsFinishedIn(s.order, v) \/ v = f.v
    <3>1. /\ \A j \in 1 .. l + 1 : j \in 1 .. l \/ j = l + 1
          /\ 1 .. l \subseteq 1 .. l + 1 /\ l + 1 \in 1 .. l + 1
      BY <2>5
    <3> QED  BY <2>5, <3>1 DEF IsFinishedIn
  <2>12. KeepsFrames(st, r.stack, r.order)
    <3> SUFFICES ASSUME NEW i \in 1 .. m
                 PROVE  \/ IsFinishedIn(r.order, st[i].v)
                        \/ \E j \in 1 .. m - 1 : r.stack[j].v = st[i].v /\ r.stack[j].next >= st[i].next
      BY <2>3 DEF KeepsFrames
    <3>1. CASE i = m  BY <2>3, <2>11, <3>1
    <3>2. CASE i \in 1 .. m - 1
      <4>1. st[i] \in Frame(n) /\ r.stack[i] = st[i]  BY <1>1, <2>3, <3>2
      <4>2. st[i].next \in Nat /\ r.stack[i].v = st[i].v /\ r.stack[i].next >= st[i].next
        BY <4>1 DEF Frame
      <4> QED  BY <3>2, <4>2
    <3> QED  BY <2>3, <3>1, <3>2
  <2>13. x \in Tasks(g, n) /\ x[1] = f.v /\ x[2] = 0  BY <2>4 DEF Tasks
  <2>14. ~TaskDone(st, s.order, s.seen, f.v, 0)
    <3>1. AreApart(st, s.order) /\ m \in 1 .. Len(st)  BY <1>2, <2>3 DEF IsWalked
    <3>2. ~IsFinishedIn(s.order, f.v)  BY <2>3, <3>1 DEF AreApart, IsFinishedIn
    <3> QED  BY <3>2 DEF TaskDone
  <2>15. TaskDone(r.stack, r.order, r.seen, f.v, 0)  BY <2>11 DEF TaskDone
  <2>16. Advances(g, n, s, r)
    <3> HIDE DEF x
    <3> QED  BY <1>1, <2>2, <2>3, <2>11, <2>12, <2>13, <2>14, <2>15, AdvanceGrows
  <2>17. ~IsOver(g, s)  BY <1>5 DEF IsOver
  <2> QED  BY <2>10, <2>16, <2>17 DEF r
<1>6. CASE st # <<>> /\ ~(f.next > Len(OutEdges(g, f.v)))
  <2> DEFINE t == LookedOn(s)
             w == NextArc(g, s).to
  <2>1. HasLookedOn(g, n, s, t) /\ KeepsFrames(st, t, s.order)  BY <1>6, LookKeeps
  <2>2. /\ m \in Nat \ {0} /\ f = st[m] /\ f \in Frame(n)
    BY <1>1, <1>6, FrontFacts
  <2>3. IF w \in s.seen THEN r = [stack |-> t, seen |-> s.seen, order |-> s.order]
        ELSE r = VisitedOn(s, t, w)
    BY <1>1, <1>6, DFSStepCases
  <2>4. ~IsOver(g, s)  BY <1>6 DEF IsOver
  <2>5. /\ IsWalked(g, n, t, s.order, s.seen) /\ Len(t) = m /\ w \in 1 .. n
        /\ LeadsTo(g, t[m].v, w) /\ HasLooked(g, t, s.seen \cup {w})
        /\ t[m] = [v |-> f.v, next |-> f.next + 1]
    BY <2>1 DEF HasLookedOn, LeadsTo
  <2> HIDE DEF t, w, r, f, m
  <2>6. CASE w \notin s.seen
    <3>1. Len(t) # 0 => LeadsTo(g, t[Len(t)].v, w)  BY <2>5
    <3> QED  BY <2>1, <2>3, <2>4, <2>5, <2>6, <3>1, VisitKeeps DEF r
  <2>7. CASE w \in s.seen
    <3>1. r.stack = t /\ r.seen = s.seen /\ r.order = s.order /\ IsState(r)
      BY <2>3, <2>7 DEF IsState
    <3>2. s.seen \cup {w} = s.seen  BY <2>7
    <3>3. IsSearch(g, n, r)  BY <2>5, <3>1, <3>2 DEF IsSearch
    <3> DEFINE k == f.next
               x == <<f.v, k>>
    <3>4. f.v \in 1 .. n /\ k \in Nat \ {0}  BY <2>2 DEF Frame
    <3>5. k \in 1 .. Len(OutEdges(g, f.v))
      <4>1. Len(OutEdges(g, f.v)) \in Nat  BY <3>4 DEF IsNetwork
      <4>2. ~(k > Len(OutEdges(g, f.v)))  BY <1>6 DEF f
      <4> HIDE DEF k
      <4> QED  BY <3>4, <4>1, <4>2
    <3> HIDE DEF k
    <3>6. x \in Tasks(g, n) /\ x[1] = f.v /\ x[2] = k
      <4>1. x \in {f.v} \X (1 .. Len(OutEdges(g, f.v)))  BY <3>5
      <4>2. x \in Looks(g, n)  BY <3>4, <4>1 DEF Looks
      <4> QED  BY <4>2 DEF Tasks
    <3>7. ~TaskDone(st, s.order, s.seen, f.v, k)
      <4>1. AreApart(st, s.order) /\ m \in 1 .. Len(st)  BY <1>2, <2>2 DEF IsWalked, m
      <4>2. ~IsFinishedIn(s.order, f.v)  BY <2>2, <4>1 DEF AreApart, IsFinishedIn
      <4>3. \A i \in 1 .. Len(st) : st[i].v = f.v => i = m  BY <2>2, <4>1 DEF AreApart
      <4>4. st[m].next = k  BY <2>2 DEF k
      <4>5. ~(k < k) /\ k # -1  BY <3>4
      <4>6. \A i \in 1 .. Len(st) : st[i].v = f.v => ~(k < st[i].next)  BY <4>3, <4>4, <4>5
      <4> QED  BY <4>2, <4>5, <4>6 DEF TaskDone
    <3>8. TaskDone(r.stack, r.order, r.seen, f.v, k)
      <4>1. m \in 1 .. Len(t) /\ t[m].v = f.v /\ t[m].next = k + 1  BY <2>2, <2>5 DEF k
      <4>2. k > 0 /\ k < k + 1  BY <3>4
      <4>3. \E i \in 1 .. Len(r.stack) : r.stack[i].v = f.v /\ k < r.stack[i].next  BY <3>1, <4>1, <4>2
      <4> QED  BY <4>2, <4>3 DEF TaskDone
    <3>9. KeepsFrames(st, r.stack, r.order) /\ s.seen \subseteq r.seen
      BY <2>1, <3>1
    <3>10. \A v : IsFinishedIn(s.order, v) => IsFinishedIn(r.order, v)  BY <3>1
    <3>11. r.stack \in Seq(Frame(n))  BY <3>3 DEF IsSearch, IsWalked
    <3>12. Advances(g, n, s, r)
      <4> HIDE DEF x
      <4> QED  BY <1>1, <3>6, <3>7, <3>8, <3>9, <3>10, <3>11, AdvanceGrows
    <3> QED  BY <2>4, <3>3, <3>12 DEF r
  <2> QED  BY <2>6, <2>7
<1> QED  BY <1>3, <1>4, <1>5, <1>6

\* What the first pass leaves: every node is listed, and has its tree.
IsFinishOrder(g, n, o) ==
  /\ o \in Seq(1 .. n) /\ \A v \in 1 .. n : \E j \in 1 .. Len(o) : o[j] = v
  /\ \A p \in 1 .. Len(o) : HasTree(g, o, p)
LEMMA FinishOrderFacts ==
  ASSUME NEW g, NEW n, IsNetwork(g, n)
  PROVE  IsFinishOrder(g, n, FinishOrder(g))
<1> DEFINE m == 2 * Len(g.nodes) + g.edgeCount
           S == {s \in [stack : Seq(Frame(n)), seen : SUBSET (1 .. n), order : Seq(1 .. n)] : IsSearch(g, n, s)}
           none == [stack |-> <<>>, seen |-> {}, order |-> <<>>]
           Turn == [ks \in (1 .. m) \X S |-> DFSStep(g, ks[2])]
           IsSearching(f) == f = [k \in 0 .. m |-> IF k = 0 THEN none ELSE DFSStep(g, f[k - 1])]
           state == CHOOSE f : IsSearching(f)
<1>1. m \in Nat /\ m = 2 * n + g.edgeCount /\ n \in Nat /\ DOMAIN g.nodes = 1 .. n /\ g.edgeCount \in Nat
  BY DEF IsNetwork
<1>2. FinishOrder(g) = state[m].order  BY DEF FinishOrder
<1> HIDE DEF m
<1>3. ASSUME NEW s, IsSearch(g, n, s) PROVE s \in S
  <2> DEFINE a == s.stack
             b == s.seen
             c == s.order
  <2>1. s = [stack |-> a, seen |-> b, order |-> c]  BY <1>3 DEF IsSearch, IsState
  <2>2. a \in Seq(Frame(n)) /\ c \in Seq(1 .. n)  BY <1>3 DEF IsSearch, IsWalked
  <2>3. \A w \in b : w \in 1 .. n
    <3> TAKE w \in b
    <3>1. (\E i \in 1 .. Len(a) : a[i].v = w) \/ (\E j \in 1 .. Len(c) : c[j] = w)
      BY <1>3 DEF IsSearch, IsWalked, AreSeen
    <3>2. \A i \in 1 .. Len(a) : a[i] \in Frame(n)  BY <2>2
    <3>3. \A i \in 1 .. Len(a) : a[i].v \in 1 .. n  BY <3>2 DEF Frame
    <3>4. \A j \in 1 .. Len(c) : c[j] \in 1 .. n
      <4> DEFINE N == 1 .. n
      <4>1. c \in Seq(N)  BY <2>2
      <4> HIDE DEF a, c, N
      <4>2. \A j \in 1 .. Len(c) : c[j] \in N  BY <4>1
      <4> QED  BY <4>2 DEF N
    <3> QED  BY <3>1, <3>3, <3>4
  <2> HIDE DEF a, b, c
  <2>4. s \in [stack : Seq(Frame(n)), seen : SUBSET (1 .. n), order : Seq(1 .. n)]
    BY <2>1, <2>2, <2>3
  <2> QED  BY <1>3, <2>4
<1>4. none \in S
  <2>1. /\ none.stack = <<>> /\ none.seen = {} /\ none.order = <<>> /\ IsState(none)
        /\ Len(none.stack) = 0 /\ Len(none.order) = 0
    BY DEF IsState
  <2>2. none.stack \in Seq(Frame(n)) /\ none.order \in Seq(1 .. n)  BY <2>1
  <2> HIDE DEF none
  <2>3. IsWalked(g, n, none.stack, none.order, none.seen)
    BY <2>1, <2>2 DEF IsWalked, AreSeen, AreApart
  <2>4. HasLooked(g, none.stack, none.seen)  BY <2>1 DEF HasLooked
  <2> HIDE DEF S
  <2> QED  BY <1>3, <2>1, <2>3, <2>4 DEF IsSearch
<1>5. \A s \in S : IsSearch(g, n, s)  OBVIOUS
<1> HIDE DEF S
<1>6. \A s \in S : DFSStep(g, s) \in S  BY <1>3, <1>5, DFSStepKeeps
<1>7. Turn \in [(1 .. m) \X S -> S]  BY <1>6
<1> HIDE DEF none
<1>8. PICK f : IsRun(f, m, S, none, Turn)
  <2> HIDE DEF Turn
  <2> QED  BY <1>1, <1>4, <1>7, PrimitiveRecursion
<1>9. f \in [0 .. m -> S] /\ f[0] = none /\ \A k \in 1 .. m : f[k] = Turn[<<k, f[k - 1]>>]
  BY <1>8 DEF IsRun
<1>10. \A k \in 1 .. m : f[k] = DFSStep(g, f[k - 1])
  <2> TAKE k \in 1 .. m
  <2>1. f[k - 1] \in S  BY <1>1, <1>9
  <2> QED  BY <1>9, <2>1
<1>11. IsSearching(state)
  <2>1. f = [k \in 0 .. m |-> f[k]]  BY <1>9
  <2>2. \A k \in 0 .. m : f[k] = IF k = 0 THEN none ELSE DFSStep(g, f[k - 1])
    BY <1>1, <1>9, <1>10
  <2>3. IsSearching(f)  BY <2>1, <2>2
  <2> HIDE DEF IsSearching
  <2> QED  BY <2>3
<1>12. \A k \in 0 .. m : state[k] = IF k = 0 THEN none ELSE DFSStep(g, state[k - 1])
  <2> HIDE DEF state
  <2> QED  BY <1>11
<1> HIDE DEF state
<1>13. state[0] = none /\ \A k \in 0 .. m - 1 : state[k + 1] = DFSStep(g, state[k])
  <2>1. 0 \in 0 .. m /\ \A k \in 0 .. m - 1 : k + 1 \in 0 .. m /\ k + 1 # 0 /\ (k + 1) - 1 = k  BY <1>1
  <2> QED  BY <1>12, <2>1
<1>14. \A k \in 0 .. m : state[k] \in S
  <2> DEFINE T == {k \in 0 .. m : state[k] \in S}
  <2>1. 0 \in T /\ 0 \in Int /\ m \in Int  BY <1>1, <1>4, <1>13
  <2>2. \A k \in 0 .. m - 1 : k \in T => k + 1 \in T  BY <1>1, <1>6, <1>13
  <2> HIDE DEF T
  <2>3. 0 .. m \subseteq T  BY <2>1, <2>2, IntervalInduction
  <2> QED  BY <2>3 DEF T
<1>15. \A k \in 0 .. m : IsSearch(g, n, state[k])  BY <1>5, <1>14
<1>16. IsOver(g, state[m])
  <2> SUFFICES ASSUME ~IsOver(g, state[m]) PROVE FALSE  OBVIOUS
  <2> DEFINE T == {k \in 0 .. m : IsOver(g, state[k])}
             D == [k \in 0 .. m |-> Advance(g, n, state[k])]
  <2>1. \A k \in 0 .. m : ~IsOver(g, state[k])
    <3> SUFFICES ASSUME NEW a \in 0 .. m, a \in T PROVE FALSE  OBVIOUS
    <3>1. ASSUME NEW k \in 0 .. m - 1, k \in T PROVE k + 1 \in T
      <4>1. k \in 0 .. m /\ k + 1 \in 0 .. m  BY <1>1
      <4>2. state[k + 1] = state[k]  BY <1>13, <1>15, <3>1, <4>1, DFSStepKeeps
      <4> QED  BY <3>1, <4>1, <4>2
    <3> HIDE DEF T
    <3>2. m \in T  BY <1>1, <3>1, FromThenOn
    <3> QED  BY <3>2 DEF T
  <2>2. \A k \in 0 .. m : D[k] \subseteq Tasks(g, n) /\ D[k] = Advance(g, n, state[k])  BY DEF Advance
  <2>3. \A k \in 0 .. m - 1 : D[k] \subseteq D[k + 1] /\ D[k] # D[k + 1]
    <3> TAKE k \in 0 .. m - 1
    <3>1. k \in 0 .. m /\ k + 1 \in 0 .. m  BY <1>1
    <3>2. Advances(g, n, state[k], state[k + 1])  BY <1>13, <1>15, <2>1, <3>1, DFSStepKeeps
    <3> HIDE DEF D
    <3> QED  BY <2>2, <3>1, <3>2 DEF Advances
  <2> HIDE DEF D
  <2>4. /\ IsFiniteSet(Tasks(g, n)) /\ Cardinality(Tasks(g, n)) <= m /\ Cardinality(Tasks(g, n)) \in Nat
    BY <1>1, TaskNumber
  <2>5. Cardinality(D[m]) \in Nat /\ Cardinality(D[m]) >= m + Cardinality(D[0])
    BY <1>1, <2>2, <2>3, <2>4, GrowingSets
  <2>6. 0 \in 0 .. m /\ m \in 0 .. m  BY <1>1
  <2>7. Cardinality(D[0]) \in Nat /\ IsFiniteSet(D[m])
    <3>1. IsFiniteSet(D[0]) /\ IsFiniteSet(D[m])  BY <2>2, <2>4, <2>6, FS_Subset
    <3> QED  BY <3>1, FS_CardinalityType
  <2>8. D[m] = Tasks(g, n)
    <3>1. Cardinality(D[m]) >= Cardinality(Tasks(g, n))  BY <1>1, <2>4, <2>5, <2>7
    <3>2. D[m] \in SUBSET Tasks(g, n)  BY <2>2, <2>6
    <3>3. /\ Cardinality(D[m]) <= Cardinality(Tasks(g, n))
          /\ Cardinality(Tasks(g, n)) = Cardinality(D[m]) => Tasks(g, n) = D[m]
      BY <2>4, <3>2, FS_Subset
    <3> QED  BY <2>4, <2>5, <3>1, <3>3
  <2>9. \A v \in 1 .. n : v \in state[m].seen /\ IsFinishedIn(state[m].order, v)
    <3> TAKE v \in 1 .. n
    <3> DEFINE x == <<v, -1>>
               y == <<v, 0>>
    <3>1. x \in Tasks(g, n) /\ x[1] = v /\ x[2] = -1 /\ y \in Tasks(g, n) /\ y[1] = v /\ y[2] = 0
      BY DEF Tasks
    <3> HIDE DEF x, y
    <3>2. x \in Advance(g, n, state[m]) /\ y \in Advance(g, n, state[m])  BY <2>2, <2>6, <2>8, <3>1
    <3>3. /\ TaskDone(state[m].stack, state[m].order, state[m].seen, v, -1)
          /\ TaskDone(state[m].stack, state[m].order, state[m].seen, v, 0)
      BY <3>1, <3>2 DEF Advance
    <3> QED  BY <3>3 DEF TaskDone
  <2>10. state[m].stack = <<>>
    <3> DEFINE t == state[m].stack
    <3>1. IsWalked(g, n, t, state[m].order, state[m].seen)  BY <1>15, <2>6 DEF IsSearch
    <3>2. t \in Seq(Frame(n)) /\ AreApart(t, state[m].order)  BY <3>1 DEF IsWalked
    <3> HIDE DEF t
    <3>3. ASSUME Len(t) # 0 PROVE FALSE
      <4>1. 1 \in 1 .. Len(t) /\ t[1] \in Frame(n)  BY <3>2, <3>3
      <4>2. t[1].v \in 1 .. n  BY <4>1 DEF Frame
      <4> QED  BY <2>9, <3>2, <4>1, <4>2 DEF AreApart, IsFinishedIn
    <3> QED  BY <3>2, <3>3 DEF t
  <2> QED  BY <1>1, <2>9, <2>10 DEF IsOver
<1>17. IsSearch(g, n, state[m])  BY <1>1, <1>15
<1> DEFINE o == state[m].order
<1>18. IsWalked(g, n, state[m].stack, o, state[m].seen)  BY <1>17 DEF IsSearch
<1>19. state[m].stack = <<>> /\ 1 .. n \subseteq state[m].seen  BY <1>1, <1>16 DEF IsOver
<1>20. \A v \in 1 .. n : \E j \in 1 .. Len(o) : o[j] = v
  <2> TAKE v \in 1 .. n
  <2>1. Len(state[m].stack) = 0  BY <1>19
  <2> QED  BY <1>18, <1>19, <2>1 DEF IsWalked, AreSeen
<1>21. o \in Seq(1 .. n) /\ \A p \in 1 .. Len(o) : HasTree(g, o, p)  BY <1>18 DEF IsWalked
<1> QED  BY <1>2, <1>20, <1>21 DEF IsFinishOrder

\* The nodes that are reached from a node and from which it is.
IsMutual(g, u, v) == Reaches(g, u, v) /\ Reaches(g, v, u)
ClassOf(g, n, r) == {w \in 1 .. n : IsMutual(g, r, w)}

LEMMA GrownFacts ==
  ASSUME NEW g, NEW n, IsNetwork(g, n), NEW X, X \subseteq 1 .. n, NEW T
  PROVE  /\ Grown(g, X, T) \subseteq 1 .. n /\ X \subseteq Grown(g, X, T)
         /\ \A y \in Grown(g, X, T) : y \in X \/ (y \notin T /\ \E u \in X : LeadsTo(g, y, u))
         /\ \A y \in 1 .. n : \A u \in X : y \notin T /\ LeadsTo(g, y, u) => y \in Grown(g, X, T)
<1> DEFINE I == {e.to : e \in UNION {ToSet(InEdges(g, u)) : u \in X}}
<1>1. Grown(g, X, T) = X \cup (I \ T)  BY DEF Grown
<1>2. \A y \in I : y \in 1 .. n /\ \E u \in X : LeadsTo(g, y, u)
  <2> TAKE y \in I
  <2>1. PICK u \in X : \E e \in ToSet(InEdges(g, u)) : y = e.to  OBVIOUS
  <2>2. PICK e \in ToSet(InEdges(g, u)) : y = e.to  BY <2>1
  <2>3. u \in 1 .. n  OBVIOUS
  <2>4. e.to \in 1 .. n /\ LeadsTo(g, e.to, u)  BY <2>2, <2>3 DEF IsNetwork
  <2> QED  BY <2>2, <2>4
<1>3. ASSUME NEW y \in 1 .. n, NEW u \in X, LeadsTo(g, y, u) PROVE y \in I
  <2>1. u \in 1 .. n  OBVIOUS
  <2>2. PICK e \in ToSet(InEdges(g, u)) : e.to = y  BY <1>3, <2>1 DEF IsNetwork
  <2> QED  BY <2>2
<1> HIDE DEF I
<1> QED  BY <1>1, <1>2, <1>3

\* What a flood in the second pass takes, where all that was listed after its root is
\* taken and what is taken are whole components.
LEMMA FloodFacts ==
  ASSUME NEW g, NEW n, IsNetwork(g, n), NEW o, IsFinishOrder(g, n, o), NEW p \in 1 .. Len(o),
         NEW r, r = o[p], NEW T, \A j \in p + 1 .. Len(o) : o[j] \in T, r \notin T,
         \A u \in T : \A v \in 1 .. n : IsMutual(g, u, v) => v \in T
  PROVE  Flood(g, r, T) = ClassOf(g, n, r)
<1> DEFINE S == SUBSET (1 .. n)
           Turn == [kX \in (1 .. n) \X S |-> Grown(g, kX[2], T)]
           IsFlooding(f) == f = [k \in 0 .. n |-> IF k = 0 THEN {r} ELSE Grown(g, f[k - 1], T)]
           D == CHOOSE f : IsFlooding(f)
<1>1. n \in Nat /\ n # 0 /\ Len(g.nodes) = n /\ DOMAIN g.nodes = 1 .. n  BY DEF IsNetwork
<1>2. Flood(g, r, T) = D[n]  BY <1>1 DEF Flood
<1>3. o \in Seq(1 .. n) /\ Len(o) \in Nat /\ r \in 1 .. n
  <2> DEFINE N == 1 .. n
  <2>1. o \in Seq(N)  BY DEF IsFinishOrder
  <2> HIDE DEF N
  <2>2. Len(o) \in Nat /\ o[p] \in N  BY <2>1
  <2> QED  BY <2>1, <2>2 DEF N
<1>4. {r} \in S /\ \A X \in S : Grown(g, X, T) \in S  BY <1>3, GrownFacts
<1> HIDE DEF S
<1>5. Turn \in [(1 .. n) \X S -> S]  BY <1>4
<1>6. PICK f : IsRun(f, n, S, {r}, Turn)
  <2> HIDE DEF Turn
  <2> QED  BY <1>1, <1>4, <1>5, PrimitiveRecursion
<1>7. f \in [0 .. n -> S] /\ f[0] = {r} /\ \A k \in 1 .. n : f[k] = Turn[<<k, f[k - 1]>>]
  BY <1>6 DEF IsRun
<1>8. \A k \in 1 .. n : f[k] = Grown(g, f[k - 1], T)
  <2> TAKE k \in 1 .. n
  <2>1. f[k - 1] \in S  BY <1>1, <1>7
  <2> QED  BY <1>7, <2>1
<1>9. IsFlooding(D)
  <2>1. f = [k \in 0 .. n |-> f[k]]  BY <1>7
  <2>2. \A k \in 0 .. n : f[k] = IF k = 0 THEN {r} ELSE Grown(g, f[k - 1], T)
    BY <1>1, <1>7, <1>8
  <2>3. IsFlooding(f)  BY <2>1, <2>2
  <2> HIDE DEF IsFlooding
  <2> QED  BY <2>3
<1>10. \A k \in 0 .. n : D[k] = IF k = 0 THEN {r} ELSE Grown(g, D[k - 1], T)
  <2> HIDE DEF D
  <2> QED  BY <1>9
<1> HIDE DEF D
<1>11. D[0] = {r} /\ \A k \in 0 .. n - 1 : D[k + 1] = Grown(g, D[k], T)
  <2>1. 0 \in 0 .. n /\ \A k \in 0 .. n - 1 : k + 1 \in 0 .. n /\ k + 1 # 0 /\ (k + 1) - 1 = k  BY <1>1
  <2> QED  BY <1>10, <2>1
<1>12. PICK q \in 1 .. p : /\ \A j \in q .. p : Reaches(g, r, o[j])
                           /\ \A x \in 1 .. q - 1 : \A j \in q .. p : ~LeadsTo(g, o[x], o[j])
  BY DEF IsFinishOrder, HasTree
<1> DEFINE Good == {x \in 1 .. n : IsMutual(g, r, x) /\ \E j \in q .. p : o[j] = x}
<1>13. r \in Good
  <2>1. p \in q .. p  BY <1>3
  <2> QED  BY <1>3, <2>1, ReachesItself DEF IsMutual
<1>14. ASSUME NEW X, X \subseteq Good PROVE Grown(g, X, T) \subseteq Good
  <2> SUFFICES ASSUME NEW y \in Grown(g, X, T), y \notin X PROVE y \in Good  BY <1>14
  <2>1. X \subseteq 1 .. n  BY <1>14
  <2>2. y \in 1 .. n /\ y \notin T /\ \E u \in X : LeadsTo(g, y, u)
    <3>1. /\ Grown(g, X, T) \subseteq 1 .. n
          /\ \A z \in Grown(g, X, T) : z \in X \/ (z \notin T /\ \E u \in X : LeadsTo(g, z, u))
      BY <2>1, GrownFacts
    <3> HIDE DEF Good
    <3> QED  BY <3>1
  <2>3. PICK u \in X : LeadsTo(g, y, u)  BY <2>2
  <2>4. u \in Good  BY <1>14
  <2>5. PICK j \in q .. p : o[j] = u  BY <2>4
  <2>6. PICK i \in 1 .. Len(o) : o[i] = y  BY <2>2 DEF IsFinishOrder
  <2>7. i <= p
    <3> SUFFICES ASSUME i > p PROVE FALSE  BY <1>3
    <3>1. i \in p + 1 .. Len(o)  BY <1>3, <2>6
    <3> QED  BY <2>2, <2>6, <3>1
  <2>8. ~(i < q)
    <3> SUFFICES ASSUME i < q PROVE FALSE  OBVIOUS
    <3>1. i \in 1 .. q - 1  BY <1>3
    <3> QED  BY <1>12, <2>3, <2>5, <2>6, <3>1
  <2>9. i \in q .. p  BY <1>3, <2>7, <2>8
  <2>10. Reaches(g, r, y)  BY <1>12, <2>6, <2>9
  <2>11. Reaches(g, y, u) /\ Reaches(g, u, r)  BY <2>3, <2>4, ReachesAlong DEF IsMutual
  <2>12. Reaches(g, y, r)  BY <2>11, ReachesOn
  <2> QED  BY <2>2, <2>6, <2>9, <2>10, <2>12 DEF IsMutual
<1>15. \A k \in 0 .. n : D[k] \subseteq Good
  <2> DEFINE A == {k \in 0 .. n : D[k] \subseteq Good}
  <2> HIDE DEF Good
  <2>1. 0 \in A /\ 0 \in Int /\ n \in Int  BY <1>1, <1>11, <1>13
  <2>2. \A k \in 0 .. n - 1 : k \in A => k + 1 \in A  BY <1>1, <1>11, <1>14
  <2> HIDE DEF A
  <2>3. 0 .. n \subseteq A  BY <2>1, <2>2, IntervalInduction
  <2> QED  BY <2>3 DEF A
<1>16. Good \subseteq 1 .. n /\ \A x \in Good : Reaches(g, r, x) /\ Reaches(g, x, r)  BY DEF IsMutual
<1> HIDE DEF Good
<1>17. \A k \in 0 .. n : D[k] \subseteq 1 .. n  BY <1>15, <1>16
<1>18. \A k \in 0 .. n - 1 : D[k] \subseteq D[k + 1]
  <2> TAKE k \in 0 .. n - 1
  <2>1. k \in 0 .. n  BY <1>1
  <2> QED  BY <1>11, <1>17, <2>1, GrownFacts
<1>19. r \in D[n]
  <2> DEFINE A == {k \in 0 .. n : r \in D[k]}
  <2>1. 0 \in A /\ 0 \in 0 .. n  BY <1>1, <1>11
  <2>2. \A k \in 0 .. n - 1 : k \in A => k + 1 \in A  BY <1>1, <1>18
  <2> HIDE DEF A
  <2>3. n \in A  BY <1>1, <2>1, <2>2, FromThenOn
  <2> QED  BY <2>3 DEF A
<1>20. Grown(g, D[n], T) = D[n]
  <2>1. PICK a \in 0 .. n - 1 : D[a] = D[a + 1]
    <3> SUFFICES ASSUME \A k \in 0 .. n - 1 : D[k] # D[k + 1] PROVE FALSE  OBVIOUS
    <3>1. IsFiniteSet(1 .. n) /\ Cardinality(1 .. n) = n
      <4>1. IsFiniteSet(1 .. n) /\ Cardinality(1 .. n) = IF 1 > n THEN 0 ELSE n - 1 + 1
        BY <1>1, FS_Interval
      <4> QED  BY <1>1, <4>1
    <3> DEFINE U == 1 .. n
    <3>2. \A k \in 0 .. n : D[k] \subseteq U  BY <1>17
    <3>3. IsFiniteSet(U)  BY <3>1
    <3> HIDE DEF U
    <3>4. Cardinality(D[n]) \in Nat /\ Cardinality(D[n]) >= n + Cardinality(D[0])
      BY <1>1, <1>18, <3>2, <3>3, GrowingSets
    <3>5. Cardinality(D[0]) = 1  BY <1>11, FS_Singleton
    <3>6. n \in 0 .. n  BY <1>1
    <3>7. D[n] \in SUBSET U  BY <3>2, <3>6
    <3>8. Cardinality(D[n]) <= Cardinality(U)  BY <3>3, <3>7, FS_Subset
    <3> QED  BY <1>1, <3>1, <3>4, <3>5, <3>8 DEF U
  <2> DEFINE A == {k \in 0 .. n : Grown(g, D[k], T) = D[k]}
  <2>2. a \in A /\ a \in 0 .. n  BY <1>1, <1>11, <2>1
  <2>3. ASSUME NEW k \in 0 .. n - 1, k \in A PROVE k + 1 \in A
    <3>1. D[k + 1] = D[k]  BY <1>11, <2>3
    <3> QED  BY <1>1, <2>3, <3>1
  <2> HIDE DEF A
  <2>4. n \in A  BY <1>1, <2>2, <2>3, FromThenOn
  <2> QED  BY <2>4 DEF A
<1> DEFINE F == D[n]
<1>21. F \subseteq Good /\ F \subseteq 1 .. n
  <2>1. n \in 0 .. n  BY <1>1
  <2> QED  BY <1>15, <1>16, <2>1
<1> HIDE DEF F
<1>22. \A y \in 1 .. n : \A u \in F : y \notin T /\ LeadsTo(g, y, u) => y \in F
  BY <1>20, <1>21, GrownFacts DEF F
<1>23. ASSUME NEW w \in 1 .. n, IsMutual(g, r, w), w \notin F PROVE FALSE
  <2> DEFINE Z == {x \in 1 .. n : Reaches(g, w, x)} \ F
  <2>1. w \in Z /\ r \notin Z /\ Z \subseteq 1 .. n  BY <1>19, <1>23, ReachesItself DEF F
  <2>2. IsClosed(g, Z)
    <3> SUFFICES ASSUME NEW x \in Z, NEW e \in ToSet(OutEdges(g, x)) PROVE e.to \in Z
      BY DEF IsClosed
    <3> DEFINE y == e.to
    <3>1. x \in 1 .. n /\ x \notin F /\ Reaches(g, w, x) /\ LeadsTo(g, x, y)  BY DEF LeadsTo
    <3> HIDE DEF y
    <3>2. y \in 1 .. n  BY <3>1, ArcsStay
    <3>3. Reaches(g, x, y)  BY <3>1, ReachesAlong
    <3>4. Reaches(g, w, y)  BY <3>1, <3>3, ReachesOn
    <3>5. y \notin F
      <4> SUFFICES ASSUME y \in F PROVE FALSE  OBVIOUS
      <4>1. x \in T  BY <1>22, <3>1
      <4>2. Reaches(g, y, r)  BY <1>16, <1>21
      <4>3. Reaches(g, x, r)  BY <3>3, <4>2, ReachesOn
      <4>4. Reaches(g, r, w)  BY <1>23 DEF IsMutual
      <4>5. Reaches(g, r, x)  BY <3>1, <4>4, ReachesOn
      <4> QED  BY <1>3, <4>1, <4>3, <4>5 DEF IsMutual
    <3> QED  BY <3>2, <3>4, <3>5 DEF y
  <2> HIDE DEF Z
  <2>3. Reaches(g, w, r)  BY <1>23 DEF IsMutual
  <2> QED  BY <1>1, <2>1, <2>2, <2>3 DEF Reaches
<1>24. F = ClassOf(g, n, r)
  <2>1. \A x \in F : x \in ClassOf(g, n, r)  BY <1>16, <1>21 DEF ClassOf, IsMutual
  <2>2. \A x \in ClassOf(g, n, r) : x \in F  BY <1>23 DEF ClassOf
  <2> QED  BY <2>1, <2>2
<1> QED  BY <1>2, <1>24 DEF F

\* One turn of the second pass: the next node from the end of the list has its class
\* among the components.
Classes(g, n) == {ClassOf(g, n, r) : r \in 1 .. n}
LEMMA LabelledFacts ==
  ASSUME NEW g, NEW n, IsNetwork(g, n), NEW o, IsFinishOrder(g, n, o), NEW p \in 1 .. Len(o),
         NEW X \in Seq(Classes(g, n)), \A j \in p + 1 .. Len(o) : o[j] \in UNION ToSet(X)
  PROVE  /\ Labelled(g, X, o[p]) \in Seq(Classes(g, n))
         /\ \A j \in p .. Len(o) : o[j] \in UNION ToSet(Labelled(g, X, o[p]))
<1> DEFINE T == UNION ToSet(X)
           r == o[p]
           C == Classes(g, n)
           Y == Labelled(g, X, r)
<1>1. o \in Seq(1 .. n) /\ Len(o) \in Nat /\ r \in 1 .. n
  <2> DEFINE N == 1 .. n
  <2>1. o \in Seq(N)  BY DEF IsFinishOrder
  <2> HIDE DEF N
  <2>2. Len(o) \in Nat /\ o[p] \in N  BY <2>1
  <2> QED  BY <2>1, <2>2 DEF N
<1>2. Y = IF r \in T THEN X ELSE Append(X, Flood(g, r, T))  BY DEF Labelled
<1>3. ToSet(X) \subseteq C
  <2>1. X \in Seq(C)  OBVIOUS
  <2> HIDE DEF C
  <2> QED  BY <2>1 DEF ToSet
<1>4. CASE r \in T
  <2>1. \A j \in p .. Len(o) : j = p \/ j \in p + 1 .. Len(o)  BY <1>1
  <2> QED  BY <1>2, <1>4, <2>1
<1>5. CASE r \notin T
  <2>1. ASSUME NEW u \in T, NEW v \in 1 .. n, IsMutual(g, u, v) PROVE v \in T
    <3>1. PICK c \in ToSet(X) : u \in c  OBVIOUS
    <3>2. PICK x \in 1 .. n : c = ClassOf(g, n, x)  BY <1>3, <3>1 DEF Classes
    <3>3. IsMutual(g, x, u)  BY <3>1, <3>2 DEF ClassOf
    <3>4. IsMutual(g, x, v)  BY <2>1, <3>3, ReachesOn DEF IsMutual
    <3>5. v \in c  BY <3>2, <3>4 DEF ClassOf
    <3> HIDE DEF C
    <3> QED  BY <3>1, <3>5
  <2>2. r = o[p] /\ r \notin T /\ \A j \in p + 1 .. Len(o) : o[j] \in T  BY <1>5
  <2> HIDE DEF C, T, Y, r
  <2>3. Flood(g, r, T) = ClassOf(g, n, r)  BY <2>1, <2>2, FloodFacts
  <2> USE DEF C, Y
  <2> DEFINE F == ClassOf(g, n, r)
  <2>4. F \in C  BY <1>1 DEF Classes
  <2>5. r \in F  BY <1>1, ReachesItself DEF ClassOf, IsMutual
  <2>6. Y = Append(X, F)  BY <1>2, <1>5, <2>3
  <2>7. X \in Seq(C)  OBVIOUS
  <2> HIDE DEF C, F, Y
  <2>8. /\ Y \in Seq(C) /\ DOMAIN Y = 1 .. Len(X) + 1 /\ Len(X) \in Nat /\ Y[Len(X) + 1] = F
        /\ \A i \in 1 .. Len(X) : Y[i] = X[i]
    BY <2>4, <2>6, <2>7
  <2>9. F \in ToSet(Y) /\ ToSet(X) \subseteq ToSet(Y)
    <3>1. DOMAIN X = 1 .. Len(X)  BY <2>7
    <3>2. \A i \in 1 .. Len(X) : i \in 1 .. Len(X) + 1  BY <2>8
    <3>3. Len(X) + 1 \in 1 .. Len(X) + 1  BY <2>8
    <3> QED  BY <2>8, <3>1, <3>2, <3>3 DEF ToSet
  <2>10. \A j \in p .. Len(o) : j = p \/ j \in p + 1 .. Len(o)  BY <1>1
  <2>11. \A j \in p .. Len(o) : o[j] \in UNION ToSet(Y)  BY <2>2, <2>5, <2>9, <2>10 DEF T, r
  <2> QED  BY <2>8, <2>11 DEF C, Y, r
<1> QED  BY <1>4, <1>5

\* The components are the classes of the nodes.
LEMMA ComponentsFacts ==
  ASSUME NEW g, NEW n, IsNetwork(g, n)
  PROVE  Components(g) \in Seq(Classes(g, n)) /\ ToSet(Components(g)) = Classes(g, n)
<1> DEFINE o == FinishOrder(g)
           roots == Reverse(o)
           m == Len(roots)
           C == Classes(g, n)
           S == Seq(C)
           Next1(X, k) == Labelled(g, X, roots[k])
           Turn == [kX \in (1 .. m) \X S |-> IF Next1(kX[2], kX[1]) \in S THEN Next1(kX[2], kX[1]) ELSE <<>>]
           IsLabelling(f) == f = [k \in 0 .. m |-> IF k = 0 THEN <<>> ELSE Labelled(g, f[k - 1], roots[k])]
           D == CHOOSE f : IsLabelling(f)
           Has(k, X) == X \in S /\ \A j \in m - k + 1 .. m : o[j] \in UNION ToSet(X)
<1>1. IsFinishOrder(g, n, o)  BY FinishOrderFacts
<1>2. Components(g) = D[m]  BY DEF Components
<1> HIDE DEF o
<1>3. o \in Seq(1 .. n)  BY <1>1 DEF IsFinishOrder
<1>4. m = Len(o) /\ m \in Nat /\ \A k \in 1 .. m : roots[k] = o[m - k + 1]
  <2> DEFINE N == 1 .. n
  <2>1. o \in Seq(N)  BY <1>3
  <2> HIDE DEF N
  <2>2. Reverse(o) = [i \in 1 .. Len(o) |-> o[(Len(o) - i) + 1]] /\ Len(o) \in Nat  BY <2>1 DEF Reverse
  <2> QED  BY <2>2
<1> HIDE DEF roots, m
<1>5. ASSUME NEW k \in 1 .. m, NEW X, Has(k - 1, X) PROVE Has(k, Labelled(g, X, roots[k]))
  <2> DEFINE p == m - k + 1
  <2>1. p \in 1 .. Len(o) /\ p + 1 = m - (k - 1) + 1  BY <1>4
  <2>2. roots[k] = o[p]  BY <1>4
  <2>3. X \in Seq(Classes(g, n)) /\ \A j \in p + 1 .. Len(o) : o[j] \in UNION ToSet(X)
    BY <1>4, <1>5, <2>1
  <2> HIDE DEF p
  <2>4. /\ Labelled(g, X, o[p]) \in Seq(Classes(g, n))
        /\ \A j \in p .. Len(o) : o[j] \in UNION ToSet(Labelled(g, X, o[p]))
    BY <1>1, <2>1, <2>3, LabelledFacts
  <2> QED  BY <1>4, <2>2, <2>4 DEF p
<1>6. <<>> \in S /\ Has(0, <<>>)
  <2>1. m - 0 + 1 .. m = {}  BY <1>4
  <2> QED  BY <2>1
<1> HIDE DEF S
<1>7. Turn \in [(1 .. m) \X S -> S]  BY <1>6
<1>8. PICK f : IsRun(f, m, S, <<>>, Turn)
  <2> HIDE DEF Turn
  <2> QED  BY <1>4, <1>6, <1>7, PrimitiveRecursion
<1>9. f \in [0 .. m -> S] /\ f[0] = <<>> /\ \A k \in 1 .. m : f[k] = Turn[<<k, f[k - 1]>>]
  BY <1>8 DEF IsRun
<1>10. \A k \in 1 .. m : Has(k - 1, f[k - 1]) => f[k] = Labelled(g, f[k - 1], roots[k])
  <2> TAKE k \in 1 .. m
  <2> HAVE Has(k - 1, f[k - 1])
  <2>1. f[k - 1] \in S  BY <1>4, <1>9
  <2>2. Has(k, Labelled(g, f[k - 1], roots[k]))  BY <1>5
  <2>3. Labelled(g, f[k - 1], roots[k]) \in S  BY <2>2
  <2>4. <<k, f[k - 1]>> \in (1 .. m) \X S  BY <2>1
  <2> QED  BY <1>9, <2>3, <2>4
<1> HIDE DEF Has
<1>11. \A k \in 0 .. m : Has(k, f[k])
  <2> DEFINE A == {k \in 0 .. m : Has(k, f[k])}
  <2>1. 0 \in A /\ 0 \in Int /\ m \in Int  BY <1>4, <1>6, <1>9
  <2>2. ASSUME NEW k \in 0 .. m - 1, k \in A PROVE k + 1 \in A
    <3>1. k + 1 \in 1 .. m /\ k + 1 \in 0 .. m /\ (k + 1) - 1 = k  BY <1>4
    <3> DEFINE l == k + 1
    <3>2. l \in 1 .. m /\ l - 1 = k /\ Has(l - 1, f[l - 1])  BY <2>2, <3>1
    <3> HIDE DEF l
    <3>3. f[l] = Labelled(g, f[l - 1], roots[l]) /\ Has(l, Labelled(g, f[l - 1], roots[l]))
      BY <1>5, <1>10, <3>2
    <3> QED  BY <3>1, <3>3 DEF l
  <2> HIDE DEF A
  <2>3. 0 .. m \subseteq A  BY <2>1, <2>2, IntervalInduction
  <2> QED  BY <2>3 DEF A
<1>12. IsLabelling(D)
  <2>1. f = [k \in 0 .. m |-> f[k]]  BY <1>9
  <2>2. \A k \in 0 .. m : f[k] = IF k = 0 THEN <<>> ELSE Labelled(g, f[k - 1], roots[k])
    <3> TAKE k \in 0 .. m
    <3>1. CASE k = 0  BY <1>9, <3>1
    <3>2. CASE k # 0
      <4>1. k \in 1 .. m /\ k - 1 \in 0 .. m  BY <1>4, <3>2
      <4> QED  BY <1>10, <1>11, <3>2, <4>1
    <3> QED  BY <3>1, <3>2
  <2>3. IsLabelling(f)  BY <2>1, <2>2
  <2> HIDE DEF IsLabelling
  <2> QED  BY <2>3
<1>13. \A k \in 0 .. m : D[k] = IF k = 0 THEN <<>> ELSE Labelled(g, D[k - 1], roots[k])
  <2> HIDE DEF D
  <2> QED  BY <1>12
<1> HIDE DEF D
<1>14. Has(m, D[m])
  <2> DEFINE A == {k \in 0 .. m : Has(k, D[k])}
  <2>1. 0 \in A /\ 0 \in 0 .. m  BY <1>4, <1>6, <1>13
  <2>2. ASSUME NEW k \in 0 .. m - 1, k \in A PROVE k + 1 \in A
    <3>1. k + 1 \in 1 .. m /\ k + 1 \in 0 .. m /\ (k + 1) - 1 = k /\ k + 1 # 0  BY <1>4
    <3>2. D[k + 1] = Labelled(g, D[k], roots[k + 1])  BY <1>13, <3>1
    <3> DEFINE l == k + 1
    <3>3. l \in 1 .. m /\ l - 1 = k /\ Has(l - 1, D[l - 1])  BY <2>2, <3>1
    <3> HIDE DEF l
    <3>4. Has(l, Labelled(g, D[l - 1], roots[l]))  BY <1>5, <3>3
    <3> QED  BY <3>1, <3>2, <3>3, <3>4 DEF l
  <2> HIDE DEF A
  <2>3. m \in A  BY <1>4, <2>1, <2>2, FromThenOn
  <2> QED  BY <2>3 DEF A
<1> DEFINE c == D[m]
<1>15. c \in Seq(C) /\ \A j \in 1 .. m : o[j] \in UNION ToSet(c)
  <2>1. m - m + 1 = 1  BY <1>4
  <2> QED  BY <1>14, <2>1 DEF Has, S
<1> HIDE DEF c
<1>16. ToSet(c) \subseteq C
  <2> HIDE DEF C
  <2> QED  BY <1>15 DEF ToSet
<1>17. ASSUME NEW r \in 1 .. n PROVE ClassOf(g, n, r) \in ToSet(c)
  <2>1. PICK j \in 1 .. Len(o) : o[j] = r  BY <1>1 DEF IsFinishOrder
  <2>2. PICK d \in ToSet(c) : r \in d  BY <1>4, <1>15, <2>1
  <2>3. PICK x \in 1 .. n : d = ClassOf(g, n, x)  BY <1>16, <2>2 DEF Classes
  <2>4. IsMutual(g, x, r)  BY <2>2, <2>3 DEF ClassOf
  <2>5. \A w \in 1 .. n : IsMutual(g, x, w) <=> IsMutual(g, r, w)  BY <2>4, ReachesOn DEF IsMutual
  <2>6. ClassOf(g, n, r) = ClassOf(g, n, x)
    <3>1. \A w : w \in ClassOf(g, n, r) <=> w \in ClassOf(g, n, x)  BY <2>5 DEF ClassOf
    <3> QED  BY <3>1
  <2> QED  BY <2>2, <2>3, <2>6
<1>18. ToSet(c) = C  BY <1>16, <1>17 DEF Classes
<1> QED  BY <1>2, <1>15, <1>18 DEF c

\* The first of the largest components is taken.
LEMMA LargestClass ==
  ASSUME NEW g, NEW n, IsNetwork(g, n), NEW mode, mode # "all"
  PROVE  /\ makePool(g, mode) \in Classes(g, n)
         /\ \A c \in Classes(g, n) : Cardinality(c) <= Cardinality(makePool(g, mode))
<1> DEFINE comps == Components(g)
           C == Classes(g, n)
           Largest == {i \in DOMAIN comps : \A c \in ToSet(comps) : Cardinality(c) <= Cardinality(comps[i])}
           Short == {n - Cardinality(c) : c \in C}
<1>1. comps \in Seq(C) /\ ToSet(comps) = C  BY ComponentsFacts
<1>2. makePool(g, mode) = comps[Min(Largest)]  BY DEF makePool
<1> HIDE DEF comps
<1>3. n \in Nat /\ n # 0 /\ \A c \in C : c \subseteq 1 .. n  BY DEF IsNetwork, Classes, ClassOf
<1>4. IsFiniteSet(1 .. n) /\ Cardinality(1 .. n) = n
  <2>1. IsFiniteSet(1 .. n) /\ Cardinality(1 .. n) = IF 1 > n THEN 0 ELSE n - 1 + 1
    BY <1>3, FS_Interval
  <2> QED  BY <1>3, <2>1
<1>5. \A c \in C : Cardinality(c) \in Nat /\ Cardinality(c) <= n
  <2> TAKE c \in C
  <2>1. c \in SUBSET (1 .. n)  BY <1>3
  <2>2. IsFiniteSet(c) /\ Cardinality(c) <= Cardinality(1 .. n)  BY <1>4, <2>1, FS_Subset
  <2> QED  BY <1>4, <2>2, FS_CardinalityType
<1>6. C # {}
  <2>1. ClassOf(g, n, 1) \in C  BY <1>3 DEF Classes
  <2> QED  BY <2>1
<1> HIDE DEF C
<1>7. Short \subseteq Nat /\ Short # {}  BY <1>3, <1>5, <1>6
<1>8. PICK s \in Short : \A t \in Short : s <= t
  <2> HIDE DEF Short
  <2> QED  BY <1>7, LeastNumber
<1>9. PICK best \in C : \A c \in C : Cardinality(c) <= Cardinality(best)
  <2>1. PICK b \in C : s = n - Cardinality(b)  OBVIOUS
  <2>2. \A c \in C : n - Cardinality(b) <= n - Cardinality(c)  BY <1>8, <2>1
  <2> QED  BY <1>3, <1>5, <2>2
<1>10. DOMAIN comps = 1 .. Len(comps) /\ Len(comps) \in Nat /\ \A i \in DOMAIN comps : comps[i] \in C
  BY <1>1
<1>11. PICK b \in DOMAIN comps : comps[b] = best  BY <1>1, <1>9 DEF ToSet
<1>12. Largest \subseteq Nat /\ Largest # {} /\ Largest \subseteq DOMAIN comps
  <2>1. b \in Largest  BY <1>1, <1>9, <1>11
  <2> QED  BY <1>10, <2>1
<1>13. Min(Largest) \in Largest
  <2> HIDE DEF Largest
  <2>1. \E i \in Largest : \A j \in Largest : i <= j  BY <1>12, LeastNumber
  <2> QED  BY <2>1 DEF Min
<1>14. DEFINE k == Min(Largest)
<1>15. k \in DOMAIN comps /\ \A c \in ToSet(comps) : Cardinality(c) <= Cardinality(comps[k])
  BY <1>13
<1> HIDE DEF k
<1> QED  BY <1>1, <1>2, <1>10, <1>15 DEF k, C

\* A pool of the kind the harness asks for.
IsLargest(g, P) ==
  /\ P \subseteq DOMAIN g.nodes /\ StronglyConnected(g, P)
  /\ \A S \in SUBSET DOMAIN g.nodes : StronglyConnected(g, S) => Cardinality(S) <= Cardinality(P)
LEMMA PoolIsLargest ==
  ASSUME NEW g, NEW n, IsNetwork(g, n), NEW mode, mode # "all"
  PROVE  IsLargest(g, makePool(g, mode))
<1> DEFINE P == makePool(g, mode)
<1>1. P \in Classes(g, n) /\ \A c \in Classes(g, n) : Cardinality(c) <= Cardinality(P)
  BY LargestClass
<1> HIDE DEF P
<1>2. PICK r \in 1 .. n : P = ClassOf(g, n, r)  BY <1>1 DEF Classes
<1>3. n \in Nat /\ n # 0 /\ DOMAIN g.nodes = 1 .. n  BY DEF IsNetwork
<1>4. P \subseteq 1 .. n  BY <1>2 DEF ClassOf
<1>5. StronglyConnected(g, P)
  <2> SUFFICES ASSUME NEW u \in P, NEW v \in P PROVE Reaches(g, u, v)  BY DEF StronglyConnected
  <2>1. Reaches(g, u, r) /\ Reaches(g, r, v)  BY <1>2 DEF ClassOf, IsMutual
  <2> QED  BY <2>1, ReachesOn
<1>6. ASSUME NEW S \in SUBSET (1 .. n), StronglyConnected(g, S) PROVE Cardinality(S) <= Cardinality(P)
  <2>1. IsFiniteSet(1 .. n)  BY <1>3, FS_Interval
  <2>2. \A c \in SUBSET (1 .. n) : IsFiniteSet(c) /\ Cardinality(c) \in Nat
    BY <2>1, FS_Subset, FS_CardinalityType
  <2>3. CASE S = {}
    <3>1. Cardinality(S) = 0  BY <2>3, FS_EmptySet
    <3> QED  BY <1>4, <2>2, <3>1
  <2>4. CASE S # {}
    <3>1. PICK x \in S : TRUE  BY <2>4
    <3> DEFINE c == ClassOf(g, n, x)
    <3>2. c \in Classes(g, n) /\ c \in SUBSET (1 .. n)  BY DEF Classes, ClassOf
    <3>3. S \in SUBSET c  BY <1>6 DEF StronglyConnected, ClassOf, IsMutual
    <3> HIDE DEF c
    <3>4. Cardinality(S) <= Cardinality(c)  BY <2>2, <3>2, <3>3, FS_Subset
    <3>5. Cardinality(c) <= Cardinality(P)  BY <1>1, <3>2
    <3> QED  BY <1>4, <2>2, <3>2, <3>4, <3>5
  <2> QED  BY <2>3, <2>4
<1> QED  BY <1>3, <1>4, <1>5, <1>6 DEF IsLargest, P

\* What Finalize has left can be searched: its arcs are in both arrays, and their
\* number is known.
LEMMA FinishedNetwork ==
  ASSUME NEW g, IsFinished(g)
  PROVE  IsNetwork(g, Len(g.nodes))
<1> DEFINE n == Len(g.nodes)
           adj == [v \in 1 .. n |-> OutEdges(g, v)]
           out == [v \in 1 .. n |-> Dedup(adj[v])]
           c == Compacted(g.nodes, out)
<1>1. IsSpelt(g, n, Starts(g))  BY FinishedFacts
<1>2. /\ n \in Nat /\ n # 0 /\ DOMAIN g.nodes = 1 .. n /\ g.ok /\ g = Finalize(g.nodes, adj)
      /\ \A v \in 1 .. n : OutEdges(g, v) \in Seq(Edge(n))
  BY <1>1 DEF IsSpelt
<1>3. Acceptable(g.nodes, adj)
  <2>1. Finalize(g.nodes, adj).ok  BY <1>2, Zenon
  <2> QED  BY <2>1 DEF Finalize, NoGraph
<1>4. g = c  BY <1>2, <1>3, Zenon DEF Finalize
<1>5. \A e \in Edge(n) : e.to \in Int /\ e.cost \in Int  BY DEF Edge
<1>6. ASSUME NEW v \in 1 .. n
      PROVE  Dedup(adj[v]) \in Seq(Edge(n)) /\ Increasing(Dedup(adj[v]))
  <2>1. adj[v] \in Seq(Edge(n))  BY <1>2
  <2>2. Len(adj[v]) \in Nat /\ adj[v] \in [1 .. Len(adj[v]) -> Edge(n)]  BY <2>1
  <2> QED  BY <1>5, <2>2, DedupFacts
<1>7. out \in [1 .. n -> Seq(Edge(n))] /\ \A v \in 1 .. n : Increasing(out[v])  BY <1>6
<1> HIDE DEF out, adj
<1>8. HoldsBoth(c, out, n)  BY <1>2, <1>7, CompactedBoth
<1>9. c.edgeCount = Len(FlattenSeq(out))  BY CompactedNodes
<1> HIDE DEF c
<1>10. HoldsBoth(g, out, n)  BY <1>4, <1>8, Zenon
<1>11. g.edgeCount = Len(FlattenSeq(out))  BY <1>4, <1>9, Zenon
<1> HIDE DEF n
<1>12. \A v \in 1 .. n : OutEdges(g, v) = out[v]  BY <1>10 DEF HoldsBoth
<1>13. ASSUME NEW v \in 1 .. n, NEW e \in ToSet(InEdges(g, v)) PROVE e.to \in 1 .. n /\ LeadsTo(g, e.to, v)
  <2>1. PICK u \in 1 .. n : \E d \in ToSet(out[u]) : d.to = v /\ e = Back(ArcOf(u, d))
    BY <1>10 DEF HoldsBoth
  <2>2. PICK d \in ToSet(out[u]) : d.to = v /\ e = Back(ArcOf(u, d))  BY <2>1
  <2>3. e.to = u  BY <2>2 DEF Back, ArcOf
  <2> QED  BY <1>12, <2>2, <2>3 DEF LeadsTo
<1>14. ASSUME NEW u \in 1 .. n, NEW v \in 1 .. n, LeadsTo(g, u, v)
       PROVE  \E e \in ToSet(InEdges(g, v)) : e.to = u
  <2>1. PICK d \in ToSet(out[u]) : d.to = v  BY <1>12, <1>14 DEF LeadsTo
  <2>2. Back(ArcOf(u, d)) \in ToSet(InEdges(g, v))  BY <1>10, <2>1 DEF HoldsBoth
  <2>3. Back(ArcOf(u, d)).to = u  BY DEF Back, ArcOf
  <2> QED  BY <2>2, <2>3
<1>15. g.edgeCount \in Nat /\ IsFiniteSet(Looks(g, n)) /\ Cardinality(Looks(g, n)) <= g.edgeCount
  <2> DEFINE o == Offsets([v \in 1 .. n |-> Len(out[v])])
             F == FlattenSeq(out)
             L == Looks(g, n)
             f == [a \in L |-> o[a[1]] + a[2]]
  <2>1. \A v \in 1 .. n : out[v] \in Seq(Edge(n)) /\ Len(out[v]) \in Nat  BY <1>7
  <2>2. HasLengths(out, n)  BY <2>1 DEF HasLengths
  <2>3. AreOffsets(o, n, out)  BY <1>2, <2>2, OffsetsOfBlocks
  <2> HIDE DEF o
  <2>4. HasBlocks(F, o, n, out, Edge(n))  BY <1>2, <1>7, <2>3, FlattenFacts
  <2> DEFINE m == o[n + 1]
  <2>5. F \in Seq(Edge(n)) /\ Len(F) = m  BY <2>4 DEF HasBlocks
  <2> HIDE DEF F
  <2>6. m \in Nat /\ g.edgeCount = m  BY <1>11, <2>5 DEF F
  <2>7. \A v \in 1 .. n : \A k \in 1 .. Len(out[v]) : o[v] + k \in 1 .. m  BY <2>4 DEF HasBlocks
  <2>8. \A a \in L : a = <<a[1], a[2]>> /\ a[1] \in 1 .. n /\ a[2] \in 1 .. Len(out[a[1]])
    <3> TAKE a \in L
    <3>1. PICK v \in 1 .. n : a \in {v} \X (1 .. Len(OutEdges(g, v)))  BY DEF Looks
    <3> QED  BY <1>12, <3>1
  <2> HIDE DEF L, m
  <2>9. f \in [L -> 1 .. m]  BY <2>7, <2>8
  <2>10. ASSUME NEW a \in L, NEW b \in L, o[a[1]] + a[2] = o[b[1]] + b[2] PROVE a = b
    <3>1. /\ a[1] \in 1 .. n /\ b[1] \in 1 .. n /\ a[2] \in Nat /\ b[2] \in Nat /\ a[2] >= 1 /\ b[2] >= 1
          /\ a[2] <= Len(out[a[1]]) /\ b[2] <= Len(out[b[1]])
      BY <2>1, <2>8
    <3>2. o[a[1]] \in Nat /\ o[b[1]] \in Nat /\ Len(out[a[1]]) \in Nat /\ Len(out[b[1]]) \in Nat
      <4>1. \A v \in 1 .. n : o[v] \in Nat  BY <1>2, <2>3 DEF AreOffsets
      <4> QED  BY <2>1, <3>1, <4>1
    <3>3. ~(a[1] < b[1])
      <4> SUFFICES ASSUME a[1] < b[1] PROVE FALSE  OBVIOUS
      <4>1. o[a[1]] + Len(out[a[1]]) <= o[b[1]]  BY <1>2, <2>2, <2>3, <3>1, BlocksInOrder
      <4> DEFINE ata == o[a[1]]
                 atb == o[b[1]]
                 long == Len(out[a[1]])
                 ka == a[2]
                 kb == b[2]
      <4>2. /\ ata \in Nat /\ atb \in Nat /\ long \in Nat /\ ka \in Nat /\ kb \in Nat
            /\ ata + ka = atb + kb /\ ka <= long /\ kb >= 1 /\ ata + long <= atb
        BY <2>10, <3>1, <3>2, <4>1
      <4> HIDE DEF ata, atb, long, ka, kb
      <4> QED  BY <4>2
    <3>4. ~(b[1] < a[1])
      <4> SUFFICES ASSUME b[1] < a[1] PROVE FALSE  OBVIOUS
      <4>1. o[b[1]] + Len(out[b[1]]) <= o[a[1]]  BY <1>2, <2>2, <2>3, <3>1, BlocksInOrder
      <4> DEFINE atb == o[b[1]]
                 ata == o[a[1]]
                 long == Len(out[b[1]])
                 kb == b[2]
                 ka == a[2]
      <4>2. /\ atb \in Nat /\ ata \in Nat /\ long \in Nat /\ kb \in Nat /\ ka \in Nat
            /\ atb + kb = ata + ka /\ kb <= long /\ ka >= 1 /\ atb + long <= ata
        BY <2>10, <3>1, <3>2, <4>1
      <4> HIDE DEF atb, ata, long, kb, ka
      <4> QED  BY <4>2
    <3>5. a[1] = b[1]  BY <1>2, <3>1, <3>3, <3>4
    <3>6. a[2] = b[2]  BY <2>10, <3>1, <3>2, <3>5
    <3> QED  BY <2>8, <3>5, <3>6
  <2>11. f \in Injection(L, 1 .. m)
    <3>1. \A a, b \in L : f[a] = f[b] => a = b  BY <2>10
    <3> HIDE DEF f
    <3> QED  BY <2>9, <3>1 DEF Injection, IsInjective
  <2> HIDE DEF f
  <2>12. IsFiniteSet(1 .. m) /\ Cardinality(1 .. m) = m
    <3>1. IsFiniteSet(1 .. m) /\ Cardinality(1 .. m) = IF 1 > m THEN 0 ELSE m - 1 + 1
      BY <2>6, FS_Interval
    <3> QED  BY <2>6, <3>1
  <2>13. IsFiniteSet(L) /\ Cardinality(L) <= m  BY <2>11, <2>12, FS_Injection
  <2> QED  BY <2>6, <2>13 DEF L
<1>16. Len(g.nodes) = n  BY DEF n
<1> QED  BY <1>2, <1>13, <1>14, <1>15, <1>16 DEF IsNetwork

\* The target is another node of the pool.
LEMMA TargetsElsewhere ==
  ASSUME NEW g, NEW nodes, nodes \subseteq Nat, NEW source, \E v \in nodes : v # source, NEW class
  PROVE  chooseTarget(g, nodes, source, class) \subseteq nodes \ {source}
<1> DEFINE others == nodes \ {source}
           far(t) == Meters(g.nodes[source].place, g.nodes[t].place)
           Best(S) == {t \in S \ {source} :
                         IF class = "local" THEN \A u \in S \ {source} : far(t) <= far(u)
                         ELSE far(t) > 0 /\ \A u \in S : far(t) >= far(u)}
           Some(S) == IF Best(S) = {} THEN {Min(others)} ELSE Best(S)
           Sampled == UNION {Some(S) : S \in (SUBSET nodes) \ {{}}}
<1>1. chooseTarget(g, nodes, source, class)
      = IF class = "random" \/ Cardinality(nodes) < 4 THEN others ELSE Sampled
  BY DEF chooseTarget
<1>2. Min(others) \in others
  <2>1. others \subseteq Nat /\ others # {}  OBVIOUS
  <2> HIDE DEF others
  <2>2. \E i \in others : \A j \in others : i <= j  BY <2>1, LeastNumber
  <2> QED  BY <2>2 DEF Min
<1>3. \A S \in SUBSET nodes : Best(S) \subseteq others
  <2> TAKE S \in SUBSET nodes
  <2> HIDE DEF far
  <2> QED  OBVIOUS
<1> HIDE DEF Best
<1>4. \A S \in SUBSET nodes : Some(S) \subseteq others  BY <1>2, <1>3
<1> HIDE DEF Some, others
<1>5. Sampled \subseteq others  BY <1>4
<1> HIDE DEF Sampled
<1> QED  BY <1>1, <1>5 DEF others

\* Queries are drawn on a graph that Finalize has left.
PoolSpec ==
  /\ IsFinished(cfg.graph) /\ PoolInit
  /\ [][makeQueries /\ UNCHANGED cfg]_<<poolVars, cfg>>

\* What holds of the pool from the start and of the query that was drawn last.
PoolInv ==
  /\ IsFinished(cfg.graph) /\ pool = makePool(cfg.graph, cfg.pairMode)
  /\ last # <<>> => last[1] # last[2] /\ {last[1], last[2]} \subseteq pool

LEMMA PoolInitially ==
  ASSUME IsFinished(cfg.graph), PoolInit
  PROVE  PoolInv
BY DEF PoolInit, PoolInv

LEMMA PoolOfNumbers ==
  ASSUME PoolInv
  PROVE  pool \subseteq Nat
<1> DEFINE n == Len(cfg.graph.nodes)
<1>1. IsNetwork(cfg.graph, n)  BY FinishedNetwork DEF PoolInv
<1> HIDE DEF n
<1>2. n \in Nat /\ DOMAIN cfg.graph.nodes = 1 .. n  BY <1>1 DEF IsNetwork
<1>3. CASE cfg.pairMode = "all"  BY <1>2, <1>3 DEF PoolInv, makePool
<1>4. CASE cfg.pairMode # "all"
  <2>1. pool \subseteq DOMAIN cfg.graph.nodes  BY <1>1, <1>4, PoolIsLargest DEF PoolInv, IsLargest
  <2> QED  BY <1>2, <2>1
<1> QED  BY <1>3, <1>4

LEMMA PoolStep ==
  ASSUME PoolInv, [makeQueries /\ UNCHANGED cfg]_<<poolVars, cfg>>
  PROVE  PoolInv'
<1>1. CASE makeQueries /\ UNCHANGED cfg
  <2>1. cfg' = cfg /\ pool' = pool /\ Cardinality(pool) >= 2  BY <1>1 DEF makeQueries
  <2>2. last' \in Draws(cfg.graph, pool, cfg.suite, drawn + 1)  BY <1>1 DEF makeQueries
  <2> DEFINE class == Class(cfg.suite, drawn + 1)
  <2>3. /\ last' = <<last'[1], last'[2]>> /\ last'[1] \in pool
        /\ last'[2] \in chooseTarget(cfg.graph, pool, last'[1], class)
    BY <2>2 DEF Draws
  <2> HIDE DEF class
  <2>4. pool \subseteq Nat  BY PoolOfNumbers
  <2>5. \E v \in pool : v # last'[1]
    <3> SUFFICES ASSUME \A v \in pool : v = last'[1] PROVE FALSE  OBVIOUS
    <3> DEFINE x == last'[1]
    <3>1. pool = {x}  BY <2>3
    <3> HIDE DEF x
    <3>2. Cardinality(pool) = 1  BY <3>1, FS_Singleton
    <3> QED  BY <2>1, <3>2
  <2>6. last'[2] \in pool \ {last'[1]}  BY <2>3, <2>4, <2>5, TargetsElsewhere
  <2> QED  BY <2>1, <2>3, <2>6 DEF PoolInv
<1>2. CASE UNCHANGED <<poolVars, cfg>>  BY <1>2 DEF PoolInv, poolVars
<1> QED  BY <1>1, <1>2

LEMMA PoolRoutes ==
  ASSUME PoolInv
  PROVE  QueriesRoutable
<1> SUFFICES ASSUME cfg.pairMode = "strongly-connected" PROVE QueriesRoutable
  BY DEF QueriesRoutable
<1> DEFINE n == Len(cfg.graph.nodes)
<1>1. IsNetwork(cfg.graph, n)  BY FinishedNetwork DEF PoolInv
<1> HIDE DEF n
<1>2. IsLargest(cfg.graph, pool)  BY <1>1, PoolIsLargest DEF PoolInv
<1> QED  BY <1>2 DEF PoolInv, IsLargest, QueriesRoutable

\* On every graph that Finalize has left the pool is a largest strongly connected
\* component, and every query is between two of its nodes, whatever the suite draws:
\* a route is due for each (bench.go:449-592).
THEOREM PoolAlwaysRoutable == PoolSpec => []QueriesRoutable
<1>1. IsFinished(cfg.graph) /\ PoolInit => PoolInv  BY PoolInitially
<1>2. PoolInv /\ [makeQueries /\ UNCHANGED cfg]_<<poolVars, cfg>> => PoolInv'  BY PoolStep
<1>3. PoolInv => QueriesRoutable  BY PoolRoutes
<1> QED  BY <1>1, <1>2, <1>3, PTL DEF PoolSpec

\* To be reached is to have a route.
LEMMA ReachedByRoute ==
  ASSUME NEW g, NEW n, IsNetwork(g, n), NEW u \in 1 .. n, NEW v \in 1 .. n
  PROVE  Reaches(g, u, v) <=> \E p : IsRoute(g, p, u, v)
<1> DEFINE N == 1 .. n
           Z == {w \in N : \E p : IsRoute(g, p, u, w)}
<1>1. DOMAIN g.nodes = N  BY DEF IsNetwork
<1>2. u \in Z
  <2> DEFINE p == <<u>>
  <2>1. p \in Seq(N) /\ p # <<>> /\ p[1] = u /\ Len(p) = 1  OBVIOUS
  <2> HIDE DEF p
  <2>2. 1 .. Len(p) - 1 = {}  BY <2>1
  <2>3. IsRoute(g, p, u, u)  BY <1>1, <2>1, <2>2 DEF IsRoute
  <2> QED  BY <2>3
<1>3. ASSUME NEW x \in Z, NEW w, LeadsTo(g, x, w) PROVE w \in Z
  <2>1. w \in N /\ x \in N  BY <1>3, ArcsStay
  <2>2. PICK p : IsRoute(g, p, u, x)  OBVIOUS
  <2>3. /\ p \in Seq(N) /\ p # <<>> /\ p[1] = u /\ p[Len(p)] = x
        /\ \A i \in 1 .. Len(p) - 1 : LeadsTo(g, p[i], p[i + 1])
    BY <1>1, <2>2 DEF IsRoute
  <2> HIDE DEF N, Z
  <2> DEFINE q == Append(p, w)
             m == Len(p)
  <2>4. /\ q \in Seq(N) /\ Len(q) = m + 1 /\ q[m + 1] = w
        /\ \A i \in 1 .. m : q[i] = p[i]
    BY <2>1, <2>3, AppendFacts
  <2>5. m \in Nat \ {0}  BY <2>3
  <2> HIDE DEF q, m
  <2>6. q # <<>> /\ q[1] = u /\ q[Len(q)] = w /\ q[m] = x
    <3>1. Len(<<>>) = 0  OBVIOUS
    <3>2. 1 \in 1 .. m /\ m \in 1 .. m  BY <2>5
    <3> QED  BY <2>3, <2>4, <2>5, <3>1, <3>2 DEF m
  <2>7. \A i \in 1 .. Len(q) - 1 : LeadsTo(g, q[i], q[i + 1])
    <3> TAKE i \in 1 .. Len(q) - 1
    <3>1. CASE i = m  BY <1>3, <2>4, <2>6, <3>1
    <3>2. CASE i # m
      <4>1. i \in 1 .. m - 1 /\ i \in 1 .. m /\ i + 1 \in 1 .. m  BY <2>4, <2>5, <3>2
      <4> QED  BY <2>3, <2>4, <4>1 DEF m
    <3> QED  BY <3>1, <3>2
  <2>8. IsRoute(g, q, u, w)  BY <1>1, <2>4, <2>6, <2>7 DEF IsRoute
  <2> QED  BY <2>1, <2>8 DEF Z
<1>4. ASSUME Reaches(g, u, v) PROVE \E p : IsRoute(g, p, u, v)
  <2>1. IsClosed(g, Z)
    <3> SUFFICES ASSUME NEW x \in Z, NEW e \in ToSet(OutEdges(g, x)) PROVE e.to \in Z
      BY DEF IsClosed
    <3> DEFINE w == e.to
    <3>1. LeadsTo(g, x, w)  BY DEF LeadsTo
    <3> HIDE DEF w, Z
    <3> QED  BY <1>3, <3>1 DEF w
  <2>2. Z \in SUBSET DOMAIN g.nodes  BY <1>1
  <2> HIDE DEF Z
  <2>3. v \in Z  BY <1>2, <1>4, <2>1, <2>2 DEF Reaches
  <2> QED  BY <2>3 DEF Z
<1>5. ASSUME NEW p, IsRoute(g, p, u, v) PROVE Reaches(g, u, v)
  <2> DEFINE m == Len(p)
             A == {i \in 1 .. m : Reaches(g, u, p[i])}
  <2>1. /\ p \in Seq(N) /\ p # <<>> /\ p[1] = u /\ p[m] = v
        /\ \A i \in 1 .. m - 1 : LeadsTo(g, p[i], p[i + 1])
    BY <1>1, <1>5 DEF IsRoute
  <2> HIDE DEF N
  <2>2. m \in Nat \ {0}  BY <2>1
  <2> HIDE DEF m
  <2>3. 1 \in A  BY <2>1, <2>2, ReachesItself
  <2>4. ASSUME NEW i \in 1 .. m - 1, i \in A PROVE i + 1 \in A
    <3>1. i + 1 \in 1 .. m /\ LeadsTo(g, p[i], p[i + 1])  BY <2>1, <2>2
    <3>2. Reaches(g, u, p[i]) /\ Reaches(g, p[i], p[i + 1])  BY <2>4, <3>1, ReachesAlong
    <3>3. Reaches(g, u, p[i + 1])  BY <3>2, ReachesOn
    <3> QED  BY <3>1, <3>3
  <2> HIDE DEF A
  <2>5. 1 \in Int /\ m \in Int /\ m \in 1 .. m  BY <2>2
  <2>6. 1 .. m \subseteq A  BY <2>3, <2>4, <2>5, IntervalInduction
  <2>7. m \in A  BY <2>5, <2>6
  <2> QED  BY <2>1, <2>7 DEF A
<1> QED  BY <1>4, <1>5

\* Every query of the harness has a route there and one back, arc by arc.
HasRoutes(g, q) == (\E p : IsRoute(g, p, q[1], q[2])) /\ (\E p : IsRoute(g, p, q[2], q[1]))
THEOREM QueriesHaveRoutes ==
  PoolSpec => [](cfg.pairMode = "strongly-connected" /\ last # <<>> => HasRoutes(cfg.graph, last))
<1>1. ASSUME PoolInv, cfg.pairMode = "strongly-connected", last # <<>>
      PROVE  HasRoutes(cfg.graph, last)
  <2> DEFINE g == cfg.graph
             n == Len(g.nodes)
             u == last[1]
             v == last[2]
  <2>1. IsNetwork(g, n)  BY <1>1, FinishedNetwork DEF PoolInv
  <2>2. IsLargest(g, pool) /\ u \in pool /\ v \in pool  BY <1>1, <2>1, PoolIsLargest DEF PoolInv
  <2>3. DOMAIN g.nodes = 1 .. n  BY <2>1 DEF IsNetwork
  <2> HIDE DEF g, n, u, v
  <2>4. u \in 1 .. n /\ v \in 1 .. n /\ Reaches(g, u, v) /\ Reaches(g, v, u)
    BY <2>2, <2>3 DEF IsLargest, StronglyConnected
  <2>5. (\E p : IsRoute(g, p, u, v)) /\ (\E p : IsRoute(g, p, v, u))
    BY <2>1, <2>4, ReachedByRoute
  <2> QED  BY <2>5 DEF HasRoutes, g, u, v
<1>2. IsFinished(cfg.graph) /\ PoolInit => PoolInv  BY PoolInitially
<1>3. PoolInv /\ [makeQueries /\ UNCHANGED cfg]_<<poolVars, cfg>> => PoolInv'  BY PoolStep
<1> QED  BY <1>1, <1>2, <1>3, PTL DEF PoolSpec
=============================================================================
