----------------------------- MODULE WalkProofs -----------------------------
(***************************************************************************)
(* Walks from the source of a query, and that Bellman's recurrence, by     *)
(* which ShortestPath says what a distance is, has the cost of a cheapest  *)
(* one; and paths put together node by node, whose costs telescope.        *)
(* Nothing here is about a particular search.                              *)
(***************************************************************************)
EXTENDS CoupledSearch, FiniteSetTheorems, Recursion

-----------------------------------------------------------------------------
(* Walks and Bellman's recurrence (ShortestPath)                           *)

Costs == Nat \cup {Oracle!NoRoute}

\* The walks from the source: the least of the sets of arrivals no walk leaves.
Walks(q) == {x \in Arrival : \A W \in SUBSET Arrival : ClosedUnder(q, W) => x \in W}

\* The node v cannot be reached for less than c, but for c it can.
Cheapest(q, v, c) == <<v, c>> \in Walks(q) /\ \A x \in Walks(q) : x[1] = v => c <= x[2]

\* The nodes that can be reached for less than c.
Closer(q, c) == {v \in Node : \E x \in Walks(q) : x[1] = v /\ x[2] < c}

LEMMA QueryArc ==
  ASSUME NEW q, IsQuery(q), NEW a \in DOMAIN q.cost
  PROVE  /\ a[1] \in Node /\ a[2] \in Node /\ a = <<a[1], a[2]>>
         /\ q.cost[a] \in Nat /\ q.cost[a] > 0
BY DEF IsQuery

LEMMA ArrivalPair ==
  ASSUME NEW x \in Arrival
  PROVE  x = <<x[1], x[2]>> /\ x[1] \in Node /\ x[2] \in Nat
BY DEF Arrival

LEMMA WalksClosed ==
  ASSUME NEW q, IsQuery(q)
  PROVE  /\ Walks(q) \subseteq Arrival
         /\ ClosedUnder(q, Walks(q))
<1>1. <<q.src, 0>> \in Arrival  BY DEF IsQuery, Arrival
<1>2. <<q.src, 0>> \in Walks(q)  BY <1>1 DEF Walks, ClosedUnder
<1>3. ASSUME NEW a \in DOMAIN q.cost, NEW c \in Nat, <<a[1], c>> \in Walks(q)
      PROVE  <<a[2], c + q.cost[a]>> \in Walks(q)
  <2>1. <<a[2], c + q.cost[a]>> \in Arrival  BY QueryArc DEF Arrival
  <2>2. ASSUME NEW W \in SUBSET Arrival, ClosedUnder(q, W)
        PROVE  <<a[2], c + q.cost[a]>> \in W
    <3>1. <<a[1], c>> \in W  BY <1>3, <2>2 DEF Walks
    <3> QED  BY <2>2, <3>1 DEF ClosedUnder
  <2> QED  BY <2>1, <2>2 DEF Walks
<1> QED  BY <1>2, <1>3 DEF Walks, ClosedUnder

\* A walk is empty, or it has a last arc.
LEMMA LastArc ==
  ASSUME NEW q, IsQuery(q), NEW x \in Walks(q), x # <<q.src, 0>>
  PROVE  \E a \in DOMAIN q.cost : \E c \in Nat :
           <<a[1], c>> \in Walks(q) /\ x = <<a[2], c + q.cost[a]>>
<1> SUFFICES ASSUME \A a \in DOMAIN q.cost : \A c \in Nat :
                      <<a[1], c>> \in Walks(q) => x # <<a[2], c + q.cost[a]>>
             PROVE  FALSE
  OBVIOUS
<1> DEFINE W == Walks(q) \ {x}
<1>1. Walks(q) \subseteq Arrival /\ ClosedUnder(q, Walks(q))  BY WalksClosed
<1>2. ClosedUnder(q, W)
  <2>1. <<q.src, 0>> \in W  BY <1>1 DEF ClosedUnder
  <2>2. ASSUME NEW a \in DOMAIN q.cost, NEW c \in Nat, <<a[1], c>> \in W
        PROVE  <<a[2], c + q.cost[a]>> \in W
    <3>1. <<a[1], c>> \in Walks(q)  BY <2>2
    <3>2. <<a[2], c + q.cost[a]>> \in Walks(q)  BY <1>1, <3>1 DEF ClosedUnder
    <3>3. <<a[2], c + q.cost[a]>> # x  BY <3>1
    <3> QED  BY <3>2, <3>3
  <2> QED  BY <2>1, <2>2 DEF ClosedUnder
<1>3. W \in SUBSET Arrival  BY <1>1
<1>4. x \in W  BY <1>2, <1>3 DEF Walks
<1> QED  BY <1>4

LEMMA CheapestExists ==
  ASSUME NEW q, IsQuery(q), NEW x \in Walks(q)
  PROVE  \E c \in Nat : Cheapest(q, x[1], c) /\ c <= x[2]
<1> DEFINE T == {y[2] : y \in {z \in Walks(q) : z[1] = x[1]}}
<1>1. \A y \in Walks(q) : y = <<y[1], y[2]>> /\ y[1] \in Node /\ y[2] \in Nat
  BY WalksClosed, ArrivalPair
<1>2. T \subseteq Nat /\ x[2] \in T  BY <1>1
<1>3. PICK c \in T : \A d \in T : c <= d
  <2> HIDE DEF T
  <2> QED  BY <1>2, LeastNumber
<1>4. PICK y \in Walks(q) : y[1] = x[1] /\ c = y[2]  BY <1>3
<1>5. <<x[1], c>> \in Walks(q) /\ c \in Nat  BY <1>1, <1>4
<1>6. \A z \in Walks(q) : z[1] = x[1] => c <= z[2]  BY <1>3
<1> QED  BY <1>2, <1>3, <1>5, <1>6 DEF Cheapest

-----------------------------------------------------------------------------
(* One turn of the recurrence *)

\* The least of a non-empty set of natural numbers.
LEMMA MinFacts ==
  ASSUME NEW T, T \subseteq Nat, T # {}
  PROVE  Oracle!Min(T) \in T /\ \A m \in T : Oracle!Min(T) <= m
<1>1. \E n \in T : \A m \in T : n <= m  BY LeastNumber
<1> QED  BY <1>1 DEF Oracle!Min

LEMMA ExtendedFacts ==
  ASSUME NEW q, IsQuery(q), NEW s \in [Node -> Costs]
  PROVE  LET e == Oracle!Extended(q, s)
         IN  /\ e \in [Node -> Costs]
             /\ \A v \in Node : s[v] \in Nat => e[v] \in Nat /\ e[v] <= s[v]
             /\ \A a \in DOMAIN q.cost :
                  s[a[1]] \in Nat => e[a[2]] \in Nat /\ e[a[2]] <= s[a[1]] + q.cost[a]
             /\ \A v \in Node : e[v] \in Nat =>
                  \/ s[v] \in Nat /\ e[v] = s[v]
                  \/ \E a \in DOMAIN q.cost :
                       a[2] = v /\ s[a[1]] \in Nat /\ e[v] = s[a[1]] + q.cost[a]
<1> DEFINE e == Oracle!Extended(q, s)
           through(v) == {a \in DOMAIN q.cost : a[2] = v /\ s[a[1]] # Oracle!NoRoute}
           longer(v) == {s[a[1]] + q.cost[a] : a \in through(v)}
           known(v) == {s[v]} \cup longer(v)
           T(v) == known(v) \ {Oracle!NoRoute}
<1>1. e = [v \in Node |-> IF known(v) = {Oracle!NoRoute} THEN Oracle!NoRoute
                          ELSE Oracle!Min(T(v))]
  BY DEF Oracle!Extended
<1>2. Oracle!NoRoute \notin Nat  BY DEF Oracle!NoRoute
<1>3. \A v \in Node : s[v] \in Nat \/ s[v] = Oracle!NoRoute  BY DEF Costs
<1>4. \A a \in DOMAIN q.cost : a[1] \in Node /\ a[2] \in Node /\ q.cost[a] \in Nat
  BY QueryArc
<1>5. ASSUME NEW v \in Node
      PROVE  /\ T(v) \subseteq Nat
             /\ known(v) # {Oracle!NoRoute} => T(v) # {}
             /\ known(v) = {Oracle!NoRoute} => T(v) = {}
             /\ known(v) = {Oracle!NoRoute} \/ (Oracle!Min(T(v)) \in T(v) /\ \A m \in T(v) : Oracle!Min(T(v)) <= m)
  <2>1. \A a \in through(v) : s[a[1]] \in Nat /\ s[a[1]] + q.cost[a] \in Nat
    BY <1>3, <1>4
  <2>2. longer(v) \subseteq Nat  BY <2>1
  <2>3. T(v) \subseteq Nat  BY <1>3, <2>2
  <2>4. known(v) # {}  OBVIOUS
  <2> HIDE DEF known
  <2>5. /\ known(v) # {Oracle!NoRoute} => T(v) # {}
        /\ known(v) = {Oracle!NoRoute} => T(v) = {}
    BY <2>4
  <2>6. T(v) # {} => Oracle!Min(T(v)) \in T(v) /\ \A m \in T(v) : Oracle!Min(T(v)) <= m
    <3> HIDE DEF T
    <3> QED  BY <2>3, MinFacts
  <2> QED  BY <2>3, <2>5, <2>6
<1>6. ASSUME NEW v \in Node
      PROVE  /\ e[v] \in Costs
             /\ e[v] \in Nat => e[v] \in T(v)
             /\ \A m \in T(v) : e[v] \in Nat /\ e[v] <= m
  <2>1. e[v] = IF known(v) = {Oracle!NoRoute} THEN Oracle!NoRoute ELSE Oracle!Min(T(v))
    BY <1>1
  <2> HIDE DEF e, T, known
  <2> QED  BY <1>2, <1>5, <2>1 DEF Costs
<1>7. e \in [Node -> Costs]
  <2>1. e = [v \in Node |-> e[v]]  BY <1>1
  <2> HIDE DEF e
  <2> QED  BY <1>6, <2>1
<1>8. ASSUME NEW v \in Node, s[v] \in Nat
      PROVE  e[v] \in Nat /\ e[v] <= s[v]
  <2>1. s[v] \in T(v)  BY <1>2, <1>8
  <2> HIDE DEF e, T
  <2> QED  BY <1>6, <2>1
<1>9. ASSUME NEW a \in DOMAIN q.cost, s[a[1]] \in Nat
      PROVE  e[a[2]] \in Nat /\ e[a[2]] <= s[a[1]] + q.cost[a]
  <2>1. a \in through(a[2])  BY <1>2, <1>9
  <2>2. s[a[1]] + q.cost[a] \in longer(a[2]) /\ s[a[1]] + q.cost[a] \in Nat
    BY <1>4, <1>9, <2>1
  <2>3. s[a[1]] + q.cost[a] \in T(a[2])  BY <1>2, <2>2
  <2> HIDE DEF e, T
  <2> QED  BY <1>4, <1>6, <2>3
<1>10. ASSUME NEW v \in Node, e[v] \in Nat
       PROVE  \/ s[v] \in Nat /\ e[v] = s[v]
              \/ \E a \in DOMAIN q.cost :
                   a[2] = v /\ s[a[1]] \in Nat /\ e[v] = s[a[1]] + q.cost[a]
  <2>1. e[v] \in T(v)
    <3> HIDE DEF e, T
    <3> QED  BY <1>6, <1>10
  <2> HIDE DEF e
  <2>2. e[v] = s[v] \/ e[v] \in longer(v)  BY <2>1
  <2>3. CASE e[v] = s[v]  BY <1>10, <2>3
  <2>4. CASE e[v] \in longer(v)
    <3>1. PICK a \in through(v) : e[v] = s[a[1]] + q.cost[a]  BY <2>4
    <3> QED  BY <1>3, <1>4, <3>1
  <2> QED  BY <2>2, <2>3, <2>4
<1> HIDE DEF e
<1> QED  BY <1>7, <1>8, <1>9, <1>10 DEF e

\* The turns of the recurrence: f[k] has the costs of the walks of at most k arcs.
IsRecurrence(q, f) ==
  /\ f[0] = [v \in Node |-> IF v = q.src THEN 0 ELSE Oracle!NoRoute]
  /\ \A k \in 1 .. Cardinality(Node) : f[k] = Oracle!Extended(q, f[k - 1])

LEMMA RecurrenceExists ==
  ASSUME NEW q, IsQuery(q)
  PROVE  \E f \in [0 .. Cardinality(Node) -> [Node -> Costs]] :
           IsRecurrence(q, f) /\ Oracle!DistancesFrom(q) = f[Cardinality(Node)]
<1> DEFINE n == Cardinality(Node)
           S == [Node -> Costs]
           start == [v \in Node |-> IF v = q.src THEN 0 ELSE Oracle!NoRoute]
           Turn == [ip \in (1 .. n) \X S |-> Oracle!Extended(q, ip[2])]
           IsWithin(f) == f = [k \in 0 .. n |-> IF k = 0 THEN start
                                                ELSE Oracle!Extended(q, f[k - 1])]
           within == CHOOSE f : IsWithin(f)
<1>1. n \in Nat  BY NodeAssumption, FS_CardinalityType
<1>2. start \in S  BY DEF Costs
<1>3. \A s \in S : Oracle!Extended(q, s) \in S  BY ExtendedFacts
<1>4. Turn \in [(1 .. n) \X S -> S]
  <2> HIDE DEF S
  <2> QED  BY <1>3
<1>5. \A k \in 1 .. n, s \in S : Turn[<<k, s>>] = Oracle!Extended(q, s)
  <2> HIDE DEF S, n
  <2> QED  OBVIOUS
<1>6. PICK f : IsRun(f, n, S, start, Turn)
  <2> HIDE DEF S, n, start, Turn
  <2> QED  BY <1>1, <1>2, <1>4, PrimitiveRecursion
<1>7. f \in [0 .. n -> S] /\ f[0] = start /\ \A i \in 1 .. n : f[i] = Turn[<<i, f[i - 1]>>]
  BY <1>6 DEF IsRun
<1> HIDE DEF S, n, start, Turn
<1>8. \A i \in 1 .. n : f[i] = Oracle!Extended(q, f[i - 1])
  <2> TAKE i \in 1 .. n
  <2>1. i - 1 \in 0 .. n  BY <1>1
  <2>2. f[i - 1] \in S  BY <1>7, <2>1
  <2> QED  BY <1>5, <1>7, <2>2
<1>9. IsWithin(f)
  <2>1. \A k \in 0 .. n : f[k] = IF k = 0 THEN start ELSE Oracle!Extended(q, f[k - 1])
    <3> TAKE k \in 0 .. n
    <3>1. k = 0 \/ k \in 1 .. n  BY <1>1
    <3> QED  BY <1>1, <1>7, <1>8, <3>1
  <2> QED  BY <1>7, <2>1
<1>10. IsWithin(within)
  <2> HIDE DEF IsWithin
  <2> QED  BY <1>9
<1> HIDE DEF within
<1>11. \A k \in 0 .. n : within[k] = IF k = 0 THEN start ELSE Oracle!Extended(q, within[k - 1])
  BY <1>10
<1> DEFINE T == {k \in 0 .. n : within[k] = f[k]}
<1>12. 0 .. n \subseteq T
  <2>1. 0 \in T  BY <1>1, <1>7, <1>11
  <2>2. ASSUME NEW i \in 0 .. n - 1, i \in T
        PROVE  i + 1 \in T
    <3>1. i + 1 \in 0 .. n /\ i + 1 # 0 /\ (i + 1) - 1 = i /\ i + 1 \in 1 .. n  BY <1>1
    <3>2. within[i + 1] = Oracle!Extended(q, within[i])  BY <1>11, <3>1
    <3>3. f[i + 1] = Oracle!Extended(q, f[i])  BY <1>8, <3>1
    <3> QED  BY <2>2, <3>1, <3>2, <3>3
  <2> HIDE DEF T
  <2> QED  BY <1>1, <2>1, <2>2, IntervalInduction
<1>13. Oracle!DistancesFrom(q) = within[n]
  <2>1. Oracle!Cardinality(Node) = n  BY DEF n, Oracle!Cardinality, Cardinality
  <2> QED  BY <2>1 DEF Oracle!DistancesFrom, within, start
<1>14. n \in 0 .. n  BY <1>1
<1>15. Oracle!DistancesFrom(q) = f[n]  BY <1>12, <1>13, <1>14
<1>16. IsRecurrence(q, f)  BY <1>7, <1>8 DEF IsRecurrence, start, n
<1> QED  BY <1>7, <1>15, <1>16 DEF S, n

\* Before its last arc, a cheapest walk is a cheapest walk to a closer node.
LEMMA CheapestLastArc ==
  ASSUME NEW q, IsQuery(q), NEW v \in Node, NEW c \in Nat, Cheapest(q, v, c),
         <<v, c>> # <<q.src, 0>>
  PROVE  \E a \in DOMAIN q.cost, b \in Nat :
           /\ a[2] = v /\ c = b + q.cost[a] /\ Cheapest(q, a[1], b)
           /\ Cardinality(Closer(q, b)) < Cardinality(Closer(q, c))
<1>1. Walks(q) \subseteq Arrival /\ ClosedUnder(q, Walks(q))  BY WalksClosed
<1>2. <<v, c>> \in Walks(q) /\ \A x \in Walks(q) : x[1] = v => c <= x[2]  BY DEF Cheapest
<1>3. PICK a \in DOMAIN q.cost : \E b \in Nat :
        <<a[1], b>> \in Walks(q) /\ <<v, c>> = <<a[2], b + q.cost[a]>>
  BY <1>2, LastArc
<1>4. PICK b \in Nat : <<a[1], b>> \in Walks(q) /\ <<v, c>> = <<a[2], b + q.cost[a]>>
  BY <1>3
<1>5. /\ a[1] \in Node /\ a[2] = v /\ c = b + q.cost[a] /\ b < c
      /\ q.cost[a] \in Nat
  BY <1>4, QueryArc
<1>6. Cheapest(q, a[1], b)
  <2>1. ASSUME NEW x \in Walks(q), x[1] = a[1] PROVE b <= x[2]
    <3>1. x = <<x[1], x[2]>> /\ x[2] \in Nat  BY <1>1, ArrivalPair
    <3>2. <<a[2], x[2] + q.cost[a]>> \in Walks(q)  BY <1>1, <2>1, <3>1 DEF ClosedUnder
    <3>3. c <= x[2] + q.cost[a]  BY <1>2, <1>5, <3>2
    <3> QED  BY <1>5, <3>1, <3>3
  <2> QED  BY <1>4, <2>1 DEF Cheapest
<1>7. Closer(q, b) \subseteq Closer(q, c)
  <2> SUFFICES ASSUME NEW u \in Closer(q, b) PROVE u \in Closer(q, c)  OBVIOUS
  <2>1. PICK x \in Walks(q) : x[1] = u /\ x[2] < b  BY DEF Closer
  <2>2. x[2] \in Nat  BY <1>1, ArrivalPair
  <2>3. x[2] < c  BY <1>5, <2>1, <2>2
  <2> QED  BY <2>1, <2>3 DEF Closer
<1>8. a[1] \in Closer(q, c)
  <2>1. <<a[1], b>>[1] = a[1] /\ <<a[1], b>>[2] < c  BY <1>5
  <2> QED  BY <1>4, <1>5, <2>1 DEF Closer
<1>9. a[1] \notin Closer(q, b)
  <2> SUFFICES ASSUME a[1] \in Closer(q, b) PROVE FALSE  OBVIOUS
  <2>1. PICK x \in Walks(q) : x[1] = a[1] /\ x[2] < b  BY DEF Closer
  <2>2. x[2] \in Nat /\ b <= x[2]  BY <1>1, <1>6, <2>1, ArrivalPair DEF Cheapest
  <2> QED  BY <2>1, <2>2
<1>10. Cardinality(Closer(q, b)) < Cardinality(Closer(q, c))
  <2>1. Closer(q, c) \subseteq Node  BY DEF Closer
  <2>2. IsFiniteSet(Closer(q, c))  BY <2>1, NodeAssumption, FS_Subset
  <2>3. /\ Cardinality(Closer(q, b)) <= Cardinality(Closer(q, c))
        /\ Cardinality(Closer(q, b)) # Cardinality(Closer(q, c))
        /\ IsFiniteSet(Closer(q, b))
    BY <1>7, <1>8, <1>9, <2>2, FS_Subset
  <2>4. Cardinality(Closer(q, b)) \in Nat /\ Cardinality(Closer(q, c)) \in Nat
    BY <2>2, <2>3, FS_CardinalityType
  <2> QED  BY <2>3, <2>4
<1> QED  BY <1>5, <1>6, <1>10

LEMMA CloserThan ==
  ASSUME NEW q, IsQuery(q), NEW v \in Node, NEW c \in Nat, Cheapest(q, v, c)
  PROVE  Cardinality(Closer(q, c)) \in 0 .. Cardinality(Node)
<1>1. Closer(q, c) \in SUBSET Node  BY DEF Closer
<1>2. IsFiniteSet(Node)  BY NodeAssumption
<1>3. /\ IsFiniteSet(Closer(q, c))
      /\ Cardinality(Closer(q, c)) <= Cardinality(Node)
  BY <1>1, <1>2, FS_Subset
<1> QED  BY <1>2, <1>3, FS_CardinalityType

\* The recurrence has the cheapest walks, those to the closer nodes first, and
\* never a cost that no walk has.
LEMMA RecurrenceExact ==
  ASSUME NEW q, IsQuery(q), NEW f \in [0 .. Cardinality(Node) -> [Node -> Costs]],
         IsRecurrence(q, f), NEW k \in 0 .. Cardinality(Node), NEW v \in Node
  PROVE  /\ f[k][v] \in Nat => <<v, f[k][v]>> \in Walks(q)
         /\ \A c \in Nat : Cheapest(q, v, c) /\ Cardinality(Closer(q, c)) <= k => f[k][v] = c
<1> DEFINE n == Cardinality(Node)
           Sound(j, u) == f[j][u] \in Nat => <<u, f[j][u]>> \in Walks(q)
           Found(j, u) == \A c \in Nat :
             Cheapest(q, u, c) /\ Cardinality(Closer(q, c)) <= j => f[j][u] = c
           T == {j \in 0 .. n : \A u \in Node : Sound(j, u) /\ Found(j, u)}
<1>1. n \in Nat  BY NodeAssumption, FS_CardinalityType
<1>2. /\ \A u \in Node : f[0][u] = IF u = q.src THEN 0 ELSE Oracle!NoRoute
      /\ Oracle!NoRoute \notin Nat
  BY DEF IsRecurrence, Oracle!NoRoute
<1>3. <<q.src, 0>> \in Walks(q) /\ q.src \in Node  BY WalksClosed DEF ClosedUnder, IsQuery
<1>4. 0 \in T
  <2>1. ASSUME NEW u \in Node PROVE Sound(0, u)  BY <1>2, <1>3
  <2>2. ASSUME NEW u \in Node, NEW c \in Nat, Cheapest(q, u, c), Cardinality(Closer(q, c)) <= 0
        PROVE  f[0][u] = c
    <3>1. CASE <<u, c>> = <<q.src, 0>>  BY <1>2, <3>1
    <3>2. CASE <<u, c>> # <<q.src, 0>>
      <4>1. PICK a \in DOMAIN q.cost, b \in Nat :
              /\ Cheapest(q, a[1], b)
              /\ Cardinality(Closer(q, b)) < Cardinality(Closer(q, c))
        BY <2>2, <3>2, CheapestLastArc
      <4>2. a[1] \in Node  BY QueryArc
      <4>3. Cardinality(Closer(q, b)) \in 0 .. n /\ Cardinality(Closer(q, c)) \in 0 .. n
        BY <2>2, <4>1, <4>2, CloserThan
      <4> QED  BY <1>1, <2>2, <4>1, <4>3
    <3> QED  BY <3>1, <3>2
  <2> QED  BY <1>1, <2>1, <2>2
<1>5. ASSUME NEW i \in 0 .. n - 1, i \in T
      PROVE  i + 1 \in T
  <2> DEFINE s == f[i]
  <2>1. i \in Nat /\ i \in 0 .. n /\ i + 1 \in 1 .. n /\ i + 1 \in 0 .. n /\ (i + 1) - 1 = i
    BY <1>1
  <2>2. s \in [Node -> Costs] /\ f[i + 1] = Oracle!Extended(q, s)
    BY <2>1 DEF IsRecurrence
  <2>3. \A u \in Node : (s[u] \in Nat => <<u, s[u]>> \in Walks(q))
          /\ \A c \in Nat : Cheapest(q, u, c) /\ Cardinality(Closer(q, c)) <= i => s[u] = c
    BY <1>5
  <2> DEFINE e == f[i + 1]
  <2> HIDE DEF s
  <2>4. /\ \A u \in Node : s[u] \in Nat => e[u] \in Nat /\ e[u] <= s[u]
        /\ \A a \in DOMAIN q.cost :
             s[a[1]] \in Nat => e[a[2]] \in Nat /\ e[a[2]] <= s[a[1]] + q.cost[a]
        /\ \A u \in Node : e[u] \in Nat =>
             \/ s[u] \in Nat /\ e[u] = s[u]
             \/ \E a \in DOMAIN q.cost :
                  a[2] = u /\ s[a[1]] \in Nat /\ e[u] = s[a[1]] + q.cost[a]
    BY <2>2, ExtendedFacts
  <2> HIDE DEF e
  <2>5. ASSUME NEW u \in Node, e[u] \in Nat PROVE <<u, e[u]>> \in Walks(q)
    <3>1. CASE s[u] \in Nat /\ e[u] = s[u]  BY <2>3, <3>1
    <3>2. CASE \E a \in DOMAIN q.cost :
                 a[2] = u /\ s[a[1]] \in Nat /\ e[u] = s[a[1]] + q.cost[a]
      <4>1. PICK a \in DOMAIN q.cost :
              a[2] = u /\ s[a[1]] \in Nat /\ e[u] = s[a[1]] + q.cost[a]
        BY <3>2
      <4>2. <<a[1], s[a[1]]>> \in Walks(q)  BY <2>3, <4>1, QueryArc
      <4> QED  BY <4>1, <4>2, WalksClosed DEF ClosedUnder
    <3> QED  BY <2>4, <2>5, <3>1, <3>2
  <2>6. ASSUME NEW u \in Node, NEW c \in Nat, Cheapest(q, u, c),
               Cardinality(Closer(q, c)) <= i + 1
        PROVE  e[u] = c
    <3>1. e[u] \in Nat => c <= e[u]
      <4> HAVE e[u] \in Nat
      <4>1. <<u, e[u]>> \in Walks(q)  BY <2>5
      <4>2. <<u, e[u]>>[1] = u /\ <<u, e[u]>>[2] = e[u]  OBVIOUS
      <4> QED  BY <2>6, <4>1, <4>2 DEF Cheapest
    <3>2. e[u] \in Nat /\ e[u] <= c
      <4>1. CASE <<u, c>> = <<q.src, 0>>
        <5>0. Cheapest(q, q.src, 0)  BY <2>6, <4>1
        <5>1. CASE Cardinality(Closer(q, c)) <= i
          <6>1. s[u] = c  BY <2>3, <2>6, <5>1
          <6> QED  BY <2>4, <6>1
        <5>2. CASE ~(Cardinality(Closer(q, c)) <= i)
          <6>1. Closer(q, 0) = {}
            <7>1. \A x \in Walks(q) : x[2] \in Nat  BY WalksClosed, ArrivalPair
            <7> QED  BY <7>1 DEF Closer
          <6>2. Cardinality(Closer(q, 0)) = 0  BY <6>1, FS_EmptySet
          <6> QED  BY <2>1, <4>1, <5>2, <6>2
        <5> QED  BY <5>1, <5>2
      <4>2. CASE <<u, c>> # <<q.src, 0>>
        <5>1. PICK a \in DOMAIN q.cost, b \in Nat :
                /\ a[2] = u /\ c = b + q.cost[a] /\ Cheapest(q, a[1], b)
                /\ Cardinality(Closer(q, b)) < Cardinality(Closer(q, c))
          BY <2>6, <4>2, CheapestLastArc
        <5>2. a[1] \in Node  BY QueryArc
        <5>3. Cardinality(Closer(q, b)) \in 0 .. n /\ Cardinality(Closer(q, c)) \in 0 .. n
          BY <2>6, <5>1, <5>2, CloserThan
        <5>4. Cardinality(Closer(q, b)) <= i  BY <1>1, <2>1, <2>6, <5>1, <5>3
        <5>5. s[a[1]] = b  BY <2>3, <5>1, <5>2, <5>4
        <5> QED  BY <2>4, <5>1, <5>5
      <4> QED  BY <4>1, <4>2
    <3> QED  BY <3>1, <3>2
  <2>7. \A u \in Node : Sound(i + 1, u) /\ Found(i + 1, u)  BY <2>5, <2>6 DEF e
  <2> HIDE DEF Sound, Found
  <2> QED  BY <2>1, <2>7
<1>6. 0 .. n \subseteq T
  <2> HIDE DEF T, n
  <2> QED  BY <1>1, <1>4, <1>5, IntervalInduction
<1> QED  BY <1>6

\* Bellman's recurrence is exact: it has the cost of a cheapest walk to the target,
\* and NoRoute if there is none.
LEMMA BellmanExact ==
  ASSUME NEW q, IsQuery(q)
  PROVE  /\ Oracle!Distance(q) \in Costs
         /\ Oracle!Distance(q) \in Nat => Cheapest(q, q.dst, Oracle!Distance(q))
         /\ \A x \in Walks(q) : x[1] = q.dst =>
              Oracle!Distance(q) \in Nat /\ Oracle!Distance(q) <= x[2]
<1> DEFINE n == Cardinality(Node)
           d == Oracle!Distance(q)
<1>1. PICK f \in [0 .. Cardinality(Node) -> [Node -> Costs]] :
        IsRecurrence(q, f) /\ Oracle!DistancesFrom(q) = f[Cardinality(Node)]
  BY RecurrenceExists
<1>2. n \in 0 .. n /\ q.dst \in Node  BY NodeAssumption, FS_CardinalityType DEF IsQuery
<1>3. d = f[n][q.dst]  BY <1>1 DEF Oracle!Distance
<1>4. d \in Costs  BY <1>2, <1>3
<1>5. ASSUME NEW x \in Walks(q), x[1] = q.dst
      PROVE  d \in Nat /\ d <= x[2]
  <2>1. PICK c \in Nat : Cheapest(q, q.dst, c) /\ c <= x[2]  BY <1>5, CheapestExists
  <2>2. Cardinality(Closer(q, c)) <= n  BY <1>2, <2>1, CloserThan
  <2>3. d = c
    <3> HIDE DEF n, d
    <3> QED  BY <1>1, <1>2, <1>3, <2>1, <2>2, RecurrenceExact DEF n
  <2> QED  BY <2>1, <2>3
<1>6. ASSUME d \in Nat PROVE Cheapest(q, q.dst, d)
  <2>1. <<q.dst, d>> \in Walks(q)
    <3> HIDE DEF n, d
    <3> QED  BY <1>1, <1>2, <1>3, <1>6, RecurrenceExact DEF n
  <2> HIDE DEF d
  <2> QED  BY <1>5, <2>1 DEF Cheapest
<1> QED  BY <1>4, <1>5, <1>6

-----------------------------------------------------------------------------
(* The cost of a route *)

\* A cost that grows along p arc by arc is the cost of the route.
LEMMA RouteCostFacts ==
  ASSUME NEW q, IsQuery(q), NEW p \in Seq(Node), Len(p) \in Nat, Len(p) > 0,
         NEW g \in [1 .. Len(p) -> Int], g[1] = 0,
         \A i \in 1 .. Len(p) - 1 : g[i + 1] = g[i] + q.cost[<<p[i], p[i + 1]>>]
  PROVE  Oracle!RouteCost(q, p) = g[Len(p)]
<1> DEFINE n == Len(p)
           IsUpTo(f) == f = [i \in 1 .. n |-> IF i = 1 THEN 0
                                             ELSE f[i - 1] + q.cost[<<p[i - 1], p[i]>>]]
           upTo == CHOOSE f : IsUpTo(f)
<1>1. Oracle!RouteCost(q, p) = upTo[n]  BY DEF Oracle!RouteCost
<1>2. n \in Nat /\ n > 0  OBVIOUS
<1> HIDE DEF n
<1>3. \A i \in 1 .. n : i # 1 => i - 1 \in 1 .. n - 1 /\ (i - 1) + 1 = i  BY <1>2
<1>4. IsUpTo(g)
  <2>1. \A i \in 1 .. n : g[i] = IF i = 1 THEN 0 ELSE g[i - 1] + q.cost[<<p[i - 1], p[i]>>]
    BY <1>3 DEF n
  <2>2. g \in [1 .. n -> Int]  BY DEF n
  <2> QED  BY <2>1, <2>2
<1>5. IsUpTo(upTo)
  <2> HIDE DEF IsUpTo
  <2> QED  BY <1>4
<1> HIDE DEF upTo
<1>6. \A i \in 1 .. n : upTo[i] = IF i = 1 THEN 0 ELSE upTo[i - 1] + q.cost[<<p[i - 1], p[i]>>]
  BY <1>5
<1> DEFINE T == {i \in 1 .. n : upTo[i] = g[i]}
<1>7. 1 .. n \subseteq T
  <2>1. 1 \in T
    <3>1. 1 \in 1 .. n  BY <1>2
    <3>2. upTo[1] = 0  BY <1>6, <3>1
    <3> QED  BY <3>1, <3>2
  <2>2. ASSUME NEW i \in 1 .. n - 1, i \in T
        PROVE  i + 1 \in T
    <3>1. i + 1 \in 1 .. n /\ i + 1 # 1 /\ (i + 1) - 1 = i  BY <1>2
    <3>2. upTo[i + 1] = upTo[i] + q.cost[<<p[i], p[i + 1]>>]  BY <1>6, <3>1
    <3>3. g[i + 1] = g[i] + q.cost[<<p[i], p[i + 1]>>]  BY DEF n
    <3> QED  BY <2>2, <3>1, <3>2, <3>3
  <2> HIDE DEF T
  <2>3. 1 \in Int /\ n \in Int  BY <1>2
  <2> QED  BY <2>1, <2>2, <2>3, IntervalInduction
<1>8. upTo[n] = g[n]  BY <1>2, <1>7
<1> QED  BY <1>1, <1>8 DEF n

\* A route no dearer than the distance, by bounds that grow along it at least by the
\* costs of its arcs, costs the distance.
LEMMA RouteWithin ==
  ASSUME NEW q, IsQuery(q), NEW p \in Seq(Node), Oracle!IsRoute(q, p),
         Oracle!Distance(q) \in Nat,
         NEW bound \in [1 .. Len(p) -> Int], bound[1] = 0,
         \A i \in 1 .. Len(p) - 1 : bound[i] + q.cost[<<p[i], p[i + 1]>>] <= bound[i + 1],
         bound[Len(p)] <= Oracle!Distance(q)
  PROVE  Oracle!RouteCost(q, p) = Oracle!Distance(q)
<1> DEFINE n == Len(p)
           cost(i) == q.cost[<<p[i], p[i + 1]>>]
           Step == [is \in (1 .. n - 1) \X Nat |-> is[2] + cost(is[1])]
<1>1. /\ p # <<>> /\ p[1] = q.src /\ p[n] = q.dst
      /\ \A i \in 1 .. n - 1 : <<p[i], p[i + 1]>> \in DOMAIN q.cost
  BY DEF Oracle!IsRoute
<1>2. n \in Nat /\ n > 0 /\ n - 1 \in Nat  BY <1>1
<1>3. \A i \in 1 .. n - 1 : cost(i) \in Nat  BY <1>1, QueryArc
<1>4. Step \in [(1 .. n - 1) \X Nat -> Nat]
  <2> HIDE DEF n, cost
  <2> QED  BY <1>3
<1>5. PICK f : IsRun(f, n - 1, Nat, 0, Step)
  <2> HIDE DEF n, Step
  <2> QED  BY <1>2, <1>4, PrimitiveRecursion
<1>6. f \in [0 .. n - 1 -> Nat] /\ f[0] = 0
      /\ \A i \in 1 .. n - 1 : f[i] = f[i - 1] + cost(i)
  <2> HIDE DEF n, cost
  <2>1. f \in [0 .. n - 1 -> Nat] /\ f[0] = 0
        /\ \A i \in 1 .. n - 1 : f[i] = Step[<<i, f[i - 1]>>]
    BY <1>5 DEF IsRun
  <2>2. ASSUME NEW i \in 1 .. n - 1 PROVE f[i] = f[i - 1] + cost(i)
    <3>1. i - 1 \in 0 .. n - 1  BY <1>2
    <3>2. f[i - 1] \in Nat  BY <2>1, <3>1
    <3> QED  BY <2>1, <3>2
  <2> QED  BY <2>1, <2>2
<1> DEFINE g == [i \in 1 .. n |-> f[i - 1]]
<1> HIDE DEF n, cost, Step
<1>7. /\ g \in [1 .. n -> Nat] /\ g[1] = 0
      /\ \A i \in 1 .. n - 1 : g[i + 1] = g[i] + cost(i)
  <2>1. \A i \in 1 .. n : i - 1 \in 0 .. n - 1  BY <1>2
  <2>2. g \in [1 .. n -> Nat]  BY <1>6, <2>1
  <2>3. g[1] = 0  BY <1>2, <1>6
  <2>4. ASSUME NEW i \in 1 .. n - 1 PROVE g[i + 1] = g[i] + cost(i)
    <3>1. i \in 1 .. n /\ i + 1 \in 1 .. n /\ (i + 1) - 1 = i  BY <1>2
    <3>2. f[i] = f[i - 1] + cost(i)  BY <1>6
    <3> QED  BY <3>1, <3>2
  <2> QED  BY <2>2, <2>3, <2>4
<1> HIDE DEF g
<1>8. Oracle!RouteCost(q, p) = g[n]
  <2>1. g \in [1 .. n -> Int]  BY <1>7
  <2> QED  BY <1>2, <1>7, <2>1, RouteCostFacts DEF n, cost
<1> DEFINE T == {i \in 1 .. n : g[i] <= bound[i] /\ <<p[i], g[i]>> \in Walks(q)}
<1>9. 1 .. n \subseteq T
  <2>1. ClosedUnder(q, Walks(q))  BY WalksClosed
  <2>2. 1 \in T
    <3>1. 1 \in 1 .. n /\ g[1] = 0 /\ g[1] <= bound[1]  BY <1>2, <1>7
    <3>2. <<p[1], g[1]>> \in Walks(q)  BY <1>1, <2>1, <3>1 DEF ClosedUnder
    <3> QED  BY <3>1, <3>2
  <2>3. ASSUME NEW i \in 1 .. n - 1, i \in T PROVE i + 1 \in T
    <3>1. i \in 1 .. n /\ i + 1 \in 1 .. n  BY <1>2
    <3>2. g[i] \in Nat /\ g[i + 1] = g[i] + cost(i) /\ cost(i) \in Nat
          /\ bound[i] \in Int /\ bound[i + 1] \in Int
      BY <1>3, <1>7, <3>1 DEF n
    <3>3. bound[i] + cost(i) <= bound[i + 1]  BY DEF n, cost
    <3>4. g[i + 1] <= bound[i + 1]  BY <2>3, <3>2, <3>3
    <3>5. <<p[i], p[i + 1]>> \in DOMAIN q.cost  BY <1>1
    <3>6. <<p[i + 1], g[i] + cost(i)>> \in Walks(q)
      BY <2>1, <2>3, <3>2, <3>5 DEF ClosedUnder, cost
    <3> QED  BY <3>1, <3>2, <3>4, <3>6
  <2>4. 1 \in Int /\ n \in Int  BY <1>2
  <2> HIDE DEF T
  <2> QED  BY <2>2, <2>3, <2>4, IntervalInduction
<1>10. g[n] <= bound[n] /\ <<p[n], g[n]>> \in Walks(q) /\ g[n] \in Nat /\ bound[n] \in Int
  BY <1>2, <1>7, <1>9 DEF n
<1>11. Oracle!Distance(q) <= g[n]
  <2>1. <<p[n], g[n]>>[1] = q.dst /\ <<p[n], g[n]>>[2] = g[n]  BY <1>1
  <2> QED  BY <1>10, <2>1, BellmanExact
<1>12. g[n] <= Oracle!Distance(q)  BY <1>10 DEF n
<1> QED  BY <1>8, <1>10, <1>11, <1>12

-----------------------------------------------------------------------------
(* Paths put together node by node                                         *)

LEMMA PrependFacts ==
  ASSUME NEW S, NEW p \in S, NEW q \in Seq(S), q # <<>>
  PROVE  /\ <<p>> \o q \in Seq(S) /\ <<p>> \o q # <<>>
         /\ Len(<<p>> \o q) = Len(q) + 1 /\ Len(q) \in Nat /\ Len(q) > 0
         /\ (<<p>> \o q)[1] = p
         /\ \A i \in 2 .. Len(q) + 1 : (<<p>> \o q)[i] = q[i - 1]
OBVIOUS

LEMMA AppendFacts ==
  ASSUME NEW S, NEW p \in S, NEW q \in Seq(S), q # <<>>
  PROVE  /\ Append(q, p) \in Seq(S) /\ Append(q, p) # <<>>
         /\ Len(Append(q, p)) = Len(q) + 1 /\ Len(q) \in Nat /\ Len(q) > 0
         /\ Append(q, p)[Len(q) + 1] = p
         /\ \A i \in 1 .. Len(q) : Append(q, p)[i] = q[i]
OBVIOUS

\* The arcs of p fit between the costs lo and hi.
Spans(q, p, lo, hi) ==
  \E b \in [1 .. Len(p) -> Int] :
    /\ lo <= b[1] /\ b[Len(p)] <= hi
    /\ \A i \in 1 .. Len(p) - 1 :
         <<p[i], p[i + 1]>> \in DOMAIN q.cost /\ b[i] + q.cost[<<p[i], p[i + 1]>>] <= b[i + 1]

LEMMA SpansPoint ==
  ASSUME NEW q, NEW v, NEW lo \in Int, NEW hi \in Int, lo <= hi
  PROVE  Spans(q, <<v>>, lo, hi)
<1>1. Len(<<v>>) = 1  OBVIOUS
<1> DEFINE b == [i \in 1 .. Len(<<v>>) |-> lo]
<1>2. b \in [1 .. Len(<<v>>) -> Int] /\ b[1] = lo  BY <1>1
<1>3. 1 .. Len(<<v>>) - 1 = {}  BY <1>1
<1> HIDE DEF b
<1> QED  BY <1>1, <1>2, <1>3 DEF Spans

LEMMA SpansPrepend ==
  ASSUME NEW q, IsQuery(q), NEW p \in Seq(Node), p # <<>>, NEW lo \in Int, NEW hi \in Int,
         Spans(q, p, lo, hi), NEW a \in DOMAIN q.cost, a[2] = p[1],
         NEW l \in Int, l + q.cost[a] <= lo
  PROVE  Spans(q, <<a[1]>> \o p, l, hi)
<1> DEFINE r == <<a[1]>> \o p
           n == Len(p)
<1>1. PICK b \in [1 .. n -> Int] :
        /\ lo <= b[1] /\ b[n] <= hi
        /\ \A i \in 1 .. n - 1 :
             <<p[i], p[i + 1]>> \in DOMAIN q.cost /\ b[i] + q.cost[<<p[i], p[i + 1]>>] <= b[i + 1]
  BY DEF Spans
<1>2. a[1] \in Node /\ a = <<a[1], a[2]>> /\ q.cost[a] \in Nat  BY QueryArc
<1>3. /\ Len(r) = n + 1 /\ n \in Nat /\ n > 0 /\ r[1] = a[1]
      /\ \A i \in 2 .. n + 1 : r[i] = p[i - 1]
  BY <1>2, PrependFacts
<1> DEFINE g == [i \in 1 .. Len(r) |-> IF i = 1 THEN l ELSE b[i - 1]]
<1>4. \A i \in 2 .. n + 1 : i - 1 \in 1 .. n  BY <1>3
<1>5. g \in [1 .. Len(r) -> Int] /\ g[1] = l /\ \A i \in 2 .. n + 1 : g[i] = b[i - 1]
  BY <1>3, <1>4
<1> HIDE DEF r, g, n
<1>6. l <= g[1] /\ g[Len(r)] <= hi
  <2>1. n + 1 \in 2 .. n + 1 /\ (n + 1) - 1 = n  BY <1>3
  <2> QED  BY <1>1, <1>3, <1>5, <2>1
<1>7. ASSUME NEW i \in 1 .. Len(r) - 1
      PROVE  <<r[i], r[i + 1]>> \in DOMAIN q.cost
             /\ g[i] + q.cost[<<r[i], r[i + 1]>>] <= g[i + 1]
  <2>1. CASE i = 1
    <3>1. 2 \in 2 .. n + 1 /\ 2 - 1 = 1 /\ i + 1 = 2 /\ 1 \in 1 .. n  BY <1>3, <2>1
    <3>2. r[i] = a[1] /\ r[i + 1] = p[1] /\ g[i] = l /\ g[i + 1] = b[1] /\ b[1] \in Int
      BY <1>1, <1>3, <1>5, <2>1, <3>1
    <3>3. <<r[i], r[i + 1]>> = a  BY <1>2, <3>2
    <3>4. q.cost[a] \in Int /\ lo <= b[1]  BY <1>1, <1>2
    <3>5. l + q.cost[a] <= b[1]  BY <3>2, <3>4
    <3> QED  BY <3>2, <3>3, <3>5
  <2>2. CASE i # 1
    <3>1. i - 1 \in 1 .. n - 1 /\ i \in 2 .. n + 1 /\ i + 1 \in 2 .. n + 1
      BY <1>3, <2>2
    <3>2. (i + 1) - 1 = i /\ (i - 1) + 1 = i  OBVIOUS
    <3>3. r[i] = p[i - 1] /\ r[i + 1] = p[(i - 1) + 1]
      <4>1. \A k \in 2 .. n + 1 : r[k] = p[k - 1]  BY <1>3
      <4>2. r[i] = p[i - 1]  BY <3>1, <4>1
      <4>3. r[i + 1] = p[(i + 1) - 1]  BY <3>1, <4>1
      <4> QED  BY <3>2, <4>2, <4>3
    <3>4. g[i] = b[i - 1] /\ g[i + 1] = b[(i - 1) + 1]
      <4>1. \A k \in 2 .. n + 1 : g[k] = b[k - 1]  BY <1>5
      <4>2. g[i] = b[i - 1]  BY <3>1, <4>1
      <4>3. g[i + 1] = b[(i + 1) - 1]  BY <3>1, <4>1
      <4> QED  BY <3>2, <4>2, <4>3
    <3> QED  BY <1>1, <3>1, <3>3, <3>4
  <2> QED  BY <2>1, <2>2
<1>8. Spans(q, r, l, hi)  BY <1>5, <1>6, <1>7 DEF Spans
<1> QED  BY <1>8 DEF r

LEMMA SpansAppend ==
  ASSUME NEW q, IsQuery(q), NEW p \in Seq(Node), p # <<>>, NEW lo \in Int, NEW hi \in Int,
         Spans(q, p, lo, hi), NEW a \in DOMAIN q.cost, a[1] = p[Len(p)],
         NEW h \in Int, hi + q.cost[a] <= h
  PROVE  Spans(q, Append(p, a[2]), lo, h)
<1> DEFINE r == Append(p, a[2])
           n == Len(p)
<1>1. PICK b \in [1 .. n -> Int] :
        /\ lo <= b[1] /\ b[n] <= hi
        /\ \A i \in 1 .. n - 1 :
             <<p[i], p[i + 1]>> \in DOMAIN q.cost /\ b[i] + q.cost[<<p[i], p[i + 1]>>] <= b[i + 1]
  BY DEF Spans
<1>2. a[2] \in Node /\ a = <<a[1], a[2]>> /\ q.cost[a] \in Nat  BY QueryArc
<1>3. /\ Len(r) = n + 1 /\ n \in Nat /\ n > 0 /\ r[n + 1] = a[2]
      /\ \A i \in 1 .. n : r[i] = p[i]
  BY <1>2, AppendFacts
<1> DEFINE g == [i \in 1 .. Len(r) |-> IF i = n + 1 THEN h ELSE b[i]]
<1>4. \A i \in 1 .. n + 1 : i # n + 1 => i \in 1 .. n  BY <1>3
<1>5. g \in [1 .. Len(r) -> Int] /\ g[n + 1] = h /\ \A i \in 1 .. n : g[i] = b[i]
  BY <1>3, <1>4
<1> HIDE DEF r, g, n
<1>6. lo <= g[1] /\ g[Len(r)] <= h
  <2>1. 1 \in 1 .. n  BY <1>3
  <2> QED  BY <1>1, <1>3, <1>5, <2>1
<1>7. ASSUME NEW i \in 1 .. Len(r) - 1
      PROVE  <<r[i], r[i + 1]>> \in DOMAIN q.cost
             /\ g[i] + q.cost[<<r[i], r[i + 1]>>] <= g[i + 1]
  <2>1. CASE i = n
    <3>1. n \in 1 .. n /\ i + 1 = n + 1  BY <1>3, <2>1
    <3>2. r[i] = p[n] /\ r[i + 1] = a[2] /\ g[i] = b[n] /\ g[i + 1] = h /\ b[n] \in Int
      BY <1>1, <1>3, <1>5, <2>1, <3>1
    <3>3. p[n] = a[1]  BY DEF n
    <3>4. <<r[i], r[i + 1]>> = a  BY <1>2, <3>2, <3>3
    <3>5. b[n] <= hi  BY <1>1
    <3>6. b[n] + q.cost[a] <= h  BY <1>2, <3>2, <3>5
    <3> QED  BY <3>2, <3>4, <3>6
  <2>2. CASE i # n
    <3>1. i \in 1 .. n - 1 /\ i \in 1 .. n /\ i + 1 \in 1 .. n  BY <1>3, <2>2
    <3>2. r[i] = p[i] /\ r[i + 1] = p[i + 1] /\ g[i] = b[i] /\ g[i + 1] = b[i + 1]
      BY <1>3, <1>5, <3>1
    <3> QED  BY <1>1, <3>1, <3>2
  <2> QED  BY <2>1, <2>2
<1>8. Spans(q, r, lo, h)  BY <1>5, <1>6, <1>7 DEF Spans
<1> QED  BY <1>8 DEF r

\* From the source to the target within the distance: a cheapest route.
LEMMA SpansRoute ==
  ASSUME NEW q, IsQuery(q), NEW p \in Seq(Node), p # <<>>, p[1] = q.src, p[Len(p)] = q.dst,
         Oracle!Distance(q) \in Nat, Spans(q, p, 0, Oracle!Distance(q))
  PROVE  Oracle!IsRoute(q, p) /\ Oracle!RouteCost(q, p) = Oracle!Distance(q)
<1> DEFINE n == Len(p)
           D == Oracle!Distance(q)
<1>1. PICK b \in [1 .. n -> Int] :
        /\ 0 <= b[1] /\ b[n] <= D
        /\ \A i \in 1 .. n - 1 :
             <<p[i], p[i + 1]>> \in DOMAIN q.cost /\ b[i] + q.cost[<<p[i], p[i + 1]>>] <= b[i + 1]
  BY DEF Spans
<1>2. n \in Nat /\ n > 0 /\ 1 \in 1 .. n /\ n \in 1 .. n  OBVIOUS
<1>3. Oracle!IsRoute(q, p)  BY <1>1 DEF Oracle!IsRoute
<1> DEFINE g == [i \in 1 .. n |-> b[i] - b[1]]
<1>4. g \in [1 .. n -> Int] /\ g[1] = 0 /\ \A i \in 1 .. n : g[i] = b[i] - b[1]  BY <1>1, <1>2
<1>5. D \in Nat  OBVIOUS
<1> HIDE DEF g, n, D
<1>6. g[n] <= D  BY <1>1, <1>2, <1>4, <1>5
<1>7. ASSUME NEW i \in 1 .. n - 1
      PROVE  g[i] + q.cost[<<p[i], p[i + 1]>>] <= g[i + 1]
  <2>1. <<p[i], p[i + 1]>> \in DOMAIN q.cost /\ b[i] + q.cost[<<p[i], p[i + 1]>>] <= b[i + 1]
    BY <1>1
  <2>2. q.cost[<<p[i], p[i + 1]>>] \in Nat  BY <2>1, QueryArc
  <2>3. i \in 1 .. n /\ i + 1 \in 1 .. n  BY <1>2
  <2>4. b[i] \in Int /\ b[i + 1] \in Int /\ b[1] \in Int  BY <1>1, <1>2, <2>3
  <2> QED  BY <1>4, <2>1, <2>2, <2>3, <2>4
<1> QED  BY <1>3, <1>4, <1>6, <1>7, RouteWithin DEF n, D
=============================================================================
