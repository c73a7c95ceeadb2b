-------------------------- MODULE BaselinesProofs --------------------------
(***************************************************************************)
(* The baselines, for every graph, every width of the word and every call  *)
(* that Run dispatches.                                                    *)
(*                                                                         *)
(* The queues, the incumbents and the stopping tests of the bidirectional  *)
(* searches come first.  No range is assumed for them: a key that had to   *)
(* be clamped is out of order with none.                                   *)
(*                                                                         *)
(* Then the four-ary heap, and that every search is exact, for queries     *)
(* whose labels and keys fit the word (BoundedBy).  When a search stops, a *)
(* set of arrivals that no walk leaves says that no walk is cheaper: of a  *)
(* bidirectional search, the arrivals no earlier than the labels settled   *)
(* forward or than the incumbent less those settled backward; of the       *)
(* searches that reopen nodes, the arrivals no earlier than a label handed *)
(* on or than the first item of the queue less the heuristic.              *)
(***************************************************************************)
EXTENDS Dispatch, WalkProofs

-----------------------------------------------------------------------------
(* The inductive invariant                                                 *)

\* A bidirectional search that has left its entry checks.
Running == pc # "start" /\ alg \in Baseline /\ query.src # query.dst

LabelKey(d, v) == Priority(d, v, dist[d][v])

SearchTypeOK ==
  /\ pc \in {"start", "search", "left", "right", "done"}
  /\ dist \in [Dir -> [Node -> Word]]
  /\ settled \in [Dir -> SUBSET Node]
  /\ queue \in [Dir -> SUBSET (Node \X Nat)]
  /\ best \in Word /\ dir \in Dir
  /\ scan \subseteq {a \in Arcs : From(dir, a) = cur}

Untouched ==
  ~Running =>
    /\ pc \in {"start", "done"}
    /\ \A d \in Dir : settled[d] = {} /\ queue[d] = {} /\ \A v \in Node : dist[d][v] = inf
    /\ best = inf /\ scan = {}

RootsAtZero == Running => \A d \in Dir : dist[d][Root(d)] = 0

\* A queue holds every label that is still to be settled, and no entry of it is
\* below the label of its node.
QueuesCover ==
  \A d \in Dir :
    /\ \A u \in settled[d] : dist[d][u] # inf
    /\ \A e \in queue[d] : dist[d][e[1]] <= e[2] /\ e[2] < inf
    /\ \A v \in Node :
         dist[d][v] # inf /\ v \notin settled[d] => <<v, dist[d][v]>> \in queue[d]

ConnectionsTried ==
  \A v \in Node :
    dist["F"][v] # inf /\ dist["B"][v] # inf => best <= dist["F"][v] + dist["B"][v]

\* The node being scanned has the largest key of those settled in its direction.
ScanLatest ==
  scan # {} =>
    /\ pc = "search" /\ cur \in settled[dir]
    /\ \A u \in settled[dir] : LabelKey(dir, u) <= LabelKey(dir, cur)

\* Where keys are distances, settling is final: every edge of a settled node has
\* been relaxed, or is about to be.
PlainRelaxed ==
  alg \in Plain =>
    \A d \in Dir : \A a \in Arcs :
      From(d, a) \in settled[d] =>
        \/ d = dir /\ a \in scan
        \/ dist[d][To(d, a)] <= dist[d][From(d, a)] + query.cost[a]

\* No search gets as far as the root of the other one.
EndsApart == alg \in Plain => \A d \in Dir : Root(Other(d)) \notin settled[d]

\* A set that no walk leaves has every label and the incumbent for arrivals:
\* labels are the costs of walks.
LabelsWalked(W) ==
  /\ \A v \in Node : dist["F"][v] # inf => <<v, dist["F"][v]>> \in W
  /\ \A v \in Node : \A c \in Nat :
       dist["B"][v] # inf /\ <<v, c>> \in W => <<query.dst, c + dist["B"][v]>> \in W
  /\ best # inf => <<query.dst, best>> \in W

RoutesReal == \A W \in SUBSET Arrival : ClosedUnder(query, W) => LabelsWalked(W)

SearchInv ==
  /\ SearchTypeOK /\ Untouched /\ RootsAtZero /\ QueuesCover /\ QueuesMonotone
  /\ ConnectionsTried /\ ScanLatest /\ PlainRelaxed /\ EndsApart /\ RoutesReal

\* What Run was called with; only the portfolio exchanges the algorithm.
CallOK ==
  /\ query \in Queries /\ call \in Calls(query)
  /\ alg = call.alg \/ (call.alg = "aegis-portfolio" /\ alg \in Single \cup {"bidijkstra"})

DInv ==
  /\ CallOK
  /\ alg \in Single => \A d \in Dir : settled[d] = {}
  /\ alg \notin Single => SearchInv

-----------------------------------------------------------------------------
(* Keys                                                                    *)

\* Clamping keeps the order.
LEMMA SaturatingMonotone ==
  ASSUME NEW a \in Word, NEW b \in Word, NEW x \in Nat, NEW y \in Nat, a + x <= b + y
  PROVE  /\ saturatingAdd(a, x) \in Word
         /\ saturatingAdd(a, x) <= saturatingAdd(b, y)
<1>1. MaxUint64 \in Nat  BY WidthAssumption
<1> QED  BY <1>1 DEF saturatingAdd, Word

LEMMA DoubledInWord ==
  ASSUME NEW a \in Word, NEW x \in Int
  PROVE  /\ doubledPlusSigned(a, x) \in Word
         /\ a <= MaxUint64 \div 2 =>
              doubledPlusSigned(a, x) =
                IF 2 * a + x > MaxUint64 THEN MaxUint64
                ELSE IF 2 * a + x <= 0 THEN 0 ELSE 2 * a + x
<1>1. MaxUint64 \in Nat /\ a \in Nat /\ a <= MaxUint64  BY WidthAssumption DEF Word
<1>2. CASE a > MaxUint64 \div 2  BY <1>1, <1>2 DEF doubledPlusSigned, inf, Word
<1>3. CASE a <= MaxUint64 \div 2
  <2>1. 2 * a <= MaxUint64  BY <1>1, <1>3
  <2>2. CASE x >= 0  BY <1>1, <1>3, <2>1, <2>2 DEF doubledPlusSigned, saturatingAdd, Word
  <2>3. CASE x < 0  BY <1>1, <1>3, <2>1, <2>3 DEF doubledPlusSigned, Word
  <2> QED  BY <2>2, <2>3
<1> QED  BY <1>1, <1>2, <1>3

LEMMA DoubledMonotone ==
  ASSUME NEW a \in Word, NEW b \in Word, NEW x \in Int, NEW y \in Int,
         a <= b, 2 * a + x <= 2 * b + y
  PROVE  doubledPlusSigned(a, x) <= doubledPlusSigned(b, y)
<1>1. MaxUint64 \in Nat /\ a \in Nat /\ b \in Nat  BY WidthAssumption DEF Word
<1>2. doubledPlusSigned(a, x) \in Word /\ doubledPlusSigned(b, y) \in Word  BY DoubledInWord
<1>3. CASE b > MaxUint64 \div 2
  <2>1. doubledPlusSigned(b, y) = MaxUint64  BY <1>1, <1>3 DEF doubledPlusSigned, inf
  <2> QED  BY <1>1, <1>2, <2>1 DEF Word
<1>4. CASE b <= MaxUint64 \div 2
  <2>1. a <= MaxUint64 \div 2  BY <1>1, <1>4
  <2> QED  BY <1>1, <1>4, <2>1, DoubledInWord
<1> QED  BY <1>1, <1>3, <1>4

LEMMA DirFacts ==
  ASSUME NEW d \in Dir
  PROVE  Other(d) \in Dir /\ Other(d) # d /\ Other(Other(d)) = d /\ Dir = {d, Other(d)}
BY DEF Dir, Other

LEMMA QueryFacts ==
  ASSUME query \in Queries
  PROVE  /\ IsQuery(query) /\ Consistent(query) /\ BoundsConsistent(query)
         /\ \A d \in Dir : Root(d) \in Node
         /\ \A d \in Dir : \A v \in Node : Shift(d, v) \in Int /\ RestBound(d, v) \in Nat
<1>1. IsQuery(query) /\ Consistent(query) /\ BoundsConsistent(query)  BY QueryAssumption
<1> QED  BY <1>1 DEF IsQuery, Root, Shift, RestBound

LEMMA ArcFacts ==
  ASSUME query \in Queries, NEW d \in Dir, NEW a \in Arcs
  PROVE  /\ From(d, a) \in Node /\ To(d, a) \in Node
         /\ query.cost[a] \in Nat /\ query.cost[a] > 0
         /\ Shift(d, From(d, a)) <= 2 * query.cost[a] + Shift(d, To(d, a))
         /\ RestBound(d, From(d, a)) <= query.cost[a] + RestBound(d, To(d, a))
<1>1. IsQuery(query) /\ Consistent(query) /\ BoundsConsistent(query)  BY QueryFacts
<1>2. a \in DOMAIN query.cost /\ a[1] \in Node /\ a[2] \in Node /\ query.cost[a] \in Nat
      /\ query.cost[a] > 0
  BY <1>1 DEF IsQuery, Arcs
<1>3. /\ query.phi[a[1]] \in Int /\ query.phi[a[2]] \in Int
      /\ query.phi[query.src] \in Int /\ query.phi[query.dst] \in Int
  BY <1>1, <1>2 DEF IsQuery
<1>4. query.phi[a[1]] <= 2 * query.cost[a] + query.phi[a[2]]  BY <1>1, <1>2 DEF Consistent
<1>5. /\ query.toDst[a[1]] <= query.cost[a] + query.toDst[a[2]]
      /\ query.fromSrc[a[2]] <= query.cost[a] + query.fromSrc[a[1]]
  BY <1>1, <1>2 DEF BoundsConsistent
<1>6. CASE d = "F"  BY <1>2, <1>3, <1>4, <1>5, <1>6 DEF From, To, Shift, RestBound
<1>7. CASE d = "B"  BY <1>2, <1>3, <1>4, <1>5, <1>7 DEF From, To, Shift, RestBound
<1> QED  BY <1>6, <1>7 DEF Dir

LEMMA PriorityOfPlain ==
  ASSUME alg \in Plain, NEW d, NEW v, NEW label
  PROVE  Priority(d, v, label) = label
BY DEF Priority, Plain

\* Every algorithm's keys grow with the label, and along an arc.
LEMMA PriorityMonotone ==
  ASSUME query \in Queries, NEW d \in Dir, NEW v \in Node,
         NEW x \in Word, NEW y \in Word, x <= y
  PROVE  Priority(d, v, x) \in Word /\ Priority(d, v, x) <= Priority(d, v, y)
<1>1. Shift(d, v) \in Int /\ RestBound(d, v) \in Nat  BY QueryFacts
<1>2. x \in Nat /\ y \in Nat  BY DEF Word
<1>3. CASE alg \in Plain  BY <1>3, PriorityOfPlain
<1>4. CASE alg = "catch"
  <2>1. alg \notin Plain  BY <1>4 DEF Plain
  <2> QED  BY <1>1, <1>2, <1>4, <2>1, SaturatingMonotone DEF Priority
<1>5. CASE alg \notin Plain /\ alg # "catch"
  <2>1. /\ Priority(d, v, x) = doubledPlusSigned(x, Shift(d, v))
        /\ Priority(d, v, y) = doubledPlusSigned(y, Shift(d, v))
    BY <1>5 DEF Priority
  <2>2. 2 * x + Shift(d, v) <= 2 * y + Shift(d, v)  BY <1>1, <1>2
  <2> QED  BY <1>1, <2>1, <2>2, DoubledMonotone, DoubledInWord
<1> QED  BY <1>3, <1>4, <1>5

LEMMA PriorityAlongArc ==
  ASSUME query \in Queries, NEW d \in Dir, NEW a \in Arcs, NEW x \in Word,
         x + query.cost[a] \in Word
  PROVE  Priority(d, From(d, a), x) <= Priority(d, To(d, a), x + query.cost[a])
<1> DEFINE u == From(d, a)
           v == To(d, a)
           y == x + query.cost[a]
<1>1. /\ u \in Node /\ v \in Node /\ query.cost[a] \in Nat
      /\ Shift(d, u) <= 2 * query.cost[a] + Shift(d, v)
      /\ RestBound(d, u) <= query.cost[a] + RestBound(d, v)
  BY ArcFacts
<1>2. /\ Shift(d, u) \in Int /\ RestBound(d, u) \in Nat
      /\ Shift(d, v) \in Int /\ RestBound(d, v) \in Nat
  BY <1>1, QueryFacts
<1>3. x \in Nat /\ y \in Nat /\ x <= y  BY <1>1 DEF Word
<1>4. x + RestBound(d, u) <= y + RestBound(d, v)  BY <1>1, <1>2, <1>3
<1>5. 2 * x + Shift(d, u) <= 2 * y + Shift(d, v)  BY <1>1, <1>2, <1>3
<1> HIDE DEF u, v, y
<1>6. y \in Word  BY DEF y
<1>7. Priority(d, u, x) <= Priority(d, v, y)
  <2>1. CASE alg \in Plain  BY <1>3, <2>1, PriorityOfPlain
  <2>2. CASE alg = "catch"
    <3>1. alg \notin Plain  BY <2>2 DEF Plain
    <3> QED  BY <1>2, <1>4, <1>6, <2>2, <3>1, SaturatingMonotone DEF Priority
  <2>3. CASE alg \notin Plain /\ alg # "catch"
    <3>1. /\ Priority(d, u, x) = doubledPlusSigned(x, Shift(d, u))
          /\ Priority(d, v, y) = doubledPlusSigned(y, Shift(d, v))
      BY <2>3 DEF Priority
    <3> QED  BY <1>2, <1>3, <1>5, <1>6, <3>1, DoubledMonotone
  <2> QED  BY <2>1, <2>2, <2>3
<1> QED  BY <1>7 DEF u, v, y

-----------------------------------------------------------------------------
(* Queues and stopping tests                                               *)

LEMMA EntryFacts ==
  ASSUME query \in Queries, SearchTypeOK, QueuesCover, NEW d \in Dir, NEW e \in queue[d]
  PROVE  /\ e = <<e[1], e[2]>> /\ e[1] \in Node /\ e[2] \in Nat
         /\ e[2] \in Word /\ e[2] # inf /\ dist[d][e[1]] <= e[2]
         /\ EntryKey(d, e) \in Word
<1>1. e \in Node \X Nat  BY DEF SearchTypeOK
<1>2. dist[d][e[1]] <= e[2] /\ e[2] < inf  BY DEF QueuesCover
<1>3. MaxUint64 \in Nat  BY WidthAssumption
<1>4. e[2] \in Word /\ e[2] # inf  BY <1>1, <1>2, <1>3 DEF Word, inf
<1>5. EntryKey(d, e) \in Word  BY <1>1, <1>4, PriorityMonotone DEF EntryKey
<1> QED  BY <1>1, <1>2, <1>4, <1>5

LEMMA LabelTypes ==
  ASSUME SearchTypeOK, NEW d \in Dir, NEW v \in Node
  PROVE  dist[d][v] \in Word /\ dist[d][v] \in Nat /\ dist[d][v] <= inf
BY WidthAssumption DEF SearchTypeOK, Word, inf

\* A queue that shows anything shows a least key.
LEMMA LeastEntry ==
  ASSUME query \in Queries, SearchTypeOK, QueuesCover, NEW d \in Dir, Visible(d) # {}
  PROVE  /\ \E e \in Tops(d) : MinKey(d) = EntryKey(d, e)
         /\ \A e \in Tops(d) : MinKey(d) = EntryKey(d, e)
         /\ MinKey(d) \in Nat
         /\ \A e \in Visible(d) : MinKey(d) <= EntryKey(d, e)
<1> DEFINE K == {EntryKey(d, e) : e \in Visible(d)}
<1>1. Visible(d) \subseteq queue[d]  BY DEF Visible
<1>2. \A e \in Visible(d) : EntryKey(d, e) \in Nat  BY <1>1, EntryFacts DEF Word
<1>3. K \subseteq Nat /\ K # {}  BY <1>2
<1>4. PICK n \in K : \A m \in K : n <= m
  <2> HIDE DEF K
  <2> QED  BY <1>3, LeastNumber
<1>5. PICK e \in Visible(d) : n = EntryKey(d, e)  OBVIOUS
<1>6. \A x \in Visible(d) : EntryKey(d, e) <= EntryKey(d, x)  BY <1>4, <1>5
<1>7. e \in Tops(d)  BY <1>6 DEF Tops
<1>8. PICK t \in Tops(d) : t = CHOOSE x \in Tops(d) : TRUE  BY <1>7
<1>9. MinKey(d) = EntryKey(d, t)  BY <1>8 DEF MinKey
<1>10. t \in Visible(d) /\ \A x \in Visible(d) : EntryKey(d, t) <= EntryKey(d, x)
  BY DEF Tops
<1>11. \A x \in Tops(d) : /\ x \in Visible(d)
                          /\ EntryKey(d, x) <= EntryKey(d, t) /\ EntryKey(d, t) <= EntryKey(d, x)
  BY <1>10 DEF Tops
<1>12. \A x \in Tops(d) : EntryKey(d, x) = EntryKey(d, t)  BY <1>2, <1>10, <1>11
<1> QED  BY <1>2, <1>9, <1>10, <1>12

\* While a frontier is above the incumbent, its search has gone all along the
\* incumbent's route, to the root of the other one.
LEMMA FrontierBehind ==
  ASSUME query \in Queries, SearchInv, Running, scan = {}, alg \in Plain, best # inf,
         NEW d \in Dir
  PROVE  \E v \in Node : /\ dist[d][v] # inf /\ v \notin settled[d]
                         /\ dist[d][v] <= best
<1> SUFFICES ASSUME \A v \in Node : dist[d][v] # inf /\ v \notin settled[d] => dist[d][v] > best
             PROVE  FALSE
  <2>1. \A v \in Node : dist[d][v] \in Nat  BY LabelTypes DEF SearchInv
  <2>2. best \in Nat  BY DEF SearchInv, SearchTypeOK, Word
  <2> QED  BY <2>1, <2>2
<1>1. SearchTypeOK /\ QueuesCover /\ PlainRelaxed /\ EndsApart /\ RoutesReal /\ RootsAtZero
  BY DEF SearchInv
<1>2. best \in Nat /\ best < inf  BY <1>1, WidthAssumption DEF SearchTypeOK, Word, inf
<1>3. \A v \in Node : dist[d][v] \in Nat /\ dist[d][v] <= inf  BY <1>1, LabelTypes
<1>4. \A v \in Node : dist[d][v] <= best => v \in settled[d]
  BY <1>2, <1>3 DEF inf
<1>5. \A a \in Arcs : From(d, a) \in settled[d] =>
        dist[d][To(d, a)] <= dist[d][From(d, a)] + query.cost[a]
  BY <1>1 DEF PlainRelaxed
<1>6. /\ Root(d) \in Node /\ Root(Other(d)) \in Node
      /\ dist[d][Root(d)] = 0 /\ Root(Other(d)) \notin settled[d]
  BY <1>1, QueryFacts, DirFacts DEF RootsAtZero, EndsApart
<1>7. Root(d) \in settled[d]  BY <1>2, <1>4, <1>6
<1>8. query.src \in Node /\ query.dst \in Node /\ IsQuery(query)
  BY QueryFacts DEF IsQuery
<1>9. CASE d = "F"
  <2> DEFINE W == {x \in Arrival : x[2] <= best => x[1] \in settled["F"] /\ dist["F"][x[1]] <= x[2]}
  <2>1. <<query.src, 0>> \in W  BY <1>6, <1>7, <1>8, <1>9 DEF Arrival, Root
  <2>2. ASSUME NEW a \in DOMAIN query.cost, NEW c \in Nat, <<a[1], c>> \in W
        PROVE  <<a[2], c + query.cost[a]>> \in W
    <3>1. /\ a \in Arcs /\ a[1] \in Node /\ a[2] \in Node /\ query.cost[a] \in Nat
          /\ From("F", a) = a[1] /\ To("F", a) = a[2]
      BY <1>9, ArcFacts DEF Arcs, From, To
    <3>2. SUFFICES ASSUME c + query.cost[a] <= best
                   PROVE  /\ a[2] \in settled["F"]
                          /\ dist["F"][a[2]] <= c + query.cost[a]
      BY <3>1 DEF Arrival
    <3>3. a[1] \in settled["F"] /\ dist["F"][a[1]] <= c  BY <1>2, <2>2, <3>1, <3>2
    <3>4. dist["F"][a[2]] <= dist["F"][a[1]] + query.cost[a]  BY <1>5, <1>9, <3>1, <3>3
    <3>5. dist["F"][a[2]] <= c + query.cost[a]  BY <1>3, <1>9, <3>1, <3>3, <3>4
    <3> QED  BY <1>2, <1>3, <1>4, <1>9, <3>1, <3>2, <3>5
  <2>3. W \in SUBSET Arrival /\ ClosedUnder(query, W)  BY <2>1, <2>2 DEF ClosedUnder
  <2>4. <<query.dst, best>> \in W
    <3> HIDE DEF W
    <3> QED  BY <1>1, <2>3 DEF RoutesReal, LabelsWalked
  <2>5. query.dst \in settled["F"]  BY <1>2, <2>4
  <2> QED  BY <1>6, <1>9, <2>5 DEF Root, Other
<1>10. CASE d = "B"
  <2> DEFINE W == {x \in Arrival : x[1] \in settled["B"] /\ x[2] + dist["B"][x[1]] <= best
                                      => query.src \in settled["B"]}
  <2>1. <<query.src, 0>> \in W  BY <1>8 DEF Arrival
  <2>2. ASSUME NEW a \in DOMAIN query.cost, NEW c \in Nat, <<a[1], c>> \in W
        PROVE  <<a[2], c + query.cost[a]>> \in W
    <3>1. /\ a \in Arcs /\ a[1] \in Node /\ a[2] \in Node /\ query.cost[a] \in Nat
          /\ From("B", a) = a[2] /\ To("B", a) = a[1]
      BY <1>10, ArcFacts DEF Arcs, From, To
    <3>2. SUFFICES ASSUME a[2] \in settled["B"], (c + query.cost[a]) + dist["B"][a[2]] <= best
                   PROVE  query.src \in settled["B"]
      BY <3>1 DEF Arrival
    <3>3. dist["B"][a[1]] <= dist["B"][a[2]] + query.cost[a]  BY <1>5, <1>10, <3>1, <3>2
    <3>4. dist["B"][a[1]] \in Nat /\ dist["B"][a[2]] \in Nat  BY <1>3, <1>10, <3>1
    <3>5. c + dist["B"][a[1]] <= best /\ dist["B"][a[1]] <= best
      BY <1>2, <3>1, <3>2, <3>3, <3>4
    <3>6. a[1] \in settled["B"]  BY <1>4, <1>10, <3>1, <3>5
    <3> QED  BY <2>2, <3>5, <3>6
  <2>3. W \in SUBSET Arrival /\ ClosedUnder(query, W)  BY <2>1, <2>2 DEF ClosedUnder
  <2>4. <<query.dst, best>> \in W
    <3> HIDE DEF W
    <3> QED  BY <1>1, <2>3 DEF RoutesReal, LabelsWalked
  <2>5. query.dst \in settled["B"] /\ dist["B"][query.dst] = 0
    BY <1>6, <1>7, <1>10 DEF Root
  <2>6. query.src \in settled["B"]  BY <1>2, <2>4, <2>5
  <2> QED  BY <1>6, <1>10, <2>6 DEF Root, Other
<1> QED  BY <1>9, <1>10 DEF Dir

LEMMA FrontiersFit ==
  ASSUME query \in Queries, SearchInv, Running, scan = {}, RunsOn, alg \in Plain, best # inf,
         NEW d \in Dir
  PROVE  MinKey(d) \in Nat /\ MinKey(d) <= best
<1>1. SearchTypeOK /\ QueuesCover  BY DEF SearchInv
<1>2. PICK v \in Node : dist[d][v] # inf /\ v \notin settled[d] /\ dist[d][v] <= best
  BY FrontierBehind
<1>3. <<v, dist[d][v]>> \in queue[d]  BY <1>1, <1>2 DEF QueuesCover
<1>4. Visible(d) = queue[d]  BY DEF Visible, Plain, Reduced
<1>5. EntryKey(d, <<v, dist[d][v]>>) = dist[d][v]  BY PriorityOfPlain DEF EntryKey
<1>6. MinKey(d) \in Nat /\ MinKey(d) <= dist[d][v]
  BY <1>1, <1>3, <1>4, <1>5, LeastEntry
<1>7. dist[d][v] \in Nat /\ best \in Nat  BY <1>1, LabelTypes DEF SearchTypeOK, Word
<1> QED  BY <1>2, <1>6, <1>7

-----------------------------------------------------------------------------
(* The steps of a search                                                   *)

\* What moves neither labels nor queues.
LEMMA SearchKept ==
  ASSUME SearchInv, UNCHANGED <<query, searchVars, alg, queue>>, Running, Running',
         pc' \in {"search", "left", "right", "done"}, pc' # "search" => scan = {}
  PROVE  SearchInv'
<1> USE DEF searchVars
<1>1. \A d \in Dir : \A v, x : Priority(d, v, x)' = Priority(d, v, x)
  BY DEF Priority, RestBound, Shift
<1>2. \A d \in Dir : Visible(d)' = Visible(d)  BY DEF Visible, Stale
<1>3. SearchTypeOK'  BY DEF SearchInv, SearchTypeOK, Arcs, From
<1>4. Untouched' /\ RootsAtZero'  BY DEF SearchInv, Untouched, RootsAtZero, Root
<1>5. QueuesCover' /\ ConnectionsTried'  BY DEF SearchInv, QueuesCover, ConnectionsTried
<1>6. QueuesMonotone'  BY <1>1, <1>2 DEF SearchInv, QueuesMonotone, EntryKey
<1>7. ScanLatest'
  <2>1. dir \in Dir  BY DEF SearchInv, SearchTypeOK
  <2> QED  BY <1>1, <2>1 DEF SearchInv, ScanLatest, LabelKey
<1>8. PlainRelaxed' /\ EndsApart'
  BY DEF SearchInv, PlainRelaxed, EndsApart, Root, Arcs, From, To
<1>9. RoutesReal'  BY DEF SearchInv, RoutesReal, LabelsWalked, ClosedUnder
<1> QED  BY <1>3, <1>4, <1>5, <1>6, <1>7, <1>8, <1>9 DEF SearchInv

\* Nothing has been touched, and nothing is.
LEMMA UntouchedKept ==
  ASSUME SearchInv, ~Running, ~Running', UNCHANGED <<query, searchVars, queue>>,
         pc' \in {"start", "done"}
  PROVE  SearchInv'
<1> USE DEF searchVars
<1>1. /\ scan = {} /\ best = inf
      /\ \A d \in Dir : settled[d] = {} /\ queue[d] = {} /\ \A v \in Node : dist[d][v] = inf
  BY DEF SearchInv, Untouched
<1>2. \A d \in Dir : Visible(d)' = {}  BY <1>1 DEF Visible
<1>3. SearchTypeOK'  BY DEF SearchInv, SearchTypeOK, Arcs, From
<1>4. Untouched' /\ RootsAtZero'  BY <1>1 DEF Untouched, RootsAtZero
<1>5. QueuesCover' /\ ConnectionsTried'
  <2>1. "F" \in Dir  BY DEF Dir
  <2> QED  BY <1>1, <2>1 DEF QueuesCover, ConnectionsTried
<1>6. QueuesMonotone' /\ ScanLatest'  BY <1>1, <1>2 DEF QueuesMonotone, ScanLatest
<1>7. PlainRelaxed' /\ EndsApart'  BY <1>1 DEF PlainRelaxed, EndsApart
<1>8. RoutesReal'
  <2>1. "F" \in Dir /\ "B" \in Dir  BY DEF Dir
  <2> QED  BY <1>1, <2>1 DEF RoutesReal, LabelsWalked
<1> QED  BY <1>3, <1>4, <1>5, <1>6, <1>7, <1>8 DEF SearchInv

LEMMA EnterStep ==
  ASSUME query \in Queries, SearchInv, alg \in Baseline, Enter
  PROVE  SearchInv'
<1>1. /\ pc = "start" /\ pc' = "search" /\ query.src # query.dst
      /\ dist' = [d \in Dir |-> [dist[d] EXCEPT ![Root(d)] = 0]]
      /\ queue' = [d \in Dir |-> {<<Root(d), 0>>}]
      /\ UNCHANGED <<query, settled, best, dir, cur, scan, alg>>
  BY DEF Enter, Begin
<1>2. /\ scan = {} /\ best = inf
      /\ \A d \in Dir : settled[d] = {} /\ queue[d] = {} /\ \A v \in Node : dist[d][v] = inf
  BY <1>1 DEF SearchInv, Untouched, Running
<1>3. /\ \A d \in Dir : Root(d) \in Node /\ Root(d)' = Root(d)
      /\ Root("F") = query.src /\ Root("B") = query.dst /\ "F" \in Dir /\ "B" \in Dir
  BY <1>1, QueryFacts DEF Root, Dir
<1>4. SearchTypeOK  BY DEF SearchInv
<1>5. 0 \in Word /\ inf # 0 /\ 0 < inf  BY WidthAssumption DEF Word, inf
<1>6. \A d \in Dir : dist'[d] \in [Node -> Word] /\ queue'[d] = {<<Root(d), 0>>}
  BY <1>1, <1>3, <1>4, <1>5 DEF SearchTypeOK
<1>7. \A d \in Dir : \A v \in Node : dist'[d][v] = IF v = Root(d) THEN 0 ELSE inf
  BY <1>1, <1>2, <1>3, <1>4 DEF SearchTypeOK
<1>8. Running'  BY <1>1 DEF Running
<1>9. SearchTypeOK'
  <2>1. dist' \in [Dir -> [Node -> Word]]
    <3>1. \A d \in Dir : [dist[d] EXCEPT ![Root(d)] = 0] \in [Node -> Word]
      BY <1>3, <1>4, <1>5 DEF SearchTypeOK
    <3> QED  BY <1>1, <3>1
  <2>2. queue' \in [Dir -> SUBSET (Node \X Nat)]
    <3>1. \A d \in Dir : {<<Root(d), 0>>} \in SUBSET (Node \X Nat)  BY <1>3
    <3> QED  BY <1>1, <3>1
  <2> QED  BY <1>1, <1>2, <1>4, <2>1, <2>2 DEF SearchTypeOK
<1>10. Untouched'  BY <1>8 DEF Untouched
<1>11. RootsAtZero'  BY <1>3, <1>7 DEF RootsAtZero
<1>12. QueuesCover'
  BY <1>1, <1>2, <1>3, <1>5, <1>6, <1>7 DEF QueuesCover
<1>13. QueuesMonotone' /\ ScanLatest' /\ PlainRelaxed' /\ EndsApart'
  <2>1. \A d \in Dir : settled'[d] = {}  BY <1>1, <1>2
  <2> QED  BY <1>1, <1>2, <2>1 DEF QueuesMonotone, ScanLatest, PlainRelaxed, EndsApart
<1>14. ConnectionsTried'  BY <1>1, <1>3, <1>7 DEF ConnectionsTried
<1>15. RoutesReal'
  <2> SUFFICES ASSUME NEW W \in SUBSET Arrival, ClosedUnder(query, W)
               PROVE  LabelsWalked(W)'
    BY <1>1 DEF RoutesReal, ClosedUnder
  <2>1. <<query.src, 0>> \in W  BY DEF ClosedUnder
  <2>2. \A c \in Nat : c + 0 = c  OBVIOUS
  <2> QED  BY <1>1, <1>2, <1>3, <1>7, <2>1, <2>2 DEF LabelsWalked
<1> QED
  BY <1>9, <1>10, <1>11, <1>12, <1>13, <1>14, <1>15 DEF SearchInv

\* A connection of two labels along walks is recorded with the cost of a walk.
LEMMA RecordFacts ==
  ASSUME NEW v, NEW x \in Word, NEW y \in Word, best \in Word, Record(v, x, y)
  PROVE  /\ best' \in Word /\ best' <= best
         /\ x # inf /\ y # inf => best' <= x + y
         /\ best' # best => x # inf /\ y # inf /\ best' = x + y
<1>1. MaxUint64 \in Nat /\ x \in Nat /\ y \in Nat /\ best \in Nat
      /\ x <= MaxUint64 /\ y <= MaxUint64 /\ best <= MaxUint64
  BY WidthAssumption DEF Word
<1>2. CASE x # inf /\ y # inf /\ x + y < best
  BY <1>1, <1>2 DEF Record, Word
<1>3. CASE ~(x # inf /\ y # inf /\ x + y < best)
  <2>1. best' = best  BY <1>3 DEF Record
  <2> QED  BY <1>1, <1>3, <2>1
<1> QED  BY <1>2, <1>3

\* A pop, made while the stopping test has not fired.
LEMMA TakeStep ==
  ASSUME query \in Queries, SearchInv, Running, NEW d \in Dir, Take(d),
         alg \in Plain /\ best # inf => MinKey(d) < best
  PROVE  SearchInv'
<1>1. /\ SearchTypeOK /\ QueuesCover /\ QueuesMonotone /\ ConnectionsTried
      /\ PlainRelaxed /\ EndsApart /\ RoutesReal /\ RootsAtZero
  BY DEF SearchInv
<1>2. PICK e \in Tops(d) :
        /\ queue' = [queue EXCEPT ![d] = @ \ {e}]
        /\ IF Stale(d, e)
           THEN UNCHANGED <<settled, best, meet, dir, cur, scan>>
           ELSE /\ settled' = [settled EXCEPT ![d] = @ \cup {e[1]}]
                /\ dir' = d /\ cur' = e[1]
                /\ IF ~Cut(e[2]) /\ TriedAtPop(d, e[1])
                   THEN Record(e[1], e[2], dist[Other(d)][e[1]])
                   ELSE UNCHANGED <<best, meet>>
                /\ scan' = IF Cut(e[2]) THEN {} ELSE Edges(d, e[1])
  BY DEF Take
<1>3. /\ pc = "search" /\ pc' = "search" /\ scan = {}
      /\ UNCHANGED <<query, dist, alg>>
  BY DEF Take, Searching
<1>4. /\ e \in Visible(d) /\ e \in queue[d] /\ Visible(d) # {}
      /\ \A x \in Visible(d) : EntryKey(d, e) <= EntryKey(d, x)
  BY DEF Tops, Visible
<1>5. /\ e = <<e[1], e[2]>> /\ e[1] \in Node /\ e[2] \in Nat /\ e[2] \in Word /\ e[2] # inf
      /\ EntryKey(d, e) \in Word
  BY <1>1, <1>4, EntryFacts
<1>6. MinKey(d) = EntryKey(d, e)  BY <1>1, <1>4, LeastEntry
<1>7. /\ queue'[d] = queue[d] \ {e}
      /\ \A c \in Dir : c # d => queue'[c] = queue[c]
      /\ \A c \in Dir : queue'[c] \subseteq queue[c]
      /\ queue' \in [Dir -> SUBSET (Node \X Nat)]
  BY <1>1, <1>2 DEF SearchTypeOK
<1>8. \A c \in Dir : \A v, x : Priority(c, v, x)' = Priority(c, v, x)
  BY <1>3 DEF Priority, RestBound, Shift
<1>9. Running' /\ Untouched' /\ RootsAtZero'
  BY <1>1, <1>3 DEF Running, Untouched, RootsAtZero, Root
<1>10. alg \in Plain => ~Cut(e[2])
  <2> SUFFICES ASSUME alg \in Plain, e[2] >= best PROVE FALSE  BY DEF Cut
  <2>1. EntryKey(d, e) = e[2]  BY PriorityOfPlain DEF EntryKey
  <2>2. best \in Nat /\ best <= inf  BY <1>1, WidthAssumption DEF SearchTypeOK, Word, inf
  <2>3. best # inf  BY <1>5, <2>2, WidthAssumption DEF Word, inf
  <2> QED  BY <1>5, <1>6, <2>1, <2>2, <2>3
<1>11. CASE Stale(d, e)
  <2>1. UNCHANGED <<settled, best, dir, cur, scan>>  BY <1>2, <1>11
  <2>2. \A c \in Dir : Visible(c)' \subseteq Visible(c)
    BY <1>3, <1>7, <2>1 DEF Visible, Stale
  <2>3. SearchTypeOK'
    BY <1>1, <1>3, <1>7, <2>1 DEF SearchTypeOK, Arcs, From
  <2>4. QueuesCover'
    <3>1. \A v \in Node : v \notin settled[d] => e # <<v, dist[d][v]>>
      BY <1>5, <1>11 DEF Stale
    <3> QED  BY <1>1, <1>3, <1>7, <2>1, <3>1 DEF QueuesCover
  <2>5. QueuesMonotone'
    BY <1>1, <1>3, <1>8, <2>1, <2>2 DEF QueuesMonotone, EntryKey
  <2>6. ConnectionsTried' /\ ScanLatest'
    BY <1>1, <1>3, <2>1 DEF ConnectionsTried, ScanLatest
  <2>7. PlainRelaxed' /\ EndsApart'
    BY <1>1, <1>3, <2>1 DEF PlainRelaxed, EndsApart, Root, Arcs, From, To
  <2>8. RoutesReal'
    BY <1>1, <1>3, <2>1 DEF RoutesReal, LabelsWalked, ClosedUnder
  <2> QED  BY <1>9, <2>3, <2>4, <2>5, <2>6, <2>7, <2>8 DEF SearchInv
<1>12. CASE ~Stale(d, e)
  <2> DEFINE v == e[1]
             x == e[2]
             y == dist[Other(d)][v]
  <2>1. x = dist[d][v] /\ v \notin settled[d] /\ v \in Node  BY <1>5, <1>12 DEF Stale
  <2>2. /\ settled' = [settled EXCEPT ![d] = @ \cup {v}] /\ dir' = d /\ cur' = v
        /\ scan' \subseteq Edges(d, v)
        /\ alg \in Plain => scan' = Edges(d, v)
        /\ Record(v, x, y) \/ best' = best
    BY <1>2, <1>10, <1>12
  <2>3. /\ settled'[d] = settled[d] \cup {v}
        /\ \A c \in Dir : c # d => settled'[c] = settled[c]
        /\ \A c \in Dir : settled[c] \subseteq settled'[c]
        /\ settled' \in [Dir -> SUBSET Node]
    BY <1>1, <2>1, <2>2 DEF SearchTypeOK
  <2>4. y \in Word /\ x \in Word /\ x # inf /\ best \in Word
    BY <1>1, <1>5, <2>1, LabelTypes, DirFacts DEF SearchTypeOK
  <2>5. /\ best' \in Word /\ best' <= best
        /\ best' # best => y # inf /\ best' = x + y
    <3>1. CASE Record(v, x, y)  BY <2>4, <3>1, RecordFacts
    <3>2. CASE best' = best  BY <2>4, <3>2 DEF Word
    <3> QED  BY <2>2, <3>1, <3>2
  <2> HIDE DEF v, x, y
  <2>6. \A c \in Dir : Visible(c)' \subseteq Visible(c)
    BY <1>3, <1>7, <2>3 DEF Visible, Stale
  <2>7. \A c \in Dir : \A w : LabelKey(c, w)' = LabelKey(c, w)
    BY <1>3, <1>8 DEF LabelKey
  <2>8. LabelKey(d, v) = EntryKey(d, e)  BY <2>1 DEF LabelKey, EntryKey, v, x
  <2>9. \A u \in settled'[d] : LabelKey(d, u) <= LabelKey(d, v)
    <3>1. \A u \in settled[d] : LabelKey(d, u) <= LabelKey(d, v)
      BY <1>1, <1>4, <2>8 DEF QueuesMonotone, LabelKey
    <3>2. LabelKey(d, v) <= LabelKey(d, v)  BY <1>5, <2>8 DEF Word
    <3> QED  BY <2>3, <3>1, <3>2
  <2>10. SearchTypeOK'
    <3>1. scan' \subseteq {a \in Arcs : From(d, a) = v}  BY <2>2 DEF Edges
    <3>2. scan' \subseteq {a \in Arcs' : From(dir', a) = cur'}  BY <1>3, <2>2, <3>1 DEF Arcs
    <3> QED  BY <1>1, <1>3, <1>7, <2>2, <2>3, <2>5, <3>2 DEF SearchTypeOK, From
  <2>11. QueuesCover'
    <3>1. dist[d][v] # inf  BY <2>1, <2>4
    <3>2. \A w \in Node : w # v => e # <<w, dist[d][w]>>  BY <1>5 DEF v
    <3> QED  BY <1>1, <1>3, <1>7, <2>3, <3>1, <3>2 DEF QueuesCover
  <2>12. QueuesMonotone'
    <3> SUFFICES ASSUME NEW c \in Dir, NEW z \in Visible(c)', NEW u \in settled'[c]
                 PROVE  Priority(c, u, dist[c][u]) <= EntryKey(c, z)
      BY <1>3, <1>8 DEF QueuesMonotone, EntryKey
    <3>1. z \in Visible(c)  BY <2>6
    <3>2. CASE u \in settled[c]  BY <1>1, <3>1, <3>2 DEF QueuesMonotone
    <3>3. CASE u \notin settled[c]
      <4>1. c = d /\ u = v  BY <2>3, <3>3
      <4> QED  BY <1>4, <2>8, <3>1, <4>1 DEF LabelKey
    <3> QED  BY <3>2, <3>3
  <2>13. ConnectionsTried'
    <3> SUFFICES ASSUME NEW w \in Node, dist["F"][w] # inf, dist["B"][w] # inf
                 PROVE  best' <= dist["F"][w] + dist["B"][w]
      BY <1>3 DEF ConnectionsTried
    <3>1. best <= dist["F"][w] + dist["B"][w]  BY <1>1 DEF ConnectionsTried
    <3>2. dist["F"][w] \in Nat /\ dist["B"][w] \in Nat  BY <1>1, LabelTypes DEF Dir
    <3> QED  BY <2>4, <2>5, <3>1, <3>2 DEF Word
  <2>14. ScanLatest'
    <3>1. dir' = d /\ cur' = v /\ v \in settled'[d]  BY <2>2, <2>3
    <3>2. \A u \in settled'[d] : LabelKey(d, u)' <= LabelKey(d, v)'  BY <2>7, <2>9
    <3>3. LabelKey(dir, cur)' = LabelKey(d, v)' /\ \A u : LabelKey(dir, u)' = LabelKey(d, u)'
      BY <1>8, <3>1 DEF LabelKey
    <3> QED  BY <1>3, <3>1, <3>2, <3>3 DEF ScanLatest
  <2>15. PlainRelaxed'
    <3> SUFFICES ASSUME alg \in Plain, NEW c \in Dir, NEW a \in Arcs, From(c, a) \in settled'[c],
                        ~(c = d /\ a \in Edges(d, v))
                 PROVE  dist[c][To(c, a)] <= dist[c][From(c, a)] + query.cost[a]
      BY <1>3, <2>2 DEF PlainRelaxed, Arcs, From, To
    <3>1. From(c, a) \in settled[c]  BY <2>3 DEF Edges
    <3> QED  BY <1>1, <1>3, <3>1 DEF PlainRelaxed
  <2>16. EndsApart'
    <3> SUFFICES ASSUME alg \in Plain, v = Root(Other(d)) PROVE FALSE
      BY <1>1, <1>3, <2>3 DEF EndsApart, Root
    <3>1. y = 0
      BY <1>1, DirFacts DEF RootsAtZero, y
    <3>2. dist["F"][v] + dist["B"][v] = x /\ dist["F"][v] # inf /\ dist["B"][v] # inf
      <4>1. dist[d][v] = x /\ dist[Other(d)][v] = 0 /\ x \in Nat /\ inf # 0
        BY <2>1, <2>4, <3>1, WidthAssumption DEF y, Word, inf
      <4> QED  BY <2>4, <4>1 DEF Dir, Other
    <3>3. best <= x  BY <1>1, <2>1, <3>2 DEF ConnectionsTried
    <3>4. best # inf  BY <2>4, <3>3, WidthAssumption DEF Word, inf
    <3>5. MinKey(d) = x  BY <1>6, PriorityOfPlain DEF EntryKey, x
    <3> QED  BY <2>4, <3>3, <3>4, <3>5 DEF Word
  <2>17. RoutesReal'
    <3> SUFFICES ASSUME NEW W \in SUBSET Arrival, ClosedUnder(query, W)
                 PROVE  LabelsWalked(W)'
      BY <1>3 DEF RoutesReal, ClosedUnder
    <3>1. LabelsWalked(W)  BY <1>1 DEF RoutesReal
    <3>2. ASSUME best' # inf PROVE <<query.dst, best'>> \in W
      <4>1. CASE best' = best  BY <3>1, <3>2, <4>1 DEF LabelsWalked
      <4>2. CASE best' # best
        <5>1. y # inf /\ best' = x + y /\ x \in Nat /\ y \in Nat
          BY <2>4, <2>5, <4>2 DEF Word
        <5>2. CASE d = "F"
          BY <2>1, <2>4, <3>1, <5>1, <5>2 DEF LabelsWalked, Other, y
        <5>3. CASE d = "B"
          <6>1. <<query.dst, y + x>> \in W
            BY <2>1, <2>4, <3>1, <5>1, <5>3 DEF LabelsWalked, Other, y
          <6>2. y + x = best'  BY <5>1
          <6> QED  BY <6>1, <6>2
        <5> QED  BY <5>2, <5>3 DEF Dir
      <4> QED  BY <4>1, <4>2
    <3> QED  BY <1>3, <3>1, <3>2 DEF LabelsWalked
  <2> QED
    BY <1>9, <2>10, <2>11, <2>12, <2>13, <2>14, <2>15, <2>16, <2>17 DEF SearchInv
<1> QED  BY <1>11, <1>12

\* One edge of the node popped last.
LEMMA RelaxEdgeStep ==
  ASSUME query \in Queries, SearchInv, RelaxEdge
  PROVE  SearchInv'
<1>1. /\ SearchTypeOK /\ QueuesCover /\ QueuesMonotone /\ ConnectionsTried
      /\ PlainRelaxed /\ EndsApart /\ RoutesReal /\ RootsAtZero /\ ScanLatest
  BY DEF SearchInv
<1> DEFINE d == dir
           x(a) == dist[dir][cur] + query.cost[a]
           fits(a) == dist[dir][cur] <= inf - query.cost[a]
           write(a) == fits(a) /\ x(a) < dist[dir][To(dir, a)]
<1>2. PICK a \in scan :
        /\ scan' = scan \ {a}
        /\ dist' = IF write(a) THEN [dist EXCEPT ![dir][To(dir, a)] = x(a)] ELSE dist
        /\ queue' = IF write(a) THEN [queue EXCEPT ![dir] = @ \cup {<<To(dir, a), x(a)>>}]
                                ELSE queue
        /\ IF fits(a) THEN Record(To(dir, a), x(a), dist[Other(dir)][To(dir, a)])
                      ELSE UNCHANGED <<best, meet>>
  BY DEF RelaxEdge
<1> DEFINE v == To(dir, a)
           label == x(a)
           y == dist[Other(dir)][v]
<1>3. /\ pc = "search" /\ pc' = "search"
      /\ UNCHANGED <<query, settled, dir, cur, alg>>
  BY DEF RelaxEdge
<1>4. /\ d \in Dir /\ Other(d) \in Dir /\ Other(d) # d /\ Dir = {d, Other(d)}
      /\ a \in Arcs /\ From(d, a) = cur
      /\ cur \in settled[d] /\ cur \in Node /\ v \in Node
      /\ query.cost[a] \in Nat /\ query.cost[a] > 0
  BY <1>1, ArcFacts, DirFacts DEF SearchTypeOK, ScanLatest
<1>5. /\ \A c \in Dir : \A w \in Node :
           dist[c][w] \in Word /\ dist[c][w] \in Nat /\ dist[c][w] <= inf
      /\ inf \in Nat /\ best \in Word /\ best \in Nat
  BY <1>1, LabelTypes, WidthAssumption DEF SearchTypeOK, Word, inf
<1>6. label \in Nat /\ y \in Word /\ y \in Nat  BY <1>4, <1>5
<1>7. fits(a) <=> label \in Word  BY <1>4, <1>5, <1>6 DEF Word, inf
<1>8. write(a) <=> label < dist[d][v]
  BY <1>4, <1>5, <1>6, <1>7 DEF Word, inf
<1>9. /\ best' \in Word /\ best' <= best
      /\ label \in Word /\ label # inf /\ y # inf => best' <= label + y
      /\ best' # best => label \in Word /\ label # inf /\ y # inf /\ best' = label + y
  <2>1. CASE fits(a)
    <3>1. label \in Word /\ Record(v, label, y)  BY <1>2, <1>7, <2>1
    <3> HIDE DEF v, label, y
    <3> QED  BY <1>5, <1>6, <3>1, RecordFacts
  <2>2. CASE ~fits(a)
    <3>1. best' = best  BY <1>2, <2>2
    <3> QED  BY <1>5, <1>7, <2>2, <3>1
  <2> QED  BY <2>1, <2>2
<1>10. /\ dist' \in [Dir -> [Node -> Word]]
       /\ \A c \in Dir : \A w \in Node :
            dist'[c][w] = IF c = d /\ w = v /\ label < dist[d][v] THEN label ELSE dist[c][w]
  <2>1. CASE write(a)
    <3>1. dist' = [dist EXCEPT ![d][v] = label] /\ label \in Word /\ label < dist[d][v]
      BY <1>2, <1>7, <1>8, <2>1
    <3> HIDE DEF v, label, d
    <3> QED  BY <1>1, <1>4, <3>1 DEF SearchTypeOK
  <2>2. CASE ~write(a)  BY <1>1, <1>2, <1>8, <2>2 DEF SearchTypeOK
  <2> QED  BY <2>1, <2>2
<1>11. /\ queue' \in [Dir -> SUBSET (Node \X Nat)]
       /\ \A c \in Dir : queue'[c] = IF c = d /\ label < dist[d][v]
                                     THEN queue[c] \cup {<<v, label>>} ELSE queue[c]
  <2>1. CASE write(a)
    <3>1. queue' = [queue EXCEPT ![d] = @ \cup {<<v, label>>}] /\ label < dist[d][v]
      BY <1>2, <1>8, <2>1
    <3> HIDE DEF v, label, d
    <3> QED  BY <1>1, <1>4, <1>6, <3>1 DEF SearchTypeOK
  <2>2. CASE ~write(a)  BY <1>1, <1>2, <1>8, <2>2 DEF SearchTypeOK
  <2> QED  BY <2>1, <2>2
<1>12. scan' = scan \ {a}  BY <1>2
<1>13. Running
  BY <1>3, <1>12 DEF SearchInv, Untouched
<1>14. Running' /\ Untouched'  BY <1>3, <1>13 DEF Running, Untouched
<1>15. /\ label \in Word => Priority(d, cur, dist[d][cur]) <= Priority(d, v, label)
       /\ v = cur => ~(label < dist[d][v])
  BY <1>4, <1>5, PriorityAlongArc
<1>16. \A c \in Dir : \A w, z : Priority(c, w, z)' = Priority(c, w, z)
  BY <1>3 DEF Priority, RestBound, Shift
<1>17. label < dist[d][v] => label \in Word /\ label # inf
  BY <1>4, <1>5, <1>6 DEF Word, inf
<1> HIDE DEF d, v, label, y, x, fits, write
<1>18. /\ d = dir /\ d' = d /\ v = To(d, a)
       /\ label = dist[d][cur] + query.cost[a] /\ y = dist[Other(d)][v]
  BY <1>3 DEF d, v, label, y, x
<1>19. \A c \in Dir : \A w \in Node :
         /\ dist'[c][w] \in Word /\ dist'[c][w] \in Nat /\ dist'[c][w] <= dist[c][w]
         /\ LabelKey(c, w)' \in Nat /\ LabelKey(c, w) \in Nat
         /\ LabelKey(c, w)' <= LabelKey(c, w)
  <2> SUFFICES ASSUME NEW c \in Dir, NEW w \in Node
               PROVE  /\ dist'[c][w] \in Word /\ dist'[c][w] \in Nat /\ dist'[c][w] <= dist[c][w]
                      /\ LabelKey(c, w)' \in Nat /\ LabelKey(c, w) \in Nat
                      /\ LabelKey(c, w)' <= LabelKey(c, w)
    OBVIOUS
  <2>1. dist'[c][w] \in Word /\ dist'[c][w] \in Nat /\ dist'[c][w] <= dist[c][w]
    BY <1>5, <1>6, <1>10, <1>17
  <2>2. LabelKey(c, w)' = Priority(c, w, dist'[c][w])  BY <1>16 DEF LabelKey
  <2>3. /\ Priority(c, w, dist'[c][w]) \in Word /\ Priority(c, w, dist[c][w]) \in Word
        /\ Priority(c, w, dist'[c][w]) <= Priority(c, w, dist[c][w])
    BY <1>5, <2>1, PriorityMonotone
  <2> QED  BY <2>1, <2>2, <2>3 DEF LabelKey, Word
<1>20. SearchTypeOK'
  <2>1. scan' \subseteq {b \in Arcs' : From(dir', b) = cur'}
    BY <1>1, <1>3, <1>12 DEF SearchTypeOK, Arcs, From
  <2> QED  BY <1>1, <1>3, <1>9, <1>10, <1>11, <2>1 DEF SearchTypeOK, From
<1>21. RootsAtZero'
  <2>1. \A c \in Dir : Root(c) \in Node /\ dist[c][Root(c)] = 0
    BY <1>1, <1>13, QueryFacts DEF RootsAtZero
  <2>2. \A c \in Dir : dist'[c][Root(c)] = 0  BY <1>19, <2>1
  <2> QED  BY <1>3, <2>2 DEF RootsAtZero, Root
<1>22. QueuesCover'
  <2> SUFFICES ASSUME NEW c \in Dir
               PROVE  /\ \A u \in settled[c] : dist'[c][u] # inf
                      /\ \A e \in queue'[c] : dist'[c][e[1]] <= e[2] /\ e[2] < inf
                      /\ \A w \in Node : dist'[c][w] # inf /\ w \notin settled[c]
                                           => <<w, dist'[c][w]>> \in queue'[c]
    BY <1>3 DEF QueuesCover
  <2>1. \A u \in settled[c] : u \in Node /\ dist[c][u] # inf
    BY <1>1 DEF QueuesCover, SearchTypeOK
  <2>2. \A u \in settled[c] : dist'[c][u] # inf  BY <1>5, <1>19, <2>1
  <2>3. ASSUME NEW e \in queue'[c] PROVE dist'[c][e[1]] <= e[2] /\ e[2] < inf
    <3>1. CASE e \in queue[c]
      <4>1. e[1] \in Node /\ e[2] \in Nat /\ dist[c][e[1]] <= e[2] /\ e[2] < inf
        BY <1>1, <3>1 DEF QueuesCover, SearchTypeOK
      <4> QED  BY <1>5, <1>19, <4>1
    <3>2. CASE e \notin queue[c]
      <4>1. c = d /\ label < dist[d][v] /\ e = <<v, label>>  BY <1>11, <3>2
      <4>2. dist'[c][v] = label /\ label < inf
        BY <1>4, <1>5, <1>6, <1>10, <4>1
      <4> QED  BY <1>6, <4>1, <4>2
    <3> QED  BY <3>1, <3>2
  <2>4. ASSUME NEW w \in Node, dist'[c][w] # inf, w \notin settled[c]
        PROVE  <<w, dist'[c][w]>> \in queue'[c]
    <3>1. CASE c = d /\ w = v /\ label < dist[d][v]  BY <1>10, <1>11, <3>1
    <3>2. CASE ~(c = d /\ w = v /\ label < dist[d][v])
      <4>1. dist'[c][w] = dist[c][w]  BY <1>10, <3>2
      <4>2. <<w, dist[c][w]>> \in queue[c]  BY <1>1, <2>4, <4>1 DEF QueuesCover
      <4> QED  BY <1>11, <4>1, <4>2
    <3> QED  BY <3>1, <3>2
  <2> QED  BY <2>2, <2>3, <2>4
<1>23. QueuesMonotone'
  <2> SUFFICES ASSUME NEW c \in Dir, NEW e \in Visible(c)', NEW u \in settled[c]
               PROVE  LabelKey(c, u)' <= EntryKey(c, e)
    BY <1>3, <1>16 DEF QueuesMonotone, EntryKey, LabelKey
  <2>1. u \in Node /\ e \in queue'[c]  BY <1>1 DEF SearchTypeOK, Visible
  <2>2. LabelKey(c, u)' <= LabelKey(c, u) /\ LabelKey(c, u) \in Nat /\ LabelKey(c, u)' \in Nat
    BY <1>19, <2>1
  <2>3. CASE c = d /\ label < dist[d][v] /\ e = <<v, label>>
    <3>1. LabelKey(d, u) <= LabelKey(d, cur)
      BY <1>1, <1>12, <1>18, <2>3, <1>2 DEF ScanLatest
    <3>2. LabelKey(d, cur) <= EntryKey(d, e)  BY <1>15, <1>17, <2>3 DEF LabelKey, EntryKey
    <3>3. LabelKey(d, cur) \in Nat  BY <1>4, <1>19
    <3>4. EntryKey(d, e) \in Nat
      BY <1>4, <1>17, <2>3, PriorityMonotone DEF EntryKey, Word
    <3> QED  BY <2>2, <2>3, <3>1, <3>2, <3>3, <3>4
  <2>4. CASE ~(c = d /\ label < dist[d][v] /\ e = <<v, label>>)
    <3>1. e \in queue[c]  BY <1>11, <2>1, <2>4
    <3>2. e \in Visible(c)
      <4>1. CASE alg \notin Reduced  BY <3>1, <4>1 DEF Visible
      <4>2. CASE alg \in Reduced
        <5>1. e[2] = dist'[c][e[1]] /\ e[1] \notin settled[c]
          BY <1>3, <4>2 DEF Visible, Stale
        <5>2. e = <<e[1], e[2]>> /\ e[1] \in Node  BY <1>1, <3>1 DEF SearchTypeOK
        <5>3. dist'[c][e[1]] = dist[c][e[1]]  BY <1>10, <2>4, <5>1, <5>2
        <5> QED  BY <3>1, <5>1, <5>3 DEF Visible, Stale
      <4> QED  BY <4>1, <4>2
    <3>3. LabelKey(c, u) <= EntryKey(c, e)  BY <1>1, <3>2 DEF QueuesMonotone, LabelKey
    <3>4. EntryKey(c, e) \in Nat  BY <1>1, <3>1, EntryFacts DEF Word
    <3> QED  BY <2>2, <3>3, <3>4
  <2> QED  BY <2>3, <2>4
<1>24. ConnectionsTried'
  <2> SUFFICES ASSUME NEW w \in Node, dist'["F"][w] # inf, dist'["B"][w] # inf
               PROVE  best' <= dist'["F"][w] + dist'["B"][w]
    BY DEF ConnectionsTried
  <2>1. "F" \in Dir /\ "B" \in Dir /\ best' \in Nat  BY <1>9 DEF Dir, Word
  <2>2. CASE w = v /\ label < dist[d][v]
    <3>1. dist'[d][w] = label /\ dist'[Other(d)][w] = y  BY <1>4, <1>10, <1>18, <2>2
    <3>2. y # inf
      BY <1>4, <2>1, <3>1 DEF Dir
    <3>3. best' <= label + y  BY <1>9, <1>17, <2>2, <3>2
    <3>4. dist'["F"][w] + dist'["B"][w] = label + y
      BY <1>4, <1>6, <3>1 DEF Dir, Other
    <3> QED  BY <3>3, <3>4
  <2>3. CASE ~(w = v /\ label < dist[d][v])
    <3>1. \A c \in Dir : dist'[c][w] = dist[c][w]  BY <1>10, <2>3
    <3>2. best <= dist["F"][w] + dist["B"][w]  BY <1>1, <2>1, <3>1 DEF ConnectionsTried
    <3> QED  BY <1>5, <1>9, <2>1, <3>1, <3>2
  <2> QED  BY <2>2, <2>3
<1>25. ScanLatest'
  <2> SUFFICES ASSUME NEW u \in settled[d] PROVE LabelKey(d, u)' <= LabelKey(d, cur)'
    <3>1. LabelKey(dir, cur)' = LabelKey(d, cur)' /\ \A u : LabelKey(dir, u)' = LabelKey(d, u)'
      BY <1>3, <1>18 DEF LabelKey
    <3> QED  BY <1>3, <1>4, <1>18, <3>1 DEF ScanLatest
  <2>1. dist'[d][cur] = dist[d][cur]  BY <1>4, <1>10, <1>15
  <2>2. LabelKey(d, cur)' = LabelKey(d, cur)  BY <1>3, <1>4, <1>16, <1>18, <2>1 DEF LabelKey
  <2>3. LabelKey(d, u) <= LabelKey(d, cur)  BY <1>1, <1>2, <1>18 DEF ScanLatest
  <2>4. u \in Node  BY <1>1, <1>4 DEF SearchTypeOK
  <2> QED  BY <1>4, <1>18, <1>19, <2>2, <2>3, <2>4
<1>26. PlainRelaxed' /\ EndsApart'
  <2> SUFFICES ASSUME alg \in Plain PROVE PlainRelaxed' /\ EndsApart'
    BY <1>3 DEF PlainRelaxed, EndsApart
  <2>1. \A c \in Dir : \A w \in settled[c] : dist'[c][w] = dist[c][w]
    <3> SUFFICES ASSUME v \in settled[d], label < dist[d][v] PROVE FALSE
      BY <1>1, <1>10 DEF SearchTypeOK
    <3>1. LabelKey(d, v) <= LabelKey(d, cur)  BY <1>1, <1>2, <1>18 DEF ScanLatest
    <3>2. dist[d][v] <= dist[d][cur]  BY <3>1, PriorityOfPlain DEF LabelKey
    <3> QED  BY <1>4, <1>5, <1>18, <3>2
  <2>2. ASSUME NEW c \in Dir, NEW b \in Arcs, From(c, b) \in settled[c],
               ~(c = d /\ b \in scan \ {a})
        PROVE  dist'[c][To(c, b)] <= dist'[c][From(c, b)] + query.cost[b]
    <3>1. From(c, b) \in Node /\ To(c, b) \in Node /\ query.cost[b] \in Nat  BY ArcFacts
    <3>2. dist'[c][From(c, b)] = dist[c][From(c, b)]  BY <2>1, <2>2
    <3>3. CASE c = d /\ b = a
      <4>1. dist'[d][v] <= label  BY <1>4, <1>5, <1>6, <1>10, <1>17
      <4> QED  BY <1>4, <1>18, <3>2, <3>3, <4>1
    <3>4. CASE ~(c = d /\ b = a)
      <4>1. dist[c][To(c, b)] <= dist[c][From(c, b)] + query.cost[b]
        BY <1>1, <1>18, <2>2, <3>4 DEF PlainRelaxed
      <4> QED  BY <1>5, <1>19, <3>1, <3>2, <4>1
    <3> QED  BY <3>3, <3>4
  <2>3. PlainRelaxed'
    BY <1>3, <1>12, <1>18, <2>2 DEF PlainRelaxed, Arcs, From, To
  <2>4. EndsApart'  BY <1>1, <1>3 DEF EndsApart, Root
  <2> QED  BY <2>3, <2>4
<1>27. RoutesReal'
  <2> SUFFICES ASSUME NEW W \in SUBSET Arrival, ClosedUnder(query, W)
               PROVE  LabelsWalked(W)'
    BY <1>3 DEF RoutesReal, ClosedUnder
  <2>1. LabelsWalked(W)  BY <1>1 DEF RoutesReal
  <2>2. \A c \in Nat : <<a[1], c>> \in W => <<a[2], c + query.cost[a]>> \in W
    BY <1>4 DEF ClosedUnder, Arcs
  <2>3. dist[d][cur] # inf /\ dist[d][cur] \in Nat  BY <1>1, <1>4, <1>5 DEF QueuesCover
  <2>4. CASE d = "F"
    <3>1. a[1] = cur /\ a[2] = v /\ Other(d) = "B"
      BY <1>4, <1>18, <2>4 DEF From, To, Other
    <3>2. <<v, label>> \in W  BY <1>4, <1>18, <2>1, <2>2, <2>3, <2>4, <3>1 DEF LabelsWalked
    <3>3. \A w \in Node : dist'["F"][w] # inf => <<w, dist'["F"][w]>> \in W
      BY <1>10, <2>1, <2>4, <3>2 DEF LabelsWalked, Dir
    <3>4. \A w \in Node : dist'["B"][w] = dist["B"][w]  BY <1>10, <2>4 DEF Dir
    <3>5. y # inf => <<query.dst, label + y>> \in W
      BY <1>4, <1>6, <1>18, <2>1, <3>1, <3>2 DEF LabelsWalked
    <3>6. best' # inf => <<query.dst, best'>> \in W  BY <1>9, <2>1, <3>5 DEF LabelsWalked
    <3> QED  BY <1>3, <2>1, <3>3, <3>4, <3>6 DEF LabelsWalked
  <2>5. CASE d = "B"
    <3>1. a[1] = v /\ a[2] = cur /\ Other(d) = "F"
      BY <1>4, <1>18, <2>5 DEF From, To, Other
    <3>2. ASSUME NEW c \in Nat, <<v, c>> \in W PROVE <<query.dst, c + label>> \in W
      <4>1. <<cur, c + query.cost[a]>> \in W /\ c + query.cost[a] \in Nat
        BY <1>4, <2>2, <3>1, <3>2
      <4>2. <<query.dst, (c + query.cost[a]) + dist["B"][cur]>> \in W
        BY <1>4, <2>1, <2>3, <2>5, <4>1 DEF LabelsWalked
      <4>3. (c + query.cost[a]) + dist["B"][cur] = c + label
        BY <1>4, <1>18, <2>3, <2>5
      <4> QED  BY <4>2, <4>3
    <3>3. \A w \in Node : \A c \in Nat :
            dist'["B"][w] # inf /\ <<w, c>> \in W => <<query.dst, c + dist'["B"][w]>> \in W
      BY <1>10, <2>1, <2>5, <3>2 DEF LabelsWalked, Dir
    <3>4. \A w \in Node : dist'["F"][w] = dist["F"][w]  BY <1>10, <2>5 DEF Dir
    <3>5. y # inf => <<query.dst, label + y>> \in W
      <4> SUFFICES ASSUME y # inf PROVE <<query.dst, label + y>> \in W  OBVIOUS
      <4>1. <<v, y>> \in W  BY <1>4, <1>18, <2>1, <3>1 DEF LabelsWalked
      <4>2. y + label = label + y  BY <1>6
      <4> QED  BY <1>6, <3>2, <4>1, <4>2
    <3>6. best' # inf => <<query.dst, best'>> \in W  BY <1>9, <2>1, <3>5 DEF LabelsWalked
    <3> QED  BY <1>3, <2>1, <3>3, <3>4, <3>6 DEF LabelsWalked
  <2> QED  BY <1>4, <2>4, <2>5 DEF Dir
<1> QED
  BY <1>14, <1>20, <1>21, <1>22, <1>23, <1>24, <1>25, <1>26, <1>27 DEF SearchInv

-----------------------------------------------------------------------------
(* The steps of Run                                                        *)

LEMMA WrappedFits ==
  ASSUME NEW x \in Nat, x <= MaxUint64
  PROVE  Wrapped(x) = x
BY WidthAssumption DEF Wrapped

\* While the stopping test of a search on plain distances fails, the frontiers
\* together are below the incumbent.
FrontiersBelow == alg \in Plain /\ best # inf => kF + kB < best

\* One step of a search.  It pops only while its stopping test fails.
Moves ==
  \/ Trivial \/ Enter \/ RelaxEdge \/ Walk
  \/ \E bound : Halt(bound)
  \/ RunsOn /\ FrontiersBelow /\ \E d \in Dir : Take(d)

LEMMA MovesStep ==
  ASSUME query \in Queries, SearchInv, alg \in Baseline, Moves
  PROVE  SearchInv'
<1>1. SearchTypeOK /\ QueuesCover /\ Untouched /\ ScanLatest  BY DEF SearchInv
<1>2. pc \notin {"start", "done"} => Running  BY <1>1 DEF Untouched
<1>3. CASE Trivial
  <2>1. /\ pc = "start" /\ pc' = "done" /\ query.src = query.dst
        /\ UNCHANGED <<query, searchVars, alg, queue>>
    BY <1>3 DEF Trivial, AnswerTrivial
  <2> QED  BY <2>1, UntouchedKept DEF Running
<1>4. CASE Enter  BY <1>4, EnterStep
<1>5. CASE RelaxEdge  BY <1>5, RelaxEdgeStep
<1>6. CASE Walk
  <2>1. /\ pc \in {"left", "right"} /\ pc' \in {"left", "right", "done"}
        /\ UNCHANGED <<query, searchVars, alg, queue>>
    BY <1>6 DEF Walk, WalkLeft, WalkRight, GiveUp
  <2>2. Running /\ Running' /\ scan = {}  BY <1>1, <1>2, <2>1 DEF Running, ScanLatest
  <2> QED  BY <2>1, <2>2, SearchKept
<1>7. ASSUME NEW bound, Halt(bound) PROVE SearchInv'
  <2>1. /\ pc = "search" /\ scan = {} /\ pc' \in {"left", "done"}
        /\ UNCHANGED <<query, searchVars, alg, queue>>
    BY <1>7 DEF Halt, Conclude, Searching
  <2>2. Running /\ Running'  BY <1>2, <2>1 DEF Running
  <2> QED  BY <2>1, <2>2, SearchKept
<1>8. ASSUME RunsOn, FrontiersBelow, NEW d \in Dir, Take(d) PROVE SearchInv'
  <2>1. pc = "search" /\ scan = {}  BY <1>8 DEF Take, Searching
  <2>2. Running  BY <1>2, <2>1
  <2>3. ASSUME alg \in Plain, best # inf PROVE MinKey(d) < best
    <3>1. \A c \in Dir : MinKey(c) \in Nat
      BY <1>8, <2>1, <2>2, <2>3, FrontiersFit
    <3>2. MinKey("F") + MinKey("B") < best  BY <1>8, <2>3 DEF FrontiersBelow, kF, kB
    <3>3. best \in Nat  BY <1>1 DEF SearchTypeOK, Word
    <3> QED  BY <3>1, <3>2, <3>3 DEF Dir
  <2> QED  BY <1>8, <2>2, <2>3, TakeStep
<1> QED  BY <1>3, <1>4, <1>5, <1>6, <1>7, <1>8 DEF Moves

\* The stopping tests of the three searches on plain distances come to the same.
LEMMA PlainTests ==
  ASSUME query \in Queries, SearchInv, Running, scan = {}, RunsOn, alg \in Plain, best # inf
  PROVE  /\ kF + kB < best <=> ~(kF >= Wrapped(best - kB))
         /\ kF + kB < best <=> ~(kF <= best /\ kB <= best /\ kF >= best - kB)
<1>1. "F" \in Dir /\ "B" \in Dir  BY DEF Dir
<1>2. kF \in Nat /\ kF <= best /\ kB \in Nat /\ kB <= best
  BY <1>1, FrontiersFit DEF kF, kB
<1>3. best \in Nat /\ MaxUint64 \in Nat /\ best <= MaxUint64
  BY WidthAssumption DEF SearchInv, SearchTypeOK, Word
<1>4. best - kB \in Nat /\ best - kB <= MaxUint64  BY <1>2, <1>3
<1>5. Wrapped(best - kB) = best - kB  BY <1>4, WrappedFits
<1> QED  BY <1>2, <1>3, <1>5

LEMMA StepMoves ==
  ASSUME query \in Queries, SearchInv, Step
  PROVE  alg \in Baseline /\ Moves
<1>1. ASSUME Searching, alg \in Baseline PROVE Running /\ scan = {}
  BY <1>1 DEF SearchInv, Untouched, Searching
<1>2. \A d : Take(d) => Searching  BY DEF Take
<1>3. CASE bidirectionalDijkstra
  <2>1. alg \in Plain /\ alg \in Baseline  BY <1>3 DEF bidirectionalDijkstra, Plain, Baseline
  <2>2. Search(kF <= kB, kF <= best /\ kB <= best /\ kF >= best - kB, 0)
    BY <1>3 DEF bidirectionalDijkstra
  <2>3. ASSUME RunsOn, ~(best # inf /\ kF <= best /\ kB <= best /\ kF >= best - kB),
               NEW d \in Dir, Take(d)
        PROVE  FrontiersBelow
    BY <1>1, <1>2, <2>1, <2>3, PlainTests DEF FrontiersBelow
  <2> QED  BY <2>1, <2>2, <2>3 DEF Search, Moves, Dir
<1>4. CASE meetSearch
  <2>1. alg \in Plain /\ alg \in Baseline  BY <1>4 DEF meetSearch, Plain, Baseline
  <2>2. Search(kF < kB \/ (kF = kB /\ turn = "F"), kF >= Wrapped(best - kB), 0)
    BY <1>4 DEF meetSearch
  <2>3. ASSUME RunsOn, ~(best # inf /\ kF >= Wrapped(best - kB)), NEW d \in Dir, Take(d)
        PROVE  FrontiersBelow
    BY <1>1, <1>2, <2>1, <2>3, PlainTests DEF FrontiersBelow
  <2> QED  BY <2>1, <2>2, <2>3 DEF Search, Moves, Dir
<1>5. CASE pbSearch
  <2>1. alg \in Plain /\ alg \in Baseline  BY <1>5 DEF pbSearch, Plain, Baseline
  <2>2. Search(turn = "F", kF >= Wrapped(best - kB), 0)  BY <1>5 DEF pbSearch
  <2>3. ASSUME RunsOn, ~(best # inf /\ kF >= Wrapped(best - kB)), NEW d \in Dir, Take(d)
        PROVE  FrontiersBelow
    BY <1>1, <1>2, <2>1, <2>3, PlainTests DEF FrontiersBelow
  <2> QED  BY <2>1, <2>2, <2>3 DEF Search, Moves, Dir
<1>6. CASE catchRun
  <2>1. alg \notin Plain /\ alg \in Baseline  BY <1>6 DEF catchRun, Plain, Baseline
  <2>2. FrontiersBelow  BY <2>1 DEF FrontiersBelow
  <2> QED  BY <1>6, <2>1, <2>2 DEF catchRun, Search, Moves, Dir
<1>7. CASE multiBoundRun
  <2>1. alg \notin Plain /\ alg \in Baseline  BY <1>7 DEF multiBoundRun, Plain, Reduced, Baseline
  <2>2. FrontiersBelow  BY <2>1 DEF FrontiersBelow
  <2> QED  BY <1>7, <2>1, <2>2 DEF multiBoundRun, Search, Moves, Dir
<1> QED  BY <1>3, <1>4, <1>5, <1>6, <1>7 DEF Step

\* Dijkstra's algorithm and A* leave the bidirectional search alone.
LEMMA SingleStep ==
  ASSUME dijkstra \/ Abandon1
  PROVE  alg \in Single /\ UNCHANGED <<query, alg, settled>>
<1> USE DEF searchVars
<1>1. CASE Open1  BY <1>1 DEF Open1
<1>2. CASE Pop1  BY <1>2 DEF Pop1, Looping
<1>3. CASE RunDry1  BY <1>3 DEF RunDry1, Looping
<1>4. CASE Relax1  BY <1>4 DEF Relax1
<1>5. CASE Walk1  BY <1>5 DEF Walk1
<1>6. CASE Abandon1  BY <1>6 DEF Abandon1, Looping
<1> QED  BY <1>1, <1>2, <1>3, <1>4, <1>5, <1>6 DEF dijkstra

\* An algorithm chosen, and not that of the portfolio.
LEMMA CallFacts ==
  ASSUME CallOK
  PROVE  /\ alg \in Single \/ alg \in Baseline \/ alg = "aegis-portfolio"
         /\ call.alg = "astar" => alg \in Single
<1>1. call \in Traits  BY CallAssumption DEF CallOK
<1>2. call.alg \in {"dijkstra", "astar", "aegis-portfolio", "catch"} \cup Plain \cup Reduced
  BY <1>1 DEF Traits
<1> QED  BY <1>2 DEF CallOK, Single, Baseline, Plain

LEMMA DispatchInitInv == DispatchInit => DInv
<1> SUFFICES ASSUME DispatchInit PROVE DInv  OBVIOUS
<1> USE DEF DispatchInit, BaselineInit, Init
<1>1. /\ query \in Queries /\ pc = "start" /\ best = inf /\ scan = {} /\ dir = "F"
      /\ dist = [d \in Dir |-> [v \in Node |-> inf]]
      /\ settled = [d \in Dir |-> {}] /\ queue = [d \in Dir |-> {}]
      /\ call \in Calls(query) /\ alg = call.alg
  OBVIOUS
<1>2. /\ \A d \in Dir : settled[d] = {} /\ queue[d] = {} /\ \A v \in Node : dist[d][v] = inf
      /\ "F" \in Dir /\ "B" \in Dir
  BY <1>1 DEF Dir
<1>3. ~Running  BY <1>1 DEF Running
<1>4. SearchTypeOK
  <2>1. inf \in Word  BY WidthAssumption DEF inf, Word
  <2> QED  BY <1>1, <1>2, <2>1 DEF SearchTypeOK
<1>5. Untouched /\ RootsAtZero  BY <1>1, <1>2, <1>3 DEF Untouched, RootsAtZero
<1>6. QueuesCover /\ ConnectionsTried /\ ScanLatest
  BY <1>1, <1>2 DEF QueuesCover, ConnectionsTried, ScanLatest
<1>7. QueuesMonotone /\ PlainRelaxed /\ EndsApart
  BY <1>2 DEF QueuesMonotone, PlainRelaxed, EndsApart
<1>8. RoutesReal  BY <1>1, <1>2 DEF RoutesReal, LabelsWalked
<1>9. CallOK  BY <1>1 DEF CallOK
<1> QED  BY <1>2, <1>4, <1>5, <1>6, <1>7, <1>8, <1>9 DEF DInv, SearchInv

LEMMA DispatchNextInv == DInv /\ [DispatchNext]_dvars => DInv'
<1> SUFFICES ASSUME DInv, [DispatchNext]_dvars PROVE DInv'  OBVIOUS
<1>1. CallOK /\ query \in Queries /\ (alg \in Single \/ SearchInv)  BY DEF DInv, CallOK
<1>2. alg \in Baseline => alg \notin Single  BY DEF Baseline, Plain, Reduced, Single
<1>3. CASE Portfolio
  <2>1. /\ pc = "start" /\ pc' = "start" /\ alg = "aegis-portfolio"
        /\ alg' \in Single \cup {"bidijkstra"}
        /\ UNCHANGED <<query, searchVars, queue, call>>
    BY <1>3 DEF Portfolio, Select, Single, vars
  <2>2. SearchInv  BY <1>1, <2>1 DEF Single
  <2>3. ~Running /\ ~Running'  BY <2>1 DEF Running
  <2>4. SearchInv'  BY <2>1, <2>2, <2>3, UntouchedKept
  <2>5. \A d \in Dir : settled'[d] = {}
    BY <2>1, <2>2, <2>3 DEF SearchInv, Untouched, searchVars
  <2>6. CallOK'  BY <1>1, <2>1 DEF CallOK, Single
  <2> QED  BY <2>4, <2>5, <2>6 DEF DInv
<1>4. CASE Refuse
  <2>1. /\ call.alg = "astar" /\ UNCHANGED <<query, alg, settled, call>>
    BY <1>4 DEF Refuse, Unusable, searchVars
  <2>2. alg \in Single  BY <1>1, <2>1, CallFacts
  <2> QED  BY <1>1, <2>1, <2>2 DEF DInv, CallOK
<1>5. CASE (dijkstra \/ Abandon1) /\ UNCHANGED call
  <2>1. alg \in Single /\ UNCHANGED <<query, alg, settled, call>>  BY <1>5, SingleStep
  <2> QED  BY <1>1, <2>1 DEF DInv, CallOK
<1>6. CASE Step /\ UNCHANGED call
  <2>1. alg \in Baseline
    BY <1>6 DEF Step, bidirectionalDijkstra, meetSearch, pbSearch, catchRun, multiBoundRun,
                Baseline, Plain, Reduced
  <2>2. SearchInv  BY <1>1, <1>2, <2>1
  <2>3. Moves  BY <1>1, <1>6, <2>2, StepMoves
  <2>4. SearchInv'  BY <1>1, <2>1, <2>2, <2>3, MovesStep
  <2>5. UNCHANGED <<query, alg, call>>
    BY <1>6, <2>3 DEF Moves, Trivial, AnswerTrivial, Enter, Begin, RelaxEdge, Walk, WalkLeft,
                      WalkRight, Halt, Take
  <2> QED  BY <1>1, <1>2, <2>1, <2>4, <2>5 DEF DInv, CallOK
<1>7. CASE Abandon /\ UNCHANGED call
  <2>1. /\ pc = "search" /\ scan = {} /\ alg \in Baseline /\ pc' = "done"
        /\ UNCHANGED <<query, searchVars, alg, queue, call>>
    BY <1>7 DEF Abandon, Searching
  <2>2. SearchInv  BY <1>1, <1>2, <2>1
  <2>3. Running /\ Running'  BY <2>1, <2>2 DEF SearchInv, Untouched, Running
  <2>4. SearchInv'  BY <2>1, <2>2, <2>3, SearchKept
  <2> QED  BY <1>1, <1>2, <2>1, <2>4 DEF DInv, CallOK
<1>8. CASE UNCHANGED dvars
  <2>1. UNCHANGED <<query, pc, searchVars, alg, queue, call>>
    BY <1>8 DEF dvars, svars, bvars, vars
  <2>2. CASE alg \in Single  BY <1>1, <2>1, <2>2 DEF DInv, CallOK, searchVars
  <2>3. CASE alg \notin Single
    <3>1. SearchInv  BY <1>1, <2>3
    <3>2. pc \in {"start", "search", "left", "right", "done"}
      BY <3>1 DEF SearchInv, SearchTypeOK
    <3>3. CASE Running
      <4>1. Running' /\ (pc # "search" => scan = {})
        BY <2>1, <3>1, <3>3 DEF Running, SearchInv, ScanLatest
      <4>2. pc # "start"  BY <3>3 DEF Running
      <4>3. SearchInv'  BY <2>1, <3>1, <3>2, <3>3, <4>1, <4>2, SearchKept
      <4> QED  BY <1>1, <2>1, <2>3, <4>3 DEF DInv, CallOK
    <3>4. CASE ~Running
      <4>1. ~Running' /\ pc' \in {"start", "done"}
        BY <2>1, <3>1, <3>4 DEF Running, SearchInv, Untouched
      <4>2. SearchInv'  BY <2>1, <3>1, <3>4, <4>1, UntouchedKept
      <4> QED  BY <1>1, <2>1, <2>3, <4>2 DEF DInv, CallOK
    <3> QED  BY <3>3, <3>4
  <2> QED  BY <2>2, <2>3
<1>9. DispatchNext =>
        \/ Portfolio
        \/ Refuse
        \/ (dijkstra \/ Abandon1) /\ UNCHANGED call
        \/ Step /\ UNCHANGED call
        \/ Abandon /\ UNCHANGED call
        \/ UNCHANGED dvars
  BY DEF DispatchNext, Run
<1> QED  BY <1>3, <1>4, <1>5, <1>6, <1>7, <1>8, <1>9

\* Whatever Run is called with, its bidirectional search keeps the invariant.
THEOREM DispatchInvariance == DispatchSpec => []DInv
<1> QED  BY DispatchInitInv, DispatchNextInv, PTL DEF DispatchSpec

\* No queue of a baseline ever panics: a key is no smaller than any it has delivered,
\* for any geometry, and although keys are clamped to the word (radix.go:37).
THEOREM QueuesAlwaysMonotone == DispatchSpec => []QueuesMonotone
<1>1. ASSUME DInv PROVE QueuesMonotone
  <2>1. CASE alg \in Single  BY <1>1, <2>1 DEF DInv, QueuesMonotone
  <2>2. CASE alg \notin Single  BY <1>1, <2>2 DEF DInv, SearchInv
  <2> QED  BY <2>1, <2>2
<1> QED  BY <1>1, DispatchInvariance, PTL

\* Whenever a stopping test is made, the incumbent is the cheapest connection of the two
\* searches, however few connections the pops try (bidijkstra.go:52, meet.go:101).
THEOREM ConnectionsNeverMissed == DispatchSpec => []NoConnectionMissed
<1>1. DInv => NoConnectionMissed
  BY DEF DInv, SearchInv, ConnectionsTried, NoConnectionMissed, Baseline, Plain, Reduced, Single
<1> QED  BY <1>1, DispatchInvariance, PTL

\* The unsigned differences of the stopping tests never wrap (pb.go:183, meet.go:80,
\* bidijkstra.go:42).
THEOREM DifferencesAlwaysFit == DispatchSpec => []DifferencesFit
<1>1. ASSUME DInv PROVE DifferencesFit
  <2> SUFFICES ASSUME Searching, RunsOn, best # inf, alg \in Plain, NEW d \in Dir
               PROVE  MinKey(d) <= best
    BY DEF DifferencesFit
  <2>1. alg \in Baseline /\ alg \notin Single  BY DEF Baseline, Plain, Single
  <2>2. query \in Queries /\ SearchInv  BY <1>1, <2>1 DEF DInv, CallOK
  <2>3. Running /\ scan = {}  BY <2>1, <2>2 DEF SearchInv, Untouched, Searching
  <2> QED  BY <2>2, <2>3, FrontiersFit
<1> QED  BY <1>1, DispatchInvariance, PTL

\* MEET does not come to its cut (meet.go:101, 140): a label that reaches the incumbent
\* has fired the stopping test before it is popped.
CutIdle ==
  alg = "meet" /\ Searching /\ RunsOn /\ ~(best # inf /\ kF >= Wrapped(best - kB)) =>
    \A d \in Dir : \A e \in Tops(d) : ~Cut(e[2])

THEOREM CutNeverApplies == DispatchSpec => []CutIdle
<1>1. ASSUME DInv PROVE CutIdle
  <2> SUFFICES ASSUME alg = "meet", Searching, RunsOn,
                      ~(best # inf /\ kF >= Wrapped(best - kB)),
                      NEW d \in Dir, NEW e \in Tops(d), e[2] >= best
               PROVE  FALSE
    BY DEF CutIdle, Cut
  <2>1. alg \in Plain /\ alg \in Baseline /\ alg \notin Single
    BY DEF Baseline, Plain, Single
  <2>2. query \in Queries /\ SearchInv  BY <1>1, <2>1 DEF DInv, CallOK
  <2>3. SearchTypeOK /\ QueuesCover /\ Untouched  BY <2>2 DEF SearchInv
  <2>4. Running /\ scan = {}  BY <2>1, <2>3 DEF Untouched, Searching
  <2>5. e \in queue[d] /\ Visible(d) # {}  BY DEF Tops, Visible
  <2>6. e[2] \in Nat /\ e[2] < inf  BY <2>2, <2>3, <2>5, EntryFacts DEF QueuesCover
  <2>7. MinKey(d) = e[2]
    BY <2>1, <2>2, <2>3, <2>5, LeastEntry, PriorityOfPlain DEF EntryKey
  <2>8. best \in Nat /\ inf \in Nat
    BY <2>3, WidthAssumption DEF SearchTypeOK, Word, inf
  <2>9. best # inf  BY <2>6, <2>8
  <2>10. kF + kB < best  BY <2>1, <2>2, <2>4, <2>9, PlainTests
  <2>11. \A c \in Dir : MinKey(c) \in Nat  BY <2>1, <2>2, <2>4, <2>9, FrontiersFit
  <2>12. MinKey("F") \in Nat /\ MinKey("B") \in Nat /\ (d = "F" \/ d = "B")
    BY <2>11 DEF Dir
  <2> QED  BY <2>7, <2>8, <2>10, <2>12 DEF kF, kB
<1> QED  BY <1>1, DispatchInvariance, PTL

-----------------------------------------------------------------------------
(* The four-ary heap                                                       *)

\* What is in the heap.
Held(h) == {h[i] : i \in 1 .. Len(h)}

Ranked(x) == x.priority \in Nat /\ x.distance \in Nat

\* No item is less than the one above it.
HeapOrdered(h) ==
  /\ \A i \in 1 .. Len(h) : Ranked(h[i])
  /\ \A i \in 2 .. Len(h) : ~lessItem(h[i], h[Above(i)])

LEMMA ItemOrder ==
  ASSUME NEW x, NEW y, NEW z, Ranked(x), Ranked(y), Ranked(z)
  PROVE  /\ ~lessItem(x, x)
         /\ lessItem(x, y) => ~lessItem(y, x)
         /\ ~lessItem(x, y) /\ ~lessItem(y, z) => ~lessItem(x, z)
         /\ lessItem(x, y) /\ ~lessItem(z, y) => ~lessItem(z, x)
BY DEF Ranked, lessItem

LEMMA AboveFacts ==
  ASSUME NEW i \in Nat, i >= 2
  PROVE  Above(i) \in 1 .. i - 1
<1>1. HeapArity \in Nat \ {0} /\ i - 2 \in Nat  BY ArityAssumption
<1> DEFINE q == (i - 2) \div HeapArity
<1>2. q \in Nat /\ HeapArity * q <= i - 2  BY <1>1, DivisionBounds
<1> HIDE DEF q
<1>3. PICK k \in Nat : HeapArity = k + 1
  <2>1. HeapArity - 1 \in Nat /\ HeapArity = (HeapArity - 1) + 1  BY <1>1
  <2> QED  BY <2>1
<1>4. HeapArity * q = k * q + q /\ k * q \in Nat  BY <1>2, <1>3
<1>5. q <= i - 2  BY <1>2, <1>4
<1> QED  BY <1>2, <1>5 DEF Above, q

\* The first item is a least one.
LEMMA HeapTop ==
  ASSUME NEW h, Len(h) \in Nat, HeapOrdered(h), NEW i \in 1 .. Len(h)
  PROVE  ~lessItem(h[i], h[1]) /\ h[1].priority <= h[i].priority
<1> DEFINE n == Len(h)
           early == {j \in 1 .. n : lessItem(h[j], h[1])}
<1>1. early = {}
  <2> SUFFICES ASSUME early # {} PROVE FALSE  OBVIOUS
  <2>1. PICK j \in early : \A k \in early : j <= k
    <3>1. early \subseteq Nat  OBVIOUS
    <3> HIDE DEF early
    <3> QED  BY <3>1, LeastNumber
  <2>2. j \in 1 .. n /\ Ranked(h[j]) /\ Ranked(h[1]) /\ 1 \in 1 .. n  BY DEF HeapOrdered
  <2>3. j # 1  BY <2>1, <2>2, ItemOrder
  <2>4. j \in Nat /\ j >= 2 /\ j \in 2 .. n  BY <2>2, <2>3
  <2>5. Above(j) \in 1 .. j - 1  BY <2>4, AboveFacts
  <2>6. Above(j) \in 1 .. n /\ Above(j) < j  BY <2>4, <2>5
  <2>7. ~lessItem(h[Above(j)], h[1])  BY <2>1, <2>4, <2>6
  <2>8. ~lessItem(h[j], h[Above(j)]) /\ Ranked(h[Above(j)])
    BY <2>4, <2>6 DEF HeapOrdered
  <2> QED  BY <2>1, <2>2, <2>7, <2>8, ItemOrder
<1>2. ~lessItem(h[i], h[1])  BY <1>1
<1>3. Ranked(h[i]) /\ Ranked(h[1])  BY DEF HeapOrdered
<1> QED  BY <1>2, <1>3 DEF lessItem, Ranked

-----------------------------------------------------------------------------
(* push *)

\* The places p, from i upwards to just below t, of which the item above is greater
\* than x.
Rises(h, x, i, p, t) ==
  /\ p \in SUBSET (2 .. i) /\ t \in 1 .. i /\ t \notin p
  /\ \A j \in p : t < j /\ lessItem(x, h[Above(j)]) /\ Above(j) \in p \cup {t}
  /\ IF p = {} THEN i = t ELSE i \in p /\ \E j \in p : Above(j) = t
  /\ \A j \in p : j # i => \E k \in p : Above(k) = j
  /\ \A j, k \in p : Above(j) = Above(k) => j = k
  /\ t = 1 \/ ~lessItem(x, h[Above(t)])

LEMMA RisesFurther ==
  ASSUME NEW h, NEW x, NEW i \in Nat, i >= 2, lessItem(x, h[Above(i)]),
         NEW p, NEW t, Rises(h, x, Above(i), p, t)
  PROVE  Rises(h, x, i, p \cup {i}, t)
<1> DEFINE a == Above(i)
           s == p \cup {i}
<1>1. a \in 1 .. i - 1 /\ a \in Nat  BY AboveFacts
<1>2. /\ p \in SUBSET (2 .. a) /\ t \in 1 .. a /\ t \notin p
      /\ \A j \in p : t < j /\ lessItem(x, h[Above(j)]) /\ Above(j) \in p \cup {t}
      /\ IF p = {} THEN a = t ELSE a \in p /\ \E j \in p : Above(j) = t
      /\ \A j \in p : j # a => \E k \in p : Above(k) = j
      /\ \A j, k \in p : Above(j) = Above(k) => j = k
      /\ t = 1 \/ ~lessItem(x, h[Above(t)])
  BY DEF Rises
<1>3. \A j \in p : j \in Nat /\ j >= 2 /\ j <= a  BY <1>1, <1>2
<1>4. s \in SUBSET (2 .. i) /\ t \in 1 .. i /\ t \notin s /\ t < i  BY <1>1, <1>2, <1>3
<1>5. \A j \in s : t < j /\ lessItem(x, h[Above(j)]) /\ Above(j) \in s \cup {t}
  <2>1. a \in s \cup {t}  BY <1>2
  <2> QED  BY <1>2, <1>4, <2>1
<1>6. s # {} /\ i \in s /\ \E j \in s : Above(j) = t  BY <1>2
<1>7. \A j \in s : j # i => \E k \in s : Above(k) = j  BY <1>2
<1>8. ASSUME NEW j \in s, NEW k \in s, Above(j) = Above(k)
      PROVE  j = k
  <2>1. \A m \in p : Above(m) # a
    <3> TAKE m \in p
    <3>1. Above(m) \in 1 .. m - 1  BY <1>3, AboveFacts
    <3> QED  BY <1>1, <1>3, <3>1
  <2> QED  BY <1>2, <1>8, <2>1
<1> QED  BY <1>2, <1>4, <1>5, <1>6, <1>7, <1>8 DEF Rises

\* x ends up in place t, and the items above the places of p move down into them.
PushedAt(h, x, p, t) ==
  push(h, x) = [i \in 1 .. Len(h) + 1 |->
                  IF i = t THEN x ELSE IF i \in p THEN h[Above(i)] ELSE h[i]]

\* What the places of push come to.
LEMMA PushShape ==
  ASSUME NEW h, Len(h) \in Nat, NEW x
  PROVE  \E p, t : Rises(h, x, Len(h) + 1, p, t) /\ PushedAt(h, x, p, t)
<1> DEFINE n == Len(h) + 1
           S == SUBSET (1 .. n)
           next == [i \in 1 .. n |-> IF i > 1 /\ lessItem(x, h[Above(i)]) THEN Above(i) ELSE 0]
           step == [is \in (1 .. n) \X S |-> is[2] \cup {is[1]}]
           IsPath(f) == f = [i \in 1 .. n |-> IF i > 1 /\ lessItem(x, h[Above(i)])
                                              THEN f[Above(i)] \cup {i} ELSE {}]
           places == CHOOSE f : IsPath(f)
           top == CHOOSE i \in 1 .. n :
                    i \notin places[n] /\ (i = n \/ \E j \in places[n] : Above(j) = i)
<1>1. push(h, x) = [i \in 1 .. n |->
                      IF i = top THEN x ELSE IF i \in places[n] THEN h[Above(i)] ELSE h[i]]
  BY DEF push
<1>2. n \in Nat /\ n >= 1  OBVIOUS
<1> HIDE DEF n
<1>3. \A i \in 1 .. n : i > 1 => Above(i) \in 1 .. n /\ Above(i) < i
  <2> TAKE i \in 1 .. n
  <2>1. i > 1 => i \in Nat /\ i >= 2  BY <1>2
  <2>2. i > 1 => Above(i) \in 1 .. i - 1  BY <2>1, AboveFacts
  <2> QED  BY <1>2, <2>2
<1>4. PICK f : IsDescent(f, n, S, {}, next, step)
  <2>1. {} \in S  OBVIOUS
  <2>2. next \in [1 .. n -> 0 .. n] /\ \A i \in 1 .. n : next[i] < i  BY <1>2, <1>3
  <2>3. step \in [(1 .. n) \X S -> S]
    <3>1. \A i \in 1 .. n : \A s \in S : s \cup {i} \in S  OBVIOUS
    <3> HIDE DEF S
    <3> QED  BY <3>1
  <2> HIDE DEF S, next, step
  <2> QED  BY <1>2, <2>1, <2>2, <2>3, DescendingRecursion
<1>4a. f \in [1 .. n -> S]
       /\ \A i \in 1 .. n : f[i] = IF next[i] = 0 THEN {} ELSE step[<<i, f[next[i]]>>]
  BY <1>4 DEF IsDescent
<1>5. ASSUME NEW i \in 1 .. n
      PROVE  f[i] = IF i > 1 /\ lessItem(x, h[Above(i)]) THEN f[Above(i)] \cup {i} ELSE {}
  <2>1. CASE i > 1 /\ lessItem(x, h[Above(i)])
    <3>1. next[i] = Above(i) /\ next[i] # 0  BY <1>3, <2>1
    <3>2. f[Above(i)] \in S  BY <1>3, <1>4a, <2>1
    <3>3. f[i] = step[<<i, f[Above(i)]>>]  BY <1>4a, <3>1
    <3> HIDE DEF S, next
    <3> QED  BY <2>1, <3>2, <3>3
  <2>2. CASE ~(i > 1 /\ lessItem(x, h[Above(i)]))
    <3>1. next[i] = 0  BY <2>2
    <3> QED  BY <1>4a, <2>2, <3>1
  <2> QED  BY <2>1, <2>2
<1>6. IsPath(f)
  <2> HIDE DEF S, next, step
  <2> QED  BY <1>4a, <1>5
<1>7. IsPath(places)
  <2> HIDE DEF IsPath
  <2> QED  BY <1>6
<1> HIDE DEF places, next, step, S
<1>8. \A i \in 1 .. n : places[i] = IF i > 1 /\ lessItem(x, h[Above(i)])
                                  THEN places[Above(i)] \cup {i} ELSE {}
  BY <1>7
<1> DEFINE bad == {i \in 1 .. n : ~\E t : Rises(h, x, i, places[i], t)}
<1>9. bad = {}
  <2> SUFFICES ASSUME bad # {} PROVE FALSE  OBVIOUS
  <2>1. PICK i \in bad : \A k \in bad : i <= k
    <3>1. bad \subseteq Nat  BY <1>2
    <3> HIDE DEF bad
    <3> QED  BY <3>1, LeastNumber
  <2>2. i \in 1 .. n /\ i \in Nat /\ ~\E t : Rises(h, x, i, places[i], t)  BY <1>2
  <2>3. CASE i > 1 /\ lessItem(x, h[Above(i)])
    <3>1. Above(i) \in 1 .. n /\ Above(i) < i  BY <1>3, <2>2, <2>3
    <3>2. Above(i) \notin bad  BY <2>1, <2>2, <3>1
    <3>3. PICK t : Rises(h, x, Above(i), places[Above(i)], t)  BY <3>1, <3>2
    <3>4. places[i] = places[Above(i)] \cup {i}
      <4> HIDE DEF bad
      <4> QED  BY <1>8, <2>2, <2>3
    <3>6. i >= 2  BY <2>2, <2>3
    <3>5. Rises(h, x, i, places[i], t)  BY <2>2, <2>3, <3>3, <3>4, <3>6, RisesFurther
    <3> QED  BY <2>2, <3>5
  <2>4. CASE ~(i > 1 /\ lessItem(x, h[Above(i)]))
    <3>1. places[i] = {}  BY <1>8, <2>2, <2>4
    <3>2. i = 1 \/ ~lessItem(x, h[Above(i)])  BY <2>2, <2>4
    <3>3. Rises(h, x, i, places[i], i)  BY <2>2, <3>1, <3>2 DEF Rises
    <3> QED  BY <2>2, <3>3
  <2> QED  BY <2>3, <2>4
<1>10. PICK t : Rises(h, x, n, places[n], t)
  <2>1. n \in 1 .. n  BY <1>2
  <2> QED  BY <1>9, <2>1
<1>11. top = t
  <2>1. t \in 1 .. n /\ t \notin places[n] /\ (t = n \/ \E j \in places[n] : Above(j) = t)
    BY <1>10 DEF Rises
  <2>2. ASSUME NEW i \in 1 .. n, i \notin places[n],
               i = n \/ \E j \in places[n] : Above(j) = i
        PROVE  i = t
    BY <1>10, <2>2 DEF Rises
  <2> QED  BY <2>1, <2>2
<1> HIDE DEF top
<1>12. Rises(h, x, Len(h) + 1, places[n], t) /\ PushedAt(h, x, places[n], t)
  BY <1>1, <1>10, <1>11 DEF n, PushedAt
<1> QED  BY <1>12

\* The heap has one item more, and is in order.
LEMMA PushFacts ==
  ASSUME NEW h, Len(h) \in Nat, HeapOrdered(h), NEW x, Ranked(x)
  PROVE  /\ push(h, x) \in Seq(Held(h) \cup {x}) /\ Len(push(h, x)) = Len(h) + 1
         /\ HeapOrdered(push(h, x))
         /\ Held(push(h, x)) = Held(h) \cup {x}
<1> DEFINE n == Len(h) + 1
           r == push(h, x)
<1>0. PICK p, t : Rises(h, x, n, p, t) /\ PushedAt(h, x, p, t)  BY PushShape
<1>1. /\ Rises(h, x, n, p, t)
      /\ r = [i \in 1 .. n |->
                IF i = t THEN x ELSE IF i \in p THEN h[Above(i)] ELSE h[i]]
  BY <1>0 DEF PushedAt
<1>2. n \in Nat /\ n >= 1 /\ \A i \in 1 .. n : i # n => i \in 1 .. Len(h)  OBVIOUS
<1>3. /\ p \in SUBSET (2 .. n) /\ t \in 1 .. n /\ t \notin p
      /\ \A j \in p : t < j /\ lessItem(x, h[Above(j)]) /\ Above(j) \in p \cup {t}
      /\ IF p = {} THEN n = t ELSE n \in p /\ \E j \in p : Above(j) = t
      /\ \A j \in p : j # n => \E k \in p : Above(k) = j
      /\ t = 1 \/ ~lessItem(x, h[Above(t)])
  BY <1>1 DEF Rises
<1>4. \A i \in 2 .. n : i \in Nat /\ Above(i) \in 1 .. i - 1 /\ Above(i) \in 1 .. Len(h)
                        /\ Above(i) < i
  <2> TAKE i \in 2 .. n
  <2>1. i \in Nat /\ i >= 2  BY <1>2
  <2> QED  BY <2>1, AboveFacts
<1>5. \A i \in 1 .. Len(h) : h[i] \in Held(h) /\ Ranked(h[i])  BY DEF Held, HeapOrdered
<1>6. \A i \in 1 .. n : i # t => (i \in p \/ i \in 1 .. Len(h))  BY <1>2, <1>3
<1> HIDE DEF r
<1>7. \A i \in 1 .. n : r[i] = IF i = t THEN x ELSE IF i \in p THEN h[Above(i)] ELSE h[i]
  BY <1>1
<1>8. \A i \in 1 .. n : r[i] \in Held(h) \cup {x}  BY <1>3, <1>4, <1>5, <1>6, <1>7
<1>9. r \in Seq(Held(h) \cup {x}) /\ Len(r) = n
  <2>1. r \in [1 .. n -> Held(h) \cup {x}]  BY <1>1, <1>8
  <2> QED  BY <1>2, <2>1
<1> HIDE DEF n
<1>10. Held(r) = Held(h) \cup {x}
  <2>1. Held(r) \subseteq Held(h) \cup {x}  BY <1>8, <1>9 DEF Held
  <2>2. x \in Held(r)  BY <1>3, <1>7, <1>9 DEF Held
  <2>3. ASSUME NEW m \in 1 .. Len(h) PROVE h[m] \in Held(r)
    <3>1. m \in 1 .. n /\ m # n  BY DEF n
    <3>2. CASE m \notin p /\ m # t  BY <1>7, <1>9, <3>1, <3>2 DEF Held
    <3>3. CASE m \in p \/ m = t
      <4>1. PICK k \in p : Above(k) = m  BY <1>3, <3>1, <3>3
      <4>2. k \in 1 .. n /\ k # t  BY <1>2, <1>3
      <4>3. r[k] = h[m]  BY <1>7, <4>1, <4>2
      <4> QED  BY <1>9, <4>2, <4>3 DEF Held
    <3> QED  BY <3>2, <3>3
  <2> QED  BY <2>1, <2>2, <2>3 DEF Held
<1>11. \A i \in 1 .. n : Ranked(r[i])  BY <1>5, <1>8 DEF Held
<1>12. \A i \in 2 .. Len(h) : ~lessItem(h[i], h[Above(i)])  BY DEF HeapOrdered
<1>13. ASSUME NEW i \in 2 .. n
       PROVE  ~lessItem(r[i], r[Above(i)])
  <2> DEFINE u == Above(i)
  <2>1. /\ i \in 1 .. n /\ u \in 1 .. n /\ u \in 1 .. Len(h) /\ u < i /\ Ranked(h[u])
        /\ u \in Nat /\ i \in Nat /\ Ranked(x)
    BY <1>2, <1>4, <1>5 DEF n
  <2> HIDE DEF u
  <2>2. i \in p => lessItem(x, h[u]) /\ u \in p \cup {t}  BY <1>3 DEF u
  <2>3. u \in p => u \in 2 .. Len(h) /\ Ranked(h[Above(u)]) /\ ~lessItem(h[u], h[Above(u)])
    BY <1>3, <1>4, <1>5, <1>12, <2>1
  <2>4. i \notin p /\ i # t => Ranked(h[i]) /\ ~lessItem(h[i], h[u])
    <3> HAVE i \notin p /\ i # t
    <3>1. i \in 2 .. Len(h)  BY <1>6, <2>1
    <3> QED  BY <1>5, <1>12, <3>1 DEF u
  <2>5. CASE i = t
    <3>1. u \notin p /\ u # t /\ t # 1  BY <1>3, <2>1, <2>5
    <3>2. r[i] = x /\ r[u] = h[u]  BY <1>7, <2>1, <2>5, <3>1
    <3>3. ~lessItem(x, h[u])  BY <1>3, <2>5, <3>1 DEF u
    <3> QED  BY <3>2, <3>3 DEF u
  <2>6. CASE i \in p
    <3>1. r[i] = h[u]  BY <1>3, <1>7, <2>1, <2>6 DEF u
    <3>2. CASE u = t
      <4>1. r[u] = x  BY <1>7, <2>1, <3>2
      <4> QED  BY <2>1, <2>2, <2>6, <3>1, <4>1, ItemOrder DEF u
    <3>3. CASE u \in p
      <4>1. r[u] = h[Above(u)]  BY <1>3, <1>7, <2>1, <3>3
      <4> QED  BY <2>3, <3>1, <3>3, <4>1 DEF u
    <3> QED  BY <2>2, <2>6, <3>2, <3>3
  <2>7. CASE i \notin p /\ i # t
    <3>1. r[i] = h[i]  BY <1>7, <2>1, <2>7
    <3>2. CASE u = t
      <4>1. r[u] = x  BY <1>7, <2>1, <3>2
      <4>2. t # n  BY <2>1, <3>2
      <4>3. PICK j \in p : Above(j) = t  BY <1>3, <4>2
      <4>4. lessItem(x, h[u])  BY <1>3, <3>2, <4>3
      <4>5. ~lessItem(h[i], x)  BY <2>1, <2>4, <2>7, <4>4, ItemOrder
      <4> QED  BY <3>1, <4>1, <4>5 DEF u
    <3>3. CASE u \in p
      <4>1. r[u] = h[Above(u)]  BY <1>3, <1>7, <2>1, <3>3
      <4>2. ~lessItem(h[i], h[Above(u)])  BY <2>1, <2>3, <2>4, <2>7, <3>3, ItemOrder
      <4> QED  BY <3>1, <4>1, <4>2 DEF u
    <3>4. CASE u # t /\ u \notin p
      <4>1. r[u] = h[u]  BY <1>7, <2>1, <3>4
      <4> QED  BY <2>4, <2>7, <3>1, <4>1 DEF u
    <3> QED  BY <3>2, <3>3, <3>4
  <2> QED  BY <2>5, <2>6, <2>7
<1>14. HeapOrdered(r)  BY <1>9, <1>11, <1>13 DEF HeapOrdered
<1> QED  BY <1>9, <1>10, <1>14 DEF r, n

-----------------------------------------------------------------------------
(* pop *)

\* The places below the i-th, and the leftmost of the least of them.
BelowIn(n, i) == {c \in 2 .. n : Above(c) = i}
LeastBelow(h, n, i) ==
  CHOOSE c \in BelowIn(n, i) :
    \A x \in BelowIn(n, i) : ~lessItem(h[x], h[c]) /\ (x < c => lessItem(h[c], h[x]))

\* The least of the places in T: among equals the first.
LEMMA LeftmostLeast ==
  ASSUME NEW h, NEW T, T \subseteq Nat, T # {}, IsFiniteSet(T), \A c \in T : Ranked(h[c])
  PROVE  \E c \in T : \A x \in T : ~lessItem(h[x], h[c]) /\ (x < c => lessItem(h[c], h[x]))
<1> DEFINE P == {h[c].priority : c \in T}
<1>1. PICK a \in P : \A p \in P : a <= p
  <2>1. P \subseteq Nat /\ P # {}  BY DEF Ranked
  <2> HIDE DEF P
  <2> QED  BY <2>1, LeastNumber
<1> DEFINE T1 == {c \in T : h[c].priority = a}
           D == {h[c].distance : c \in T1}
<1>2. T1 # {}  BY <1>1
<1>3. PICK b \in D : \A d \in D : b <= d
  <2>1. D \subseteq Nat /\ D # {}  BY <1>2 DEF Ranked
  <2> HIDE DEF D
  <2> QED  BY <2>1, LeastNumber
<1> DEFINE T2 == {c \in T1 : h[c].distance = b}
<1>4. T2 # {} /\ T2 \subseteq Nat  BY <1>3
<1>5. PICK c \in T2 : \A x \in T2 : c <= x
  <2> HIDE DEF T2
  <2> QED  BY <1>4, LeastNumber
<1>6. c \in T /\ h[c].priority = a /\ h[c].distance = b /\ c \in Nat  BY <1>4, <1>5
<1>7. ASSUME NEW x \in T
      PROVE  ~lessItem(h[x], h[c]) /\ (x < c => lessItem(h[c], h[x]))
  <2>1. /\ Ranked(h[x]) /\ Ranked(h[c]) /\ x \in Nat /\ a <= h[x].priority
        /\ h[x].priority = a => b <= h[x].distance
        /\ h[x].priority = a /\ h[x].distance = b => c <= x
    BY <1>1, <1>3, <1>5, <1>6
  <2> QED  BY <1>6, <2>1 DEF Ranked, lessItem
<1> QED  BY <1>6, <1>7

LEMMA BelowFacts ==
  ASSUME NEW h, NEW n \in Nat, \A i \in 1 .. n : Ranked(h[i]), NEW i \in 1 .. n
  PROVE  /\ \A c \in BelowIn(n, i) : c \in 2 .. n /\ Above(c) = i /\ i < c
         /\ BelowIn(n, i) # {} =>
              /\ LeastBelow(h, n, i) \in BelowIn(n, i)
              /\ \A c \in BelowIn(n, i) : ~lessItem(h[c], h[LeastBelow(h, n, i)])
<1>1. ASSUME NEW c \in BelowIn(n, i) PROVE c \in 2 .. n /\ Above(c) = i /\ i < c
  <2>1. c \in 2 .. n /\ Above(c) = i /\ c \in Nat /\ c >= 2  BY DEF BelowIn
  <2> QED  BY <2>1, AboveFacts
<1>2. ASSUME BelowIn(n, i) # {}
      PROVE  \E c \in BelowIn(n, i) : \A x \in BelowIn(n, i) :
               ~lessItem(h[x], h[c]) /\ (x < c => lessItem(h[c], h[x]))
  <2>1. BelowIn(n, i) \subseteq Nat /\ \A c \in BelowIn(n, i) : Ranked(h[c])  BY <1>1
  <2>2. IsFiniteSet(BelowIn(n, i))
    <3>1. IsFiniteSet(2 .. n) /\ BelowIn(n, i) \subseteq 2 .. n  BY <1>1, FS_Interval
    <3> QED  BY <3>1, FS_Subset
  <2> QED  BY <1>2, <2>1, <2>2, LeftmostLeast
<1> QED  BY <1>1, <1>2 DEF LeastBelow

\* The places p, from i downwards to just above t, of which the least item below is less
\* than x.
Sinks(h, n, x, i, p, t) ==
  /\ p \in SUBSET (i .. n) /\ t \in i .. n /\ t \notin p
  /\ \A j \in p : /\ BelowIn(n, j) # {} /\ lessItem(h[LeastBelow(h, n, j)], x)
                  /\ LeastBelow(h, n, j) \in p \cup {t}
  /\ IF p = {} THEN i = t ELSE i \in p
  /\ \A j \in p \cup {t} : j # i => Above(j) \in p /\ LeastBelow(h, n, Above(j)) = j
  /\ BelowIn(n, t) = {} \/ ~lessItem(h[LeastBelow(h, n, t)], x)

LEMMA SinksFurther ==
  ASSUME NEW h, NEW n \in Nat, NEW x, \A j \in 1 .. n : Ranked(h[j]), NEW i \in 1 .. n,
         BelowIn(n, i) # {}, lessItem(h[LeastBelow(h, n, i)], x),
         NEW p, NEW t, Sinks(h, n, x, LeastBelow(h, n, i), p, t)
  PROVE  Sinks(h, n, x, i, p \cup {i}, t)
<1> DEFINE c == LeastBelow(h, n, i)
           s == p \cup {i}
<1>1. c \in 2 .. n /\ Above(c) = i /\ i < c /\ i \in Nat /\ c \in Nat  BY BelowFacts
<1>2. /\ p \in SUBSET (c .. n) /\ t \in c .. n /\ t \notin p
      /\ \A j \in p : /\ BelowIn(n, j) # {} /\ lessItem(h[LeastBelow(h, n, j)], x)
                      /\ LeastBelow(h, n, j) \in p \cup {t}
      /\ IF p = {} THEN c = t ELSE c \in p
      /\ \A j \in p \cup {t} : j # c => Above(j) \in p /\ LeastBelow(h, n, Above(j)) = j
      /\ BelowIn(n, t) = {} \/ ~lessItem(h[LeastBelow(h, n, t)], x)
  BY DEF Sinks
<1>3. c \in p \cup {t}  BY <1>2
<1> HIDE DEF c
<1>4. s \in SUBSET (i .. n) /\ t \in i .. n /\ t \notin s  BY <1>1, <1>2
<1>5. \A j \in s : /\ BelowIn(n, j) # {} /\ lessItem(h[LeastBelow(h, n, j)], x)
                   /\ LeastBelow(h, n, j) \in s \cup {t}
  BY <1>2, <1>3 DEF c
<1>6. \A j \in s \cup {t} : j # i => Above(j) \in s /\ LeastBelow(h, n, Above(j)) = j
  BY <1>1, <1>2 DEF c
<1> QED  BY <1>2, <1>4, <1>5, <1>6 DEF Sinks

\* What the places of pop come to.
LEMMA PopShape ==
  ASSUME NEW h, NEW n \in Nat, Len(h) = n + 1, n > 0, \A i \in 1 .. n : Ranked(h[i])
  PROVE  \E p, t :
           /\ Sinks(h, n, h[n + 1], 1, p, t)
           /\ pop(h) = [i \in 1 .. n |->
                          IF i \in p THEN h[LeastBelow(h, n, i)]
                          ELSE IF i = t THEN h[n + 1] ELSE h[i]]
<1> DEFINE x == h[n + 1]
           Least(i) == LeastBelow(h, n, i)
           goes(i) == BelowIn(n, i) # {} /\ lessItem(h[Least(i)], x)
           S == SUBSET (1 .. n)
           back(i) == (n + 1) - i
           next == [i \in 1 .. n |-> IF goes(back(i)) THEN back(Least(back(i))) ELSE 0]
           step == [is \in (1 .. n) \X S |-> is[2] \cup {back(is[1])}]
           IsPath(f) == f = [i \in 1 .. n |-> IF goes(i) THEN f[Least(i)] \cup {i} ELSE {}]
           places == CHOOSE f : IsPath(f)
<1>1. pop(h) = [i \in 1 .. n |->
                  IF i \in places[1] THEN h[Least(i)]
                  ELSE IF i = 1 \/ (Above(i) \in places[1] /\ Least(Above(i)) = i) THEN x
                  ELSE h[i]]
  <2> DEFINE After(m) ==
               LET T == CHOOSE f : f = [i \in 1 .. m |->
                                          IF /\ BelowIn(m, i) # {}
                                             /\ lessItem(h[LeastBelow(h, m, i)], h[m + 1])
                                          THEN f[LeastBelow(h, m, i)] \cup {i} ELSE {}]
               IN  [i \in 1 .. m |->
                      IF i \in T[1] THEN h[LeastBelow(h, m, i)]
                      ELSE IF i = 1 \/ (Above(i) \in T[1] /\ LeastBelow(h, m, Above(i)) = i)
                      THEN h[m + 1] ELSE h[i]]
  <2>1. pop(h) = IF Len(h) - 1 = 0 THEN <<>> ELSE After(Len(h) - 1)
    BY DEF pop, LeastBelow, BelowIn
  <2>2. Len(h) - 1 = n /\ n # 0  OBVIOUS
  <2>3. pop(h) = After(n)
    <3> HIDE DEF After
    <3> QED  BY <2>1, <2>2
  <2> QED  BY <2>3
<1>2. \A i \in 1 .. n : goes(i) => Least(i) \in 1 .. n /\ i < Least(i)
  BY BelowFacts
<1>3. \A i \in 1 .. n : back(i) \in 1 .. n /\ back(back(i)) = i  OBVIOUS
<1>4. PICK f : IsDescent(f, n, S, {}, next, step)
  <2>1. {} \in S  OBVIOUS
  <2>2. ASSUME NEW i \in 1 .. n
        PROVE  next[i] \in 0 .. n /\ next[i] < i
    <3>1. next[i] = IF goes(back(i)) THEN back(Least(back(i))) ELSE 0  OBVIOUS
    <3>2. back(i) \in 1 .. n  BY <1>3
    <3>3. goes(back(i)) => Least(back(i)) \in 1 .. n /\ back(i) < Least(back(i))
      BY <1>2, <3>2
    <3> HIDE DEF next, goes, Least
    <3> QED  BY <3>1, <3>2, <3>3
  <2>3. next \in [1 .. n -> 0 .. n]
    <3>1. \A i \in 1 .. n : (IF goes(back(i)) THEN back(Least(back(i))) ELSE 0) \in 0 .. n
      BY <2>2
    <3> HIDE DEF goes, back, Least
    <3> QED  BY <3>1
  <2>4. step \in [(1 .. n) \X S -> S]
    <3>1. \A i \in 1 .. n : \A s \in S : s \cup {back(i)} \in S  BY <1>3
    <3> HIDE DEF S, back
    <3> QED  BY <3>1
  <2>5. \A i \in 1 .. n : next[i] < i  BY <2>2
  <2> HIDE DEF S, next, step
  <2> QED  BY <2>1, <2>3, <2>4, <2>5, DescendingRecursion
<1>5. f \in [1 .. n -> S]
      /\ \A i \in 1 .. n : f[i] = IF next[i] = 0 THEN {} ELSE step[<<i, f[next[i]]>>]
  BY <1>4 DEF IsDescent
<1> DEFINE g == [i \in 1 .. n |-> f[back(i)]]
<1>6. ASSUME NEW i \in 1 .. n
      PROVE  g[i] = IF goes(i) THEN g[Least(i)] \cup {i} ELSE {}
  <2>1. back(i) \in 1 .. n /\ back(back(i)) = i /\ g[i] = f[back(i)]  BY <1>3
  <2>2. next[back(i)] = IF goes(i) THEN back(Least(i)) ELSE 0  BY <2>1
  <2>3. CASE goes(i)
    <3>1. Least(i) \in 1 .. n  BY <1>2, <2>3
    <3>2. back(Least(i)) \in 1 .. n /\ g[Least(i)] = f[back(Least(i))]  BY <1>3, <3>1
    <3>3. next[back(i)] = back(Least(i)) /\ back(Least(i)) # 0  BY <2>2, <2>3, <3>2
    <3> HIDE DEF next, Least, goes, g
    <3>4. f[back(i)] = step[<<back(i), f[back(Least(i))]>>]  BY <1>5, <2>1, <3>3
    <3>5. f[back(Least(i))] \in S  BY <1>5, <3>2
    <3>6. step[<<back(i), f[back(Least(i))]>>] = f[back(Least(i))] \cup {back(back(i))}
      <4> HIDE DEF S, back
      <4> QED  BY <2>1, <3>5
    <3> QED  BY <2>1, <2>3, <3>2, <3>4, <3>6
  <2>4. CASE ~goes(i)
    <3>1. next[back(i)] = 0  BY <2>2, <2>4
    <3> HIDE DEF next, Least, goes, g, step
    <3> QED  BY <1>5, <2>1, <2>4, <3>1
  <2> QED  BY <2>3, <2>4
<1>7. IsPath(places)
  <2>1. IsPath(g)
    <3>1. g = [i \in 1 .. n |-> g[i]]  OBVIOUS
    <3> HIDE DEF g, goes, Least
    <3> QED  BY <1>6, <3>1
  <2> HIDE DEF IsPath
  <2> QED  BY <2>1
<1> HIDE DEF places, next, step, S, g, back
<1>8. \A i \in 1 .. n : places[i] = IF goes(i) THEN places[Least(i)] \cup {i} ELSE {}
  <2> HIDE DEF goes, Least
  <2> QED  BY <1>7
<1> DEFINE bad == {i \in 1 .. n : ~\E t : Sinks(h, n, x, i, places[i], t)}
<1>9. bad = {}
  <2> SUFFICES ASSUME bad # {} PROVE FALSE  OBVIOUS
  <2> DEFINE high == {n - i : i \in bad}
  <2>1. PICK m \in high : \A k \in high : m <= k
    <3>1. high \subseteq Nat /\ high # {}  OBVIOUS
    <3> HIDE DEF high
    <3> QED  BY <3>1, LeastNumber
  <2>2. PICK i \in bad : m = n - i  BY <2>1
  <2>3. \A k \in bad : k <= i
    <3> TAKE k \in bad
    <3>1. n - i <= n - k /\ k \in 1 .. n /\ i \in 1 .. n  BY <2>1, <2>2
    <3> QED  BY <3>1
  <2> HIDE DEF high
  <2>4. i \in 1 .. n /\ i \in Nat /\ ~\E t : Sinks(h, n, x, i, places[i], t)  OBVIOUS
  <2>5. CASE goes(i)
    <3>1. Least(i) \in 1 .. n /\ i < Least(i)  BY <1>2, <2>4, <2>5
    <3>2. Least(i) \notin bad  BY <2>3, <2>4, <3>1
    <3>3. PICK t : Sinks(h, n, x, Least(i), places[Least(i)], t)  BY <3>1, <3>2
    <3>4. places[i] = places[Least(i)] \cup {i}
      <4> HIDE DEF bad, goes, Least
      <4> QED  BY <1>8, <2>4, <2>5
    <3>5. Sinks(h, n, x, i, places[i], t)
      <4> HIDE DEF x, bad
      <4> QED  BY <2>4, <2>5, <3>3, <3>4, SinksFurther
    <3> QED  BY <2>4, <3>5
  <2>6. CASE ~goes(i)
    <3>1. places[i] = {}
      <4> HIDE DEF bad, goes, Least
      <4> QED  BY <1>8, <2>4, <2>6
    <3>2. BelowIn(n, i) = {} \/ ~lessItem(h[LeastBelow(h, n, i)], x)  BY <2>6
    <3>3. Sinks(h, n, x, i, places[i], i)
      <4> HIDE DEF x
      <4> QED  BY <2>4, <3>1, <3>2 DEF Sinks
    <3> QED  BY <2>4, <3>3
  <2> QED  BY <2>5, <2>6
<1>10. PICK t : Sinks(h, n, x, 1, places[1], t)
  <2>1. 1 \in 1 .. n  OBVIOUS
  <2> HIDE DEF x
  <2> QED  BY <1>9, <2>1
<1>11. ASSUME NEW i \in 1 .. n, i \notin places[1]
       PROVE  (i = 1 \/ (Above(i) \in places[1] /\ Least(Above(i)) = i)) <=> i = t
  <2> HIDE DEF x
  <2> QED  BY <1>10, <1>11 DEF Sinks
<1>12. pop(h) = [i \in 1 .. n |->
                   IF i \in places[1] THEN h[LeastBelow(h, n, i)]
                   ELSE IF i = t THEN x ELSE h[i]]
  <2> HIDE DEF x
  <2> QED  BY <1>1, <1>11
<1> QED  BY <1>10, <1>12

\* The heap has lost its first item, and is in order.
LEMMA PopFacts ==
  ASSUME NEW h, NEW n \in Nat, Len(h) = n + 1, HeapOrdered(h)
  PROVE  /\ pop(h) \in Seq(Held(h)) /\ Len(pop(h)) = n
         /\ HeapOrdered(pop(h))
         /\ Held(pop(h)) \subseteq Held(h)
         /\ Held(h) \subseteq Held(pop(h)) \cup {h[1]}
<1> DEFINE r == pop(h)
<1>1. CASE n = 0
  <2>1. Len(h) - 1 = 0 /\ Len(h) = 1  BY <1>1
  <2>2. r = <<>>  BY <2>1 DEF pop
  <2>3. r \in Seq(Held(h)) /\ Len(r) = 0  BY <2>2
  <2>4. HeapOrdered(r)  BY <2>3 DEF HeapOrdered
  <2>5. Held(r) = {}  BY <2>3 DEF Held
  <2>6. Held(h) \subseteq {h[1]}  BY <2>1 DEF Held
  <2> QED  BY <1>1, <2>3, <2>4, <2>5, <2>6
<1>2. CASE n > 0
  <2> DEFINE x == h[n + 1]
             Least(i) == LeastBelow(h, n, i)
  <2>1. \A i \in 1 .. n + 1 : Ranked(h[i]) /\ h[i] \in Held(h)
    BY DEF HeapOrdered, Held
  <2>2. \A i \in 1 .. n : Ranked(h[i]) /\ i \in 1 .. n + 1  BY <2>1
  <2>3. PICK p, t :
          /\ Sinks(h, n, x, 1, p, t)
          /\ r = [i \in 1 .. n |-> IF i \in p THEN h[Least(i)] ELSE IF i = t THEN x ELSE h[i]]
    BY <1>2, <2>2, PopShape
  <2>4. /\ p \in SUBSET (1 .. n) /\ t \in 1 .. n /\ t \notin p
        /\ \A j \in p : /\ BelowIn(n, j) # {} /\ lessItem(h[Least(j)], x)
                        /\ Least(j) \in p \cup {t}
        /\ \A j \in p \cup {t} : j # 1 => Above(j) \in p /\ Least(Above(j)) = j
        /\ BelowIn(n, t) = {} \/ ~lessItem(h[Least(t)], x)
    BY <2>3 DEF Sinks
  <2>5. ASSUME NEW i \in 1 .. n
        PROVE  /\ \A c \in BelowIn(n, i) : c \in 2 .. n /\ Above(c) = i /\ i < c
               /\ BelowIn(n, i) # {} =>
                    /\ Least(i) \in BelowIn(n, i)
                    /\ \A c \in BelowIn(n, i) : ~lessItem(h[c], h[Least(i)])
    BY <2>2, BelowFacts
  <2>6. Ranked(x) /\ x \in Held(h) /\ n + 1 \in 1 .. n + 1  BY <2>1
  <2>7. \A i \in 2 .. n : ~lessItem(h[i], h[Above(i)])  BY DEF HeapOrdered
  <2>8. \A i \in 2 .. n : i \in 1 .. n /\ Above(i) \in 1 .. n /\ Above(i) < i
                          /\ i \in BelowIn(n, Above(i))
    <3> TAKE i \in 2 .. n
    <3>1. i \in Nat /\ i >= 2 /\ i \in 1 .. n  OBVIOUS
    <3>2. Above(i) \in 1 .. i - 1  BY <3>1, AboveFacts
    <3> QED  BY <3>1, <3>2 DEF BelowIn
  <2> HIDE DEF r, x, Least
  <2>9. \A i \in 1 .. n : r[i] = IF i \in p THEN h[Least(i)] ELSE IF i = t THEN x ELSE h[i]
    BY <2>3
  <2>10. \A i \in p : Least(i) \in 2 .. n /\ Least(i) \in 1 .. n /\ Above(Least(i)) = i
    BY <2>4, <2>5, <2>8
  <2>11. \A i \in 1 .. n : r[i] \in Held(h) /\ Ranked(r[i])
    BY <2>1, <2>2, <2>6, <2>9, <2>10
  <2>12. r \in Seq(Held(h)) /\ Len(r) = n
    <3>1. r \in [1 .. n -> Held(h)]  BY <2>3, <2>11
    <3> QED  BY <3>1
  <2>13. Held(r) \subseteq Held(h)  BY <2>11, <2>12 DEF Held
  <2>14. ASSUME NEW m \in 1 .. n + 1 PROVE h[m] \in Held(r) \cup {h[1]}
    <3>0. \A i \in 1 .. n : r[i] \in Held(r)  BY <2>12 DEF Held
    <3>1. CASE m = n + 1
      <4>1. r[t] = x  BY <2>4, <2>9
      <4> QED  BY <2>4, <3>0, <3>1, <4>1 DEF x
    <3>2. CASE m = 1  BY <3>2
    <3>3. CASE m # 1 /\ m # n + 1
      <4>1. m \in 1 .. n  BY <3>3
      <4>2. CASE m \in p \cup {t}
        <5>1. Above(m) \in p /\ Least(Above(m)) = m  BY <2>4, <3>3, <4>2
        <5>2. r[Above(m)] = h[m]  BY <2>4, <2>9, <5>1
        <5> QED  BY <2>4, <3>0, <5>1, <5>2
      <4>3. CASE m \notin p \cup {t}
        <5>1. r[m] = h[m]  BY <2>9, <4>1, <4>3
        <5> QED  BY <3>0, <4>1, <5>1
      <4> QED  BY <4>2, <4>3
    <3> QED  BY <3>1, <3>2, <3>3
  <2>15. Held(h) \subseteq Held(r) \cup {h[1]}  BY <2>14 DEF Held
  <2>16. ASSUME NEW i \in 2 .. n
         PROVE  ~lessItem(r[i], r[Above(i)])
    <3> DEFINE u == Above(i)
    <3>1. /\ i \in 1 .. n /\ u \in 1 .. n /\ u < i /\ i \in BelowIn(n, u) /\ i # 1
          /\ Ranked(h[i]) /\ Ranked(h[u])
      BY <2>2, <2>8
    <3> HIDE DEF u
    <3>2. CASE u \in p
      <4>1. r[u] = h[Least(u)] /\ Ranked(h[Least(u)])  BY <2>2, <2>9, <2>10, <3>1, <3>2
      <4>2. CASE i = Least(u) /\ i \in p
        <5>1. r[i] = h[Least(i)]  BY <2>9, <3>1, <4>2
        <5>2. ~lessItem(h[Least(i)], h[i])  BY <2>7, <2>10, <4>2
        <5> QED  BY <4>1, <4>2, <5>1, <5>2 DEF u
      <4>3. CASE i = Least(u) /\ i \notin p
        <5>1. i = t  BY <2>4, <3>2, <4>3
        <5>2. r[i] = x  BY <2>9, <3>1, <4>3, <5>1
        <5>3. lessItem(h[i], x)  BY <2>4, <3>2, <4>3
        <5>4. ~lessItem(x, h[i])  BY <2>6, <3>1, <5>3, ItemOrder
        <5> QED  BY <4>1, <4>3, <5>2, <5>4 DEF u
      <4>4. CASE i # Least(u)
        <5>1. i \notin p \cup {t}  BY <2>4, <3>1, <4>4 DEF u
        <5>2. r[i] = h[i]  BY <2>9, <3>1, <5>1
        <5>3. ~lessItem(h[i], h[Least(u)])  BY <2>5, <3>1
        <5> QED  BY <4>1, <5>2, <5>3 DEF u
      <4> QED  BY <4>2, <4>3, <4>4
    <3>3. CASE u \notin p
      <4>1. i \notin p \cup {t}  BY <2>4, <3>1, <3>3 DEF u
      <4>2. r[i] = h[i]  BY <2>9, <3>1, <4>1
      <4>3. CASE u = t
        <5>1. r[u] = x  BY <2>9, <3>1, <3>3, <4>3
        <5>2. ~lessItem(h[Least(u)], x)  BY <2>4, <3>1, <4>3
        <5>3. ~lessItem(h[i], h[Least(u)]) /\ Least(u) \in BelowIn(n, u)  BY <2>5, <3>1
        <5>4. Ranked(h[Least(u)])  BY <2>2, <2>5, <2>8, <3>1, <5>3
        <5>5. ~lessItem(h[i], x)  BY <2>6, <3>1, <5>2, <5>3, <5>4, ItemOrder
        <5> QED  BY <4>2, <5>1, <5>5 DEF u
      <4>4. CASE u # t
        <5>1. r[u] = h[u]  BY <2>9, <3>1, <3>3, <4>4
        <5>2. ~lessItem(h[i], h[u])  BY <2>7 DEF u
        <5> QED  BY <4>2, <5>1, <5>2 DEF u
      <4> QED  BY <4>3, <4>4
    <3> QED  BY <3>2, <3>3
  <2>17. HeapOrdered(r)  BY <2>11, <2>12, <2>16 DEF HeapOrdered
  <2> QED  BY <2>12, <2>13, <2>15, <2>17 DEF r
<1> QED  BY <1>1, <1>2

-----------------------------------------------------------------------------
(* Labels in range                                                         *)

\* The caps of a query whose keys fit the word.
Fits(q) == \E c \in Nat : \E p \in Nat : BoundedBy(q, c, p)
ArcCap(q) == CHOOSE c \in Nat : \E p \in Nat : BoundedBy(q, c, p)
RestCap(q) == CHOOSE p \in Nat : BoundedBy(q, ArcCap(q), p)
Longest(q) == ArcCap(q) * Cardinality(Node)

Labelled(d) == {v \in Node : dist[d][v] # inf}

\* The largest label that can have been written so far.
LabelCap(d) == ArcCap(query) * Cardinality(Labelled(d))

LabelTyped(d) == \A v \in Node : dist[d][v] \in Word /\ parent[d][v] \in Node \cup {NoNode}

LabelsCapped(d) ==
  \A v \in Labelled(d) : dist[d][v] <= LabelCap(d) /\ 2 * dist[d][v] + Shift(d, v) >= 0

\* An arc from a labelled parent accounts for each label but that of the root.
ParentsReach(d) ==
  \A v \in Labelled(d) \ {Root(d)} :
    \E a \in Arcs :
      /\ To(d, a) = v /\ From(d, a) = parent[d][v] /\ parent[d][v] \in Labelled(d)
      /\ dist[d][parent[d][v]] + query.cost[a] <= dist[d][v]

LabelsOK(d) ==
  /\ LabelTyped(d) /\ LabelsCapped(d) /\ ParentsReach(d)
  /\ Root(d) \in Labelled(d) /\ dist[d][Root(d)] = 0

\* The label of the tail of a, handed on along a.
Along(d, a) == dist[d][From(d, a)] + query.cost[a]

\* The label is written where it improves.
Written(d, a) ==
  /\ \A w \in Node :
       dist'[d][w] = IF w = To(d, a) /\ Along(d, a) < dist[d][w] THEN Along(d, a) ELSE dist[d][w]
  /\ \A w \in Node :
       parent'[d][w] = IF w = To(d, a) /\ Along(d, a) < dist[d][w] THEN From(d, a)
                       ELSE parent[d][w]

LEMMA CapFacts ==
  ASSUME NEW q, Fits(q)
  PROVE  /\ ArcCap(q) \in Nat /\ RestCap(q) \in Nat
         /\ BoundedBy(q, ArcCap(q), RestCap(q))
         /\ Longest(q) \in Nat /\ 2 * Longest(q) + RestCap(q) < MaxUint64
<1>1. ArcCap(q) \in Nat /\ \E p \in Nat : BoundedBy(q, ArcCap(q), p)  BY DEF Fits, ArcCap
<1>2. RestCap(q) \in Nat /\ BoundedBy(q, ArcCap(q), RestCap(q))  BY <1>1 DEF RestCap
<1>3. Cardinality(Node) \in Nat  BY NodeAssumption, FS_CardinalityType
<1>4. Longest(q) \in Nat  BY <1>1, <1>3 DEF Longest
<1>5. 2 * Longest(q) + RestCap(q) < MaxUint64  BY <1>2 DEF BoundedBy, Longest
<1> QED  BY <1>1, <1>2, <1>4, <1>5

LEMMA TimesMonotone ==
  ASSUME NEW c \in Nat, NEW m \in Nat, NEW n \in Nat, m <= n
  PROVE  c * m \in Nat /\ c * m <= c * n
<1>1. PICK k \in Nat : n = m + k  BY n - m \in Nat
<1>2. c * n = c * m + c * k /\ c * k \in Nat /\ c * m \in Nat  BY <1>1
<1> QED  BY <1>2

LEMMA LabelledCount ==
  ASSUME NEW d \in Dir
  PROVE  /\ Cardinality(Labelled(d)) \in Nat /\ Cardinality(Labelled(d)) <= Cardinality(Node)
         /\ Cardinality(Node) \in Nat /\ IsFiniteSet(Labelled(d))
<1>1. Labelled(d) \in SUBSET Node /\ IsFiniteSet(Node)  BY NodeAssumption DEF Labelled
<1>2. IsFiniteSet(Labelled(d)) /\ Cardinality(Labelled(d)) <= Cardinality(Node)
  BY <1>1, FS_Subset
<1> QED  BY <1>1, <1>2, FS_CardinalityType

\* A label in range leaves room for its sum with another one and for its key.
LEMMA LabelLimits ==
  ASSUME query \in Queries, Fits(query), NEW d \in Dir, LabelsOK(d), NEW v \in Labelled(d)
  PROVE  /\ v \in Node /\ dist[d][v] \in Nat /\ dist[d][v] < inf
         /\ dist[d][v] <= Longest(query)
         /\ Shift(d, v) \in Int /\ Shift(d, v) <= RestCap(query)
         /\ RestBound(d, v) \in Nat /\ RestBound(d, v) <= RestCap(query)
         /\ 2 * dist[d][v] + Shift(d, v) >= 0
<1>1. v \in Node /\ dist[d][v] \in Nat /\ dist[d][v] <= LabelCap(d)
      /\ 2 * dist[d][v] + Shift(d, v) >= 0
  BY DEF LabelsOK, LabelTyped, LabelsCapped, Labelled, Word
<1>2. /\ ArcCap(query) \in Nat /\ RestCap(query) \in Nat /\ Longest(query) \in Nat
      /\ BoundedBy(query, ArcCap(query), RestCap(query))
      /\ 2 * Longest(query) + RestCap(query) < MaxUint64
  BY CapFacts
<1>3. LabelCap(d) \in Nat /\ LabelCap(d) <= Longest(query)
  BY <1>2, LabelledCount, TimesMonotone DEF LabelCap, Longest
<1>4. dist[d][v] <= Longest(query) /\ dist[d][v] < inf
  BY <1>1, <1>2, <1>3, WidthAssumption DEF inf
<1>5. Shift(d, v) \in Int /\ RestBound(d, v) \in Nat  BY <1>1, QueryFacts
<1>6. Shift(d, v) <= RestCap(query) /\ RestBound(d, v) <= RestCap(query)
  <2>1. query.src \in Node /\ query.dst \in Node  BY QueryFacts DEF IsQuery
  <2> QED  BY <1>1, <1>2, <2>1 DEF BoundedBy, Shift, RestBound
<1> QED  BY <1>1, <1>4, <1>5, <1>6

LEMMA AlongLimits ==
  ASSUME query \in Queries, Fits(query), NEW d \in Dir, LabelsOK(d),
         NEW a \in Arcs, From(d, a) \in Labelled(d)
  PROVE  /\ query.cost[a] \in Nat /\ query.cost[a] <= ArcCap(query)
         /\ Along(d, a) \in Nat /\ Along(d, a) < inf /\ Along(d, a) \in Word
         /\ dist[d][From(d, a)] <= inf - query.cost[a]
<1>1. query.cost[a] \in Nat /\ To(d, a) \in Node  BY ArcFacts
<1>2. /\ ArcCap(query) \in Nat /\ RestCap(query) \in Nat /\ Longest(query) \in Nat
      /\ BoundedBy(query, ArcCap(query), RestCap(query))
      /\ 2 * Longest(query) + RestCap(query) < MaxUint64
  BY CapFacts
<1>3. query.cost[a] <= ArcCap(query)  BY <1>2 DEF BoundedBy, Arcs
<1>4. ArcCap(query) <= Longest(query)
  <2>1. Cardinality(Node) \in Nat /\ IsFiniteSet(Node) /\ Node # {}
    BY <1>1, NodeAssumption, FS_CardinalityType
  <2>2. 1 <= Cardinality(Node)  BY <2>1, FS_EmptySet
  <2> QED  BY <1>2, <2>1, <2>2, TimesMonotone DEF Longest
<1>5. dist[d][From(d, a)] \in Nat /\ dist[d][From(d, a)] <= Longest(query)
  BY LabelLimits
<1> QED  BY <1>1, <1>2, <1>3, <1>4, <1>5, WidthAssumption DEF Along, Word, inf

LEMMA LabelsWritten ==
  ASSUME query \in Queries, Fits(query), UNCHANGED query, NEW d \in Dir, LabelsOK(d),
         NEW a \in Arcs, From(d, a) \in Labelled(d), Written(d, a)
  PROVE  /\ LabelsOK(d)'
         /\ \A w \in Node : dist'[d][w] <= dist[d][w]
         /\ dist'[d][To(d, a)] <= Along(d, a)
         /\ dist'[d][From(d, a)] = dist[d][From(d, a)]
         /\ Labelled(d) \subseteq Labelled(d)'
<1> DEFINE u == From(d, a)
           v == To(d, a)
           x == Along(d, a)
<1>1. /\ u \in Node /\ v \in Node /\ query.cost[a] \in Nat /\ query.cost[a] > 0
      /\ Shift(d, u) <= 2 * query.cost[a] + Shift(d, v)
  BY ArcFacts
<1>2. /\ query.cost[a] <= ArcCap(query)
      /\ x \in Nat /\ x < inf /\ x \in Word /\ x = dist[d][u] + query.cost[a]
  BY AlongLimits DEF Along
<1>3. \A w \in Node : dist[d][w] \in Word /\ dist[d][w] \in Nat /\ dist[d][w] <= inf
                      /\ parent[d][w] \in Node \cup {NoNode}
  BY WidthAssumption DEF LabelsOK, LabelTyped, Word, inf
<1>4. dist[d][u] \in Nat /\ dist[d][u] < inf /\ 2 * dist[d][u] + Shift(d, u) >= 0
      /\ Shift(d, u) \in Int /\ Shift(d, v) \in Int
      /\ dist[d][u] <= LabelCap(d)
  BY <1>1, LabelLimits, QueryFacts DEF LabelsOK, LabelsCapped
<1>5. inf \in Nat /\ ArcCap(query) \in Nat  BY WidthAssumption, CapFacts DEF inf
<1> HIDE DEF u, v, x
<1>6. \A w \in Node :
        /\ dist'[d][w] = IF w = v /\ x < dist[d][w] THEN x ELSE dist[d][w]
        /\ parent'[d][w] = IF w = v /\ x < dist[d][w] THEN u ELSE parent[d][w]
  BY DEF Written, u, v, x
<1>7. \A w \in Node : dist'[d][w] <= dist[d][w] /\ dist'[d][w] \in Word
  BY <1>2, <1>3, <1>6
<1>8. dist'[d][v] <= x  BY <1>1, <1>2, <1>3, <1>6
<1>9. dist'[d][u] = dist[d][u]
  <2>1. u = v => ~(x < dist[d][u])  BY <1>1, <1>2, <1>4
  <2> QED  BY <1>1, <1>6, <2>1
<1>10. Labelled(d)' = IF x < dist[d][v] THEN Labelled(d) \cup {v} ELSE Labelled(d)
  <2>1. \A w \in Node : dist'[d][w] # inf <=> (dist[d][w] # inf \/ (w = v /\ x < dist[d][v]))
    BY <1>2, <1>5, <1>6
  <2>2. inf' = inf  BY DEF inf
  <2> QED  BY <1>1, <2>1, <2>2 DEF Labelled
<1>11. LabelTyped(d)'  BY <1>1, <1>3, <1>6, <1>7 DEF LabelTyped, Word
<1>12. /\ LabelCap(d) \in Nat /\ LabelCap(d)' \in Nat /\ LabelCap(d) <= LabelCap(d)'
       /\ v \notin Labelled(d) /\ x < dist[d][v] => LabelCap(d)' = LabelCap(d) + ArcCap(query)
  <2> DEFINE m == Cardinality(Labelled(d))
             n == Cardinality(Labelled(d)')
  <2>1. m \in Nat /\ IsFiniteSet(Labelled(d))  BY LabelledCount
  <2>2. n \in Nat /\ m <= n /\ (v \notin Labelled(d) /\ x < dist[d][v] => n = m + 1)
    <3>1. CASE x < dist[d][v] /\ v \notin Labelled(d)
      <4>1. Labelled(d)' = Labelled(d) \cup {v}  BY <1>10, <3>1
      <4>2. n = m + 1
        <5>1. Cardinality(Labelled(d) \cup {v}) = m + 1  BY <2>1, <3>1, FS_AddElement
        <5> QED  BY <4>1, <5>1
      <4> HIDE DEF m, n
      <4> QED  BY <2>1, <4>2
    <3>2. CASE ~(x < dist[d][v] /\ v \notin Labelled(d))
      <4>1. Labelled(d)' = Labelled(d)  BY <1>10, <3>2
      <4>2. n = m  BY <4>1
      <4> HIDE DEF m, n
      <4> QED  BY <2>1, <3>2, <4>2
    <3> QED  BY <3>1, <3>2
  <2>3. LabelCap(d) = ArcCap(query) * m /\ LabelCap(d)' = ArcCap(query) * n
    BY DEF LabelCap, ArcCap, BoundedBy
  <2> HIDE DEF m, n
  <2>4. LabelCap(d) \in Nat /\ LabelCap(d)' \in Nat /\ LabelCap(d) <= LabelCap(d)'
    BY <1>5, <2>1, <2>2, <2>3, TimesMonotone
  <2>5. ArcCap(query) * (m + 1) = ArcCap(query) * m + ArcCap(query)  BY <1>5, <2>1
  <2> QED  BY <2>1, <2>2, <2>3, <2>4, <2>5
<1>13. \A w \in Node : Shift(d, w)' = Shift(d, w)  BY DEF Shift
<1>14. LabelsCapped(d)'
  <2> SUFFICES ASSUME NEW w \in Labelled(d)'
               PROVE  dist'[d][w] <= LabelCap(d)' /\ 2 * dist'[d][w] + Shift(d, w) >= 0
    BY <1>13 DEF LabelsCapped, Labelled
  <2>1. w \in Node /\ Shift(d, w) \in Int  BY QueryFacts DEF Labelled
  <2>2. CASE w \in Labelled(d) /\ ~(w = v /\ x < dist[d][w])
    <3>1. dist'[d][w] = dist[d][w]  BY <1>6, <2>1, <2>2
    <3>2. dist[d][w] <= LabelCap(d) /\ 2 * dist[d][w] + Shift(d, w) >= 0
      BY <2>2 DEF LabelsOK, LabelsCapped
    <3> QED  BY <1>3, <1>12, <2>1, <3>1, <3>2
  <2>3. CASE w = v /\ x < dist[d][w]
    <3>1. dist'[d][w] = x  BY <1>6, <2>1, <2>3
    <3>2. 2 * x + Shift(d, v) >= 0  BY <1>1, <1>2, <1>4
    <3>3. CASE v \in Labelled(d)
      <4>1. dist[d][v] <= LabelCap(d)  BY <3>3 DEF LabelsOK, LabelsCapped
      <4> QED  BY <1>1, <1>2, <1>3, <1>12, <2>3, <3>1, <3>2, <4>1
    <3>4. CASE v \notin Labelled(d)
      <4>1. LabelCap(d)' = LabelCap(d) + ArcCap(query)  BY <1>12, <2>3, <3>4
      <4> QED  BY <1>1, <1>2, <1>4, <1>5, <1>12, <2>3, <3>1, <3>2, <4>1
    <3> QED  BY <3>3, <3>4
  <2> QED  BY <1>10, <2>2, <2>3
<1>15. ParentsReach(d)'
  <2> SUFFICES ASSUME NEW w \in Labelled(d)', w # Root(d)
               PROVE  \E b \in Arcs :
                        /\ To(d, b) = w /\ From(d, b) = parent'[d][w]
                        /\ parent'[d][w] \in Labelled(d)'
                        /\ dist'[d][parent'[d][w]] + query.cost[b] <= dist'[d][w]
    BY DEF ParentsReach, Arcs, From, To, Root
  <2>1. w \in Node  BY DEF Labelled
  <2>2. CASE w = v /\ x < dist[d][w]
    <3>1. parent'[d][w] = u /\ dist'[d][w] = x  BY <1>6, <2>1, <2>2
    <3>2. u \in Labelled(d)' /\ dist'[d][u] + query.cost[a] = x
      BY <1>2, <1>9, <1>10 DEF u
    <3> QED  BY <1>2, <2>2, <3>1, <3>2 DEF u, v
  <2>3. CASE ~(w = v /\ x < dist[d][w])
    <3>1. w \in Labelled(d) \ {Root(d)}  BY <1>10, <2>3
    <3>2. PICK b \in Arcs :
            /\ To(d, b) = w /\ From(d, b) = parent[d][w] /\ parent[d][w] \in Labelled(d)
            /\ dist[d][parent[d][w]] + query.cost[b] <= dist[d][w]
      BY <3>1 DEF LabelsOK, ParentsReach
    <3>3. parent'[d][w] = parent[d][w] /\ dist'[d][w] = dist[d][w]  BY <1>6, <2>1, <2>3
    <3>4. parent[d][w] \in Node /\ query.cost[b] \in Nat  BY <3>2, ArcFacts
    <3>5. dist'[d][parent[d][w]] \in Nat /\ dist'[d][parent[d][w]] <= dist[d][parent[d][w]]
          /\ dist[d][parent[d][w]] \in Nat /\ dist[d][w] \in Nat
      BY <1>3, <1>7, <2>1, <3>4 DEF Word
    <3>6. dist'[d][parent[d][w]] + query.cost[b] <= dist[d][w]  BY <3>2, <3>4, <3>5
    <3> QED  BY <1>10, <3>2, <3>3, <3>6
  <2> QED  BY <2>2, <2>3
<1>16. Root(d)' = Root(d) /\ Root(d) \in Labelled(d)' /\ dist'[d][Root(d)] = 0
  <2>1. Root(d) \in Node /\ Root(d) \in Labelled(d) /\ dist[d][Root(d)] = 0
    BY QueryFacts DEF LabelsOK
  <2>2. ~(x < dist[d][Root(d)])  BY <1>2, <2>1
  <2> QED  BY <1>6, <1>10, <2>1, <2>2 DEF Root
<1>17. LabelsOK(d)'  BY <1>11, <1>14, <1>15, <1>16 DEF LabelsOK
<1> QED  BY <1>7, <1>8, <1>9, <1>10, <1>17 DEF u, v, x

\* What neither the labels nor the parents of a direction change.
LEMMA LabelsKept ==
  ASSUME UNCHANGED query, NEW d \in Dir, LabelsOK(d),
         dist'[d] = dist[d], parent'[d] = parent[d]
  PROVE  LabelsOK(d)' /\ Labelled(d)' = Labelled(d)
<1>1. Labelled(d)' = Labelled(d)  BY DEF Labelled, inf
<1>2. LabelCap(d)' = LabelCap(d)  BY <1>1 DEF LabelCap
<1>3. /\ \A v : Shift(d, v)' = Shift(d, v)
      /\ Root(d)' = Root(d) /\ Arcs' = Arcs
      /\ \A a : From(d, a)' = From(d, a) /\ To(d, a)' = To(d, a)
  BY DEF Shift, Root, Arcs, From, To
<1>4. LabelTyped(d)'  BY DEF LabelsOK, LabelTyped
<1>5. LabelsCapped(d)'  BY <1>1, <1>2, <1>3 DEF LabelsOK, LabelsCapped
<1>6. ParentsReach(d)'  BY <1>1, <1>3 DEF LabelsOK, ParentsReach
<1> QED  BY <1>1, <1>3, <1>4, <1>5, <1>6 DEF LabelsOK

-----------------------------------------------------------------------------
(* Keys in range                                                           *)

\* A key before it is clamped.
Value(d, v, x) ==
  IF alg \in Plain THEN x
  ELSE IF alg = "catch" THEN x + RestBound(d, v) ELSE 2 * x + Shift(d, v)

LEMMA ValueFacts ==
  ASSUME query \in Queries, NEW d \in Dir, NEW v \in Node, NEW x \in Int
  PROVE  /\ Value(d, v, x) \in Int
         /\ \A y \in Int : x < y <=> Value(d, v, x) < Value(d, v, y)
         /\ \A y \in Int : x <= y <=> Value(d, v, x) <= Value(d, v, y)
<1>1. Shift(d, v) \in Int /\ RestBound(d, v) \in Int  BY QueryFacts
<1> DEFINE s == Shift(d, v)
           r == RestBound(d, v)
<1>2. s \in Int /\ r \in Int  BY <1>1
<1>3. \A y : Value(d, v, y) = IF alg \in Plain THEN y ELSE IF alg = "catch" THEN y + r ELSE 2 * y + s
  BY DEF Value
<1> HIDE DEF s, r
<1>4. CASE alg \in Plain  BY <1>3, <1>4
<1>5. CASE alg \notin Plain /\ alg = "catch"  BY <1>2, <1>3, <1>5
<1>6. CASE alg \notin Plain /\ alg # "catch"  BY <1>2, <1>3, <1>6
<1> QED  BY <1>4, <1>5, <1>6

LEMMA ValueAlongArc ==
  ASSUME query \in Queries, NEW d \in Dir, NEW a \in Arcs, NEW x \in Int
  PROVE  Value(d, From(d, a), x) <= Value(d, To(d, a), x + query.cost[a])
<1>1. /\ From(d, a) \in Node /\ To(d, a) \in Node /\ query.cost[a] \in Nat
      /\ Shift(d, From(d, a)) <= 2 * query.cost[a] + Shift(d, To(d, a))
      /\ RestBound(d, From(d, a)) <= query.cost[a] + RestBound(d, To(d, a))
  BY ArcFacts
<1>2. /\ Shift(d, From(d, a)) \in Int /\ RestBound(d, From(d, a)) \in Int
      /\ Shift(d, To(d, a)) \in Int /\ RestBound(d, To(d, a)) \in Int
  BY <1>1, QueryFacts
<1> DEFINE c == query.cost[a]
           s == Shift(d, From(d, a))
           t == Shift(d, To(d, a))
           q == RestBound(d, From(d, a))
           r == RestBound(d, To(d, a))
<1>3. /\ c \in Nat /\ s \in Int /\ t \in Int /\ q \in Int /\ r \in Int
      /\ s <= 2 * c + t /\ q <= c + r
  BY <1>1, <1>2
<1>4. /\ Value(d, From(d, a), x) = IF alg \in Plain THEN x ELSE IF alg = "catch" THEN x + q ELSE 2 * x + s
      /\ Value(d, To(d, a), x + c) =
           IF alg \in Plain THEN x + c ELSE IF alg = "catch" THEN (x + c) + r ELSE 2 * (x + c) + t
  BY DEF Value
<1> HIDE DEF c, s, t, q, r
<1>5. Value(d, From(d, a), x) <= Value(d, To(d, a), x + c)  BY <1>3, <1>4
<1> QED  BY <1>5 DEF c

\* The key of a label is not clamped.
LEMMA KeyIsValue ==
  ASSUME query \in Queries, Fits(query), NEW d \in Dir, LabelsOK(d), NEW v \in Labelled(d)
  PROVE  LabelKey(d, v) = Value(d, v, dist[d][v])
<1>1. /\ v \in Node /\ dist[d][v] \in Nat /\ dist[d][v] <= Longest(query)
      /\ Shift(d, v) \in Int /\ Shift(d, v) <= RestCap(query)
      /\ RestBound(d, v) \in Nat /\ RestBound(d, v) <= RestCap(query)
      /\ 2 * dist[d][v] + Shift(d, v) >= 0
  BY LabelLimits
<1>2. /\ RestCap(query) \in Nat /\ Longest(query) \in Nat
      /\ 2 * Longest(query) + RestCap(query) < MaxUint64
  BY CapFacts
<1>3. MaxUint64 \in Nat  BY WidthAssumption
<1> DEFINE x == dist[d][v]
           s == Shift(d, v)
           r == RestBound(d, v)
<1>4. /\ x \in Nat /\ s \in Int /\ r \in Nat
      /\ 2 * x + s >= 0 /\ 2 * x + s < MaxUint64 /\ x + r < MaxUint64 /\ 2 * x < MaxUint64
  BY <1>1, <1>2, <1>3
<1>5. LabelKey(d, v) = CASE alg \in Plain -> x
                         [] alg = "catch" -> saturatingAdd(x, r)
                         [] OTHER -> doubledPlusSigned(x, s)
  BY DEF LabelKey, Priority
<1>6. Value(d, v, x) = IF alg \in Plain THEN x ELSE IF alg = "catch" THEN x + r ELSE 2 * x + s
  BY DEF Value
<1> HIDE DEF x, s, r
<1>7. saturatingAdd(x, r) = x + r  BY <1>3, <1>4 DEF saturatingAdd
<1>8. doubledPlusSigned(x, s) = 2 * x + s
  <2>1. x \in Word /\ x <= MaxUint64 \div 2  BY <1>3, <1>4 DEF Word
  <2>2. ~(2 * x + s > MaxUint64) /\ (2 * x + s <= 0 => 2 * x + s = 0)  BY <1>3, <1>4
  <2> QED  BY <1>4, <2>1, <2>2, DoubledInWord
<1>9. "catch" \notin Plain  BY DEF Plain
<1>10. LabelKey(d, v) = Value(d, v, x)
  <2>1. CASE alg \in Plain  BY <1>5, <1>6, <1>9, <2>1
  <2>2. CASE alg = "catch"  BY <1>5, <1>6, <1>7, <1>9, <2>2
  <2>3. CASE alg \notin Plain /\ alg # "catch"  BY <1>5, <1>6, <1>8, <2>3
  <2> QED  BY <2>1, <2>2, <2>3
<1> QED  BY <1>10 DEF x

-----------------------------------------------------------------------------
(* The bidirectional searches in range                                     *)

LabelTypesOK ==
  /\ dist \in [Dir -> [Node -> Word]]
  /\ parent \in [Dir -> [Node -> Node \cup {NoNode}]]

\* Settling is final with every algorithm, since no key is clamped.
EdgesRelaxed ==
  \A d \in Dir : \A a \in Arcs :
    From(d, a) \in settled[d] => (d = dir /\ a \in scan) \/ dist[d][To(d, a)] <= Along(d, a)

\* The two labels of the meeting node are not above the incumbent.
MeetOK ==
  IF best = inf THEN meet = NoNode
  ELSE /\ meet \in Labelled("F") /\ meet \in Labelled("B")
       /\ dist["F"][meet] + dist["B"][meet] <= best

BiInv == LabelTypesOK /\ (\A d \in Dir : LabelsOK(d)) /\ EdgesRelaxed /\ MeetOK

\* A label along an arc of the node being scanned does not improve a settled one.
LEMMA SettledFinal ==
  ASSUME query \in Queries, Fits(query), SearchInv, \A d \in Dir : LabelsOK(d),
         NEW a \in scan, To(dir, a) \in settled[dir]
  PROVE  dist[dir][To(dir, a)] <= Along(dir, a)
<1> DEFINE d == dir
           u == From(d, a)
           v == To(d, a)
           x == Along(d, a)
<1>1. d \in Dir /\ a \in Arcs /\ u = cur  BY DEF SearchInv, SearchTypeOK
<1>2. u \in settled[d] /\ LabelKey(d, v) <= LabelKey(d, u)
  BY <1>1 DEF SearchInv, ScanLatest
<1>3. u \in Node /\ v \in Node /\ query.cost[a] \in Nat  BY <1>1, ArcFacts
<1>4. u \in Labelled(d) /\ v \in Labelled(d)
  BY <1>1, <1>2, <1>3 DEF SearchInv, QueuesCover, Labelled
<1>5. /\ LabelKey(d, u) = Value(d, u, dist[d][u])
      /\ LabelKey(d, v) = Value(d, v, dist[d][v])
  BY <1>1, <1>4, KeyIsValue
<1>6. dist[d][u] \in Int /\ dist[d][v] \in Int /\ x \in Int
  BY <1>1, <1>4, LabelLimits, AlongLimits
<1>7. Value(d, u, dist[d][u]) <= Value(d, v, x)
  BY <1>1, <1>6, ValueAlongArc DEF Along
<1> HIDE DEF d, u, v, x
<1>8. Value(d, u, dist[d][u]) \in Int /\ Value(d, v, dist[d][v]) \in Int /\ Value(d, v, x) \in Int
  BY <1>1, <1>3, <1>6, ValueFacts
<1>9. Value(d, v, dist[d][v]) <= Value(d, v, x)  BY <1>2, <1>5, <1>7, <1>8
<1>10. dist[d][v] <= x  BY <1>1, <1>3, <1>6, <1>9, ValueFacts
<1> QED  BY <1>10 DEF d, v, x

\* An arc is handed on.
LEMMA RelaxEdgeWrites ==
  ASSUME query \in Queries, Fits(query), SearchInv, BiInv, RelaxEdge
  PROVE  \E a \in scan :
           /\ dir \in Dir /\ a \in Arcs /\ From(dir, a) \in Labelled(dir)
           /\ Written(dir, a) /\ scan' = scan \ {a}
           /\ dist'[Other(dir)] = dist[Other(dir)]
           /\ parent'[Other(dir)] = parent[Other(dir)]
           /\ dist' \in [Dir -> [Node -> Word]]
           /\ parent' \in [Dir -> [Node -> Node \cup {NoNode}]]
           /\ Record(To(dir, a), Along(dir, a), dist[Other(dir)][To(dir, a)])
           /\ UNCHANGED <<query, pc, settled, dir, path, result, alg>>
<1>1. PICK a \in scan :
        LET v     == To(dir, a)
            label == dist[dir][cur] + query.cost[a]
            fits  == dist[dir][cur] <= inf - query.cost[a]
            write == fits /\ label < dist[dir][v]
        IN  /\ scan' = scan \ {a}
            /\ dist' = IF write THEN [dist EXCEPT ![dir][v] = label] ELSE dist
            /\ parent' = IF write THEN [parent EXCEPT ![dir][v] = cur] ELSE parent
            /\ IF fits THEN Record(v, label, dist[Other(dir)][v])
               ELSE UNCHANGED <<best, meet>>
  BY DEF RelaxEdge
<1> DEFINE v == To(dir, a)
           x == Along(dir, a)
<1>2. dir \in Dir /\ a \in Arcs /\ From(dir, a) = cur  BY DEF SearchInv, SearchTypeOK
<1>3. cur \in settled[dir]  BY DEF SearchInv, ScanLatest
<1>4. cur \in Node /\ v \in Node  BY <1>2, ArcFacts
<1>5. cur \in Labelled(dir)  BY <1>2, <1>3, <1>4 DEF SearchInv, QueuesCover, Labelled
<1>6. /\ x = dist[dir][cur] + query.cost[a] /\ x \in Word
      /\ dist[dir][cur] <= inf - query.cost[a]
  BY <1>2, <1>5, AlongLimits DEF BiInv, Along
<1> HIDE DEF v, x
<1>7. /\ scan' = scan \ {a}
      /\ dist' = IF x < dist[dir][v] THEN [dist EXCEPT ![dir][v] = x] ELSE dist
      /\ parent' = IF x < dist[dir][v] THEN [parent EXCEPT ![dir][v] = cur] ELSE parent
      /\ Record(v, x, dist[Other(dir)][v])
  BY <1>1, <1>6 DEF v
<1>8. LabelTypesOK  BY DEF BiInv
<1>9. Other(dir) \in Dir /\ Other(dir) # dir  BY <1>2, DirFacts
<1>10. dist' \in [Dir -> [Node -> Word]]  BY <1>2, <1>4, <1>6, <1>7, <1>8 DEF LabelTypesOK
<1>11. parent' \in [Dir -> [Node -> Node \cup {NoNode}]]
  BY <1>2, <1>4, <1>7, <1>8 DEF LabelTypesOK
<1>12. dist'[Other(dir)] = dist[Other(dir)] /\ parent'[Other(dir)] = parent[Other(dir)]
  BY <1>7, <1>8, <1>9 DEF LabelTypesOK
<1>13. Written(dir, a)
  <2>1. \A w \in Node : dist'[dir][w] = IF w = v /\ x < dist[dir][w] THEN x ELSE dist[dir][w]
    BY <1>2, <1>4, <1>7, <1>8 DEF LabelTypesOK
  <2>2. \A w \in Node : parent'[dir][w] = IF w = v /\ x < dist[dir][w] THEN cur ELSE parent[dir][w]
    BY <1>2, <1>4, <1>7, <1>8 DEF LabelTypesOK
  <2> QED  BY <1>2, <2>1, <2>2 DEF Written, v, x
<1>14. UNCHANGED <<query, pc, settled, dir, path, result, alg>>  BY DEF RelaxEdge
<1> QED  BY <1>2, <1>5, <1>7, <1>10, <1>11, <1>12, <1>13, <1>14 DEF v, x

LEMMA RelaxEdgeInRange ==
  ASSUME query \in Queries, Fits(query), SearchInv, BiInv, RelaxEdge
  PROVE  BiInv'
<1>1. PICK a \in scan :
           /\ dir \in Dir /\ a \in Arcs /\ From(dir, a) \in Labelled(dir)
           /\ Written(dir, a) /\ scan' = scan \ {a}
           /\ dist'[Other(dir)] = dist[Other(dir)]
           /\ parent'[Other(dir)] = parent[Other(dir)]
           /\ dist' \in [Dir -> [Node -> Word]]
           /\ parent' \in [Dir -> [Node -> Node \cup {NoNode}]]
           /\ Record(To(dir, a), Along(dir, a), dist[Other(dir)][To(dir, a)])
           /\ UNCHANGED <<query, pc, settled, dir, path, result, alg>>
  BY RelaxEdgeWrites
<1>0. PICK d \in Dir : d = dir  BY <1>1
<1> DEFINE o == Other(d)
           v == To(d, a)
           x == Along(d, a)
<1>2. d = dir /\ dir' = d /\ o \in Dir /\ o # d /\ Dir = {d, o}  BY <1>0, <1>1, DirFacts
<1>3. \A c \in Dir : LabelsOK(c)  BY DEF BiInv
<1>4. /\ LabelsOK(d)'
      /\ \A w \in Node : dist'[d][w] <= dist[d][w]
      /\ dist'[d][v] <= x
      /\ dist'[d][From(d, a)] = dist[d][From(d, a)]
      /\ Labelled(d) \subseteq Labelled(d)'
  BY <1>1, <1>2, <1>3, LabelsWritten
<1>5. LabelsOK(o)' /\ Labelled(o)' = Labelled(o)  BY <1>1, <1>2, <1>3, LabelsKept
<1>6. LabelTypesOK'  BY <1>1 DEF LabelTypesOK
<1>7. v \in Node /\ x \in Nat /\ x \in Word /\ x < inf
  BY <1>1, <1>2, <1>3, ArcFacts, AlongLimits
<1>8. \A c \in Dir : \A w \in Node :
        /\ dist[c][w] \in Word /\ dist[c][w] \in Nat /\ dist[c][w] <= inf
        /\ dist'[c][w] \in Word /\ dist'[c][w] \in Nat /\ dist'[c][w] <= dist[c][w]
  <2>1. \A c \in Dir : \A w \in Node : dist[c][w] \in Word /\ dist'[c][w] \in Word
    BY <1>6 DEF BiInv, LabelTypesOK
  <2>2. \A w \in Node : dist'[o][w] = dist[o][w]  BY <1>1, <1>2
  <2>3. MaxUint64 \in Nat  BY WidthAssumption
  <2> QED  BY <1>2, <1>4, <2>1, <2>2, <2>3 DEF Word, inf
<1>9. EdgesRelaxed'
  <2> SUFFICES ASSUME NEW c \in Dir, NEW b \in Arcs, From(c, b) \in settled[c],
                      ~(c = dir /\ b \in scan')
               PROVE  dist'[c][To(c, b)] <= dist'[c][From(c, b)] + query.cost[b]
    BY <1>1 DEF EdgesRelaxed, Along, Arcs, From, To
  <2>1. From(c, b) \in Node /\ To(c, b) \in Node /\ query.cost[b] \in Nat  BY ArcFacts
  <2>2. dist'[c][From(c, b)] = dist[c][From(c, b)]
    <3>1. CASE c = o  BY <1>1, <1>2, <3>1
    <3>2. CASE c = d
      <4>1. CASE From(c, b) = v
        <5>1. dist[d][v] <= x  BY <1>1, <1>2, <1>3, <3>2, <4>1, SettledFinal
        <5>2. ~(x < dist[d][v])  BY <1>2, <1>7, <1>8, <5>1
        <5> QED  BY <1>1, <1>2, <1>7, <3>2, <4>1, <5>2 DEF Written
      <4>2. CASE From(c, b) # v  BY <1>1, <1>2, <2>1, <3>2, <4>2 DEF Written
      <4> QED  BY <4>1, <4>2
    <3> QED  BY <1>2, <3>1, <3>2
  <2>3. CASE c = d /\ b = a
    BY <1>2, <1>4, <2>2, <2>3 DEF Along
  <2>4. CASE ~(c = d /\ b = a)
    <3>1. ~(c = dir /\ b \in scan)  BY <1>1, <1>2, <2>4
    <3>2. dist[c][To(c, b)] <= dist[c][From(c, b)] + query.cost[b]
      BY <3>1 DEF BiInv, EdgesRelaxed, Along
    <3> QED  BY <1>8, <2>1, <2>2, <3>2
  <2> QED  BY <2>3, <2>4
<1>10. MeetOK'
  <2>1. "F" \in Dir /\ "B" \in Dir /\ inf' = inf /\ inf \in Nat  BY WidthAssumption DEF Dir, inf
  <2>2. \A c \in Dir : Labelled(c) \subseteq Labelled(c)'  BY <1>2, <1>4, <1>5
  <2>3. \A c \in Dir : Labelled(c) \subseteq Node  BY DEF Labelled
  <2>4. CASE x # inf /\ dist[o][v] # inf /\ x + dist[o][v] < best
    <3>1. best' = x + dist[o][v] /\ meet' = v  BY <1>1, <1>2, <2>4 DEF Record
    <3>2. dist'[d][v] <= x /\ dist'[o][v] = dist[o][v]  BY <1>1, <1>2, <1>4
    <3>3. best \in Nat /\ best <= inf
      BY WidthAssumption DEF SearchInv, SearchTypeOK, Word, inf
    <3>4. best' # inf  BY <1>2, <1>7, <1>8, <2>1, <2>4, <3>1, <3>3
    <3>5. dist'[d][v] # inf /\ dist'[o][v] # inf
      BY <1>2, <1>7, <1>8, <2>1, <2>4, <3>2
    <3>6. v \in Labelled(d)' /\ v \in Labelled(o)'  BY <1>7, <2>1, <3>5 DEF Labelled
    <3>7. dist'[d][v] + dist'[o][v] <= best'  BY <1>2, <1>7, <1>8, <3>1, <3>2
    <3>8. dist'[d][v] + dist'[o][v] = dist'["F"][v] + dist'["B"][v]
      BY <1>2, <1>7, <1>8 DEF Dir
    <3>9. v \in Labelled("F")' /\ v \in Labelled("B")'  BY <1>2, <2>1, <3>6
    <3> QED  BY <2>1, <3>1, <3>4, <3>7, <3>8, <3>9 DEF MeetOK
  <2>5. CASE ~(x # inf /\ dist[o][v] # inf /\ x + dist[o][v] < best)
    <3>1. best' = best /\ meet' = meet  BY <1>1, <1>2, <2>5 DEF Record
    <3>2. CASE best = inf  BY <2>1, <3>1, <3>2 DEF BiInv, MeetOK
    <3>3. CASE best # inf
      <4>1. /\ meet \in Labelled("F") /\ meet \in Labelled("B")
            /\ dist["F"][meet] + dist["B"][meet] <= best
        BY <3>3 DEF BiInv, MeetOK
      <4>2. meet \in Node /\ best \in Nat  BY <2>1, <2>3, <4>1 DEF SearchInv, SearchTypeOK, Word
      <4>3. dist'["F"][meet] + dist'["B"][meet] <= best  BY <1>8, <2>1, <4>1, <4>2
      <4> QED  BY <2>1, <2>2, <3>1, <3>3, <4>1, <4>3 DEF MeetOK
    <3> QED  BY <3>2, <3>3
  <2> QED  BY <2>4, <2>5
<1> QED  BY <1>2, <1>4, <1>5, <1>6, <1>9, <1>10 DEF BiInv

LEMMA TakeInRange ==
  ASSUME query \in Queries, SearchInv, SearchInv', BiInv, NEW d \in Dir, Take(d)
  PROVE  BiInv'
<1>1. PICK e \in Tops(d) :
        IF Stale(d, e)
        THEN UNCHANGED <<settled, best, meet, dir, cur, scan>>
        ELSE /\ settled' = [settled EXCEPT ![d] = @ \cup {e[1]}]
             /\ dir' = d /\ cur' = e[1]
             /\ IF ~Cut(e[2]) /\ TriedAtPop(d, e[1])
                THEN Record(e[1], e[2], dist[Other(d)][e[1]])
                ELSE UNCHANGED <<best, meet>>
             /\ scan' = IF Cut(e[2]) THEN {} ELSE Edges(d, e[1])
  BY DEF Take
<1>2. /\ UNCHANGED <<query, dist, parent, path, result, alg>> /\ scan = {}
  BY DEF Take, Searching
<1>3. \A c \in Dir : LabelsOK(c)' /\ Labelled(c)' = Labelled(c)
  BY <1>2, LabelsKept DEF BiInv
<1>4. LabelTypesOK'  BY <1>2 DEF BiInv, LabelTypesOK
<1>5. e \in queue[d] /\ SearchTypeOK /\ QueuesCover  BY DEF Tops, Visible, SearchInv
<1>6. e[1] \in Node /\ e[2] \in Word /\ e[2] \in Nat  BY <1>5, EntryFacts
<1>7. EdgesRelaxed'
  <2>1. CASE alg \in Plain
    <3>1. PlainRelaxed'  BY DEF SearchInv
    <3> QED  BY <1>2, <2>1, <3>1 DEF PlainRelaxed, EdgesRelaxed, Along
  <2>2. CASE alg \notin Plain
    <3>1. ~Cut(e[2])  BY <2>2 DEF Cut, Plain
    <3> SUFFICES ASSUME NEW c \in Dir, NEW a \in Arcs, From(c, a) \in settled'[c],
                        ~(c = dir' /\ a \in scan')
                 PROVE  dist[c][To(c, a)] <= Along(c, a)
      BY <1>2 DEF EdgesRelaxed, Along, Arcs, From, To
    <3>2. From(c, a) \in settled[c]
      <4>1. CASE Stale(d, e)  BY <1>1, <4>1
      <4>2. CASE ~Stale(d, e)
        <5>1. /\ settled' = [settled EXCEPT ![d] = @ \cup {e[1]}]
              /\ dir' = d /\ scan' = Edges(d, e[1])
          BY <1>1, <3>1, <4>2
        <5>2. ~(c = d /\ From(c, a) = e[1])  BY <5>1 DEF Edges
        <5> QED  BY <1>5, <5>1, <5>2 DEF SearchTypeOK
      <4> QED  BY <4>1, <4>2
    <3> QED  BY <1>2, <3>2 DEF BiInv, EdgesRelaxed
  <2> QED  BY <2>1, <2>2
<1>8. MeetOK'
  <2>1. CASE best' = best /\ meet' = meet
    BY <1>2, <1>3, <2>1 DEF BiInv, MeetOK, Dir, inf
  <2>2. CASE ~(best' = best /\ meet' = meet)
    <3>1. ~Stale(d, e) /\ Record(e[1], e[2], dist[Other(d)][e[1]])  BY <1>1, <2>2
    <3>2. e[2] = dist[d][e[1]]  BY <3>1 DEF Stale
    <3>3. /\ e[2] # inf /\ dist[Other(d)][e[1]] # inf /\ e[2] + dist[Other(d)][e[1]] < best
          /\ best' = e[2] + dist[Other(d)][e[1]] /\ meet' = e[1]
      BY <2>2, <3>1 DEF Record
    <3>4. Other(d) \in Dir /\ Dir = {d, Other(d)} /\ "F" \in Dir /\ "B" \in Dir /\ d # Other(d)
      BY DirFacts DEF Dir
    <3>5. e[1] \in Labelled(d) /\ e[1] \in Labelled(Other(d))
      BY <1>6, <3>2, <3>3 DEF Labelled
    <3>6. e[1] \in Labelled("F")' /\ e[1] \in Labelled("B")'  BY <1>3, <3>4, <3>5
    <3>7. dist[Other(d)][e[1]] \in Nat /\ dist[d][e[1]] \in Nat
      BY <1>5, <1>6, <3>4, LabelTypes
    <3>8. best' = dist["F"][e[1]] + dist["B"][e[1]]
      BY <3>2, <3>3, <3>4, <3>7 DEF Dir
    <3>9. best' # inf' /\ best' <= best'
      <4>1. best \in Nat /\ best <= inf /\ inf' = inf /\ inf \in Nat
        BY <1>5, WidthAssumption DEF SearchTypeOK, Word, inf
      <4> QED  BY <1>6, <3>3, <3>7, <4>1
    <3> QED  BY <1>2, <3>3, <3>6, <3>8, <3>9 DEF MeetOK
  <2> QED  BY <2>1, <2>2
<1> QED  BY <1>3, <1>4, <1>7, <1>8 DEF BiInv

\* What leaves the search alone.
LEMMA BiKept ==
  ASSUME UNCHANGED <<query, searchVars, alg>>, BiInv
  PROVE  BiInv'
<1> USE DEF searchVars
<1>1. \A d \in Dir : LabelsOK(d)' /\ Labelled(d)' = Labelled(d)
  BY LabelsKept DEF BiInv
<1>2. LabelTypesOK'  BY DEF BiInv, LabelTypesOK
<1>3. EdgesRelaxed'  BY DEF BiInv, EdgesRelaxed, Along, Arcs, From, To
<1>4. MeetOK'  BY <1>1 DEF BiInv, MeetOK, Dir, inf
<1> QED  BY <1>1, <1>2, <1>3, <1>4 DEF BiInv

\* What a call finds.
Blank ==
  /\ \A d \in Dir : \A v \in Node : dist[d][v] = inf
  /\ best = inf /\ meet = NoNode /\ scan = {} /\ settled = [d \in Dir |-> {}]
  /\ path = <<>> /\ heap = <<>>

\* A root with label 0, and no other label.
LEMMA RootLabelled ==
  ASSUME query \in Queries, Fits(query), UNCHANGED query, NEW d \in Dir,
         \A v \in Node : dist'[d][v] = IF v = Root(d) THEN 0 ELSE inf,
         \A v \in Node : parent'[d][v] \in Node \cup {NoNode}
  PROVE  LabelsOK(d)' /\ Labelled(d)' = {Root(d)}
<1>1. Root(d) \in Node /\ Root(d)' = Root(d) /\ Shift(d, Root(d))' = Shift(d, Root(d))
  BY QueryFacts DEF Root, Shift
<1>2. inf \in Nat \ {0} /\ inf' = inf /\ 0 \in Word /\ inf \in Word
  BY WidthAssumption DEF inf, Word
<1>3. Labelled(d)' = {Root(d)}  BY <1>1, <1>2 DEF Labelled
<1>4. LabelTyped(d)'  BY <1>2 DEF LabelTyped, Word
<1>5. LabelCap(d)' \in Nat
  <2>1. Cardinality({Root(d)}) = 1  BY FS_Singleton
  <2>2. LabelCap(d)' = ArcCap(query) * 1  BY <1>3, <2>1 DEF LabelCap
  <2>3. ArcCap(query) \in Nat  BY CapFacts
  <2> QED  BY <2>2, <2>3
<1>6. Shift(d, Root(d)) = 0
  <2>1. query.phi[query.src] \in Int /\ query.phi[query.dst] \in Int
    BY QueryFacts DEF IsQuery
  <2> QED  BY <2>1 DEF Shift, Root, Dir
<1>7. dist'[d][Root(d)] = 0  BY <1>1
<1>8. LabelsCapped(d)'
  <2>1. ASSUME NEW v \in Labelled(d)'
        PROVE  dist'[d][v] <= LabelCap(d)' /\ 2 * dist'[d][v] + Shift(d, v)' >= 0
    <3>1. v = Root(d) /\ dist'[d][v] = 0 /\ Shift(d, v)' = 0  BY <1>1, <1>3, <1>6, <1>7, <2>1
    <3> QED  BY <1>5, <3>1
  <2> QED  BY <2>1 DEF LabelsCapped
<1>9. ParentsReach(d)'  BY <1>1, <1>3 DEF ParentsReach
<1> QED  BY <1>1, <1>3, <1>4, <1>7, <1>8, <1>9 DEF LabelsOK

LEMMA EnterInRange ==
  ASSUME query \in Queries, Fits(query), LabelTypesOK, Blank, Enter
  PROVE  BiInv'
<1>1. /\ dist' = [d \in Dir |-> [dist[d] EXCEPT ![Root(d)] = 0]]
      /\ UNCHANGED <<query, parent, settled, best, meet, scan>>
  BY DEF Enter, Begin
<1>2. \A d \in Dir : \A v \in Node : dist'[d][v] = IF v = Root(d) THEN 0 ELSE inf
  BY <1>1 DEF LabelTypesOK, Blank
<1>3. 0 \in Word  BY WidthAssumption DEF Word
<1>4. \A d \in Dir : [dist[d] EXCEPT ![Root(d)] = 0] \in [Node -> Word]
  BY <1>3 DEF LabelTypesOK
<1>5. LabelTypesOK'  BY <1>1, <1>4 DEF LabelTypesOK
<1>6. \A d \in Dir : LabelsOK(d)'
  <2>1. \A d \in Dir : \A v \in Node : parent'[d][v] \in Node \cup {NoNode}
    BY <1>1 DEF LabelTypesOK
  <2> QED  BY <1>1, <1>2, <2>1, RootLabelled
<1>7. EdgesRelaxed'  BY <1>1 DEF EdgesRelaxed, Blank
<1>8. MeetOK'  BY <1>1 DEF MeetOK, Blank, inf
<1> QED  BY <1>5, <1>6, <1>7, <1>8 DEF BiInv

-----------------------------------------------------------------------------
(* The incumbent on which a search stops                                   *)

LEMMA InSearch ==
  ASSUME query \in Queries, Fits(query), SearchInv, BiInv
  PROVE  /\ best \in Nat /\ best <= inf /\ inf \in Nat
         /\ \A d \in Dir : Root(d) \in Labelled(d) /\ dist[d][Root(d)] = 0
         /\ \A d \in Dir : \A v \in Labelled(d) :
              v \in Node /\ dist[d][v] \in Nat /\ dist[d][v] < inf
         /\ \A d \in Dir : settled[d] \subseteq Labelled(d)
         /\ \A v \in Labelled("F") \cap Labelled("B") : best <= dist["F"][v] + dist["B"][v]
<1>1. inf \in Nat /\ best \in Nat /\ best <= inf
  BY WidthAssumption DEF SearchInv, SearchTypeOK, Word, inf
<1>2. \A d \in Dir : Root(d) \in Labelled(d) /\ dist[d][Root(d)] = 0
  BY DEF BiInv, LabelsOK
<1>3. \A d \in Dir : \A v \in Labelled(d) : v \in Node /\ dist[d][v] \in Nat /\ dist[d][v] < inf
  BY LabelLimits DEF BiInv
<1>4. \A d \in Dir : settled[d] \subseteq Labelled(d)
  BY DEF SearchInv, SearchTypeOK, QueuesCover, Labelled
<1>5. \A v \in Labelled("F") \cap Labelled("B") : best <= dist["F"][v] + dist["B"][v]
  BY DEF SearchInv, ConnectionsTried, Labelled
<1> QED  BY <1>1, <1>2, <1>3, <1>4, <1>5

\* Between two pops every arc of a settled node has handed its label on.
LEMMA SettledArc ==
  ASSUME query \in Queries, Fits(query), SearchInv, BiInv, scan = {},
         NEW d \in Dir, NEW a \in Arcs, From(d, a) \in settled[d]
  PROVE  To(d, a) \in Labelled(d) /\ dist[d][To(d, a)] <= dist[d][From(d, a)] + query.cost[a]
<1>1. dist[d][To(d, a)] <= Along(d, a)  BY DEF BiInv, EdgesRelaxed
<1>2. From(d, a) \in Labelled(d)  BY InSearch
<1>3. Along(d, a) \in Nat /\ Along(d, a) < inf  BY <1>2, AlongLimits DEF BiInv
<1>4. To(d, a) \in Node /\ dist[d][To(d, a)] \in Nat /\ inf \in Nat
  BY ArcFacts, LabelTypes, InSearch DEF SearchInv
<1>5. dist[d][To(d, a)] # inf  BY <1>1, <1>3, <1>4
<1> QED  BY <1>1, <1>4, <1>5 DEF Along, Labelled

\* The key of a queue's front divides the settled nodes from the open ones.
LEMMA FrontBetween ==
  ASSUME query \in Queries, Fits(query), SearchInv, BiInv, NEW d \in Dir, Visible(d) # {}
  PROVE  /\ MinKey(d) \in Nat
         /\ \A v \in Labelled(d) \ settled[d] : MinKey(d) <= Value(d, v, dist[d][v])
         /\ \A v \in settled[d] : Value(d, v, dist[d][v]) <= MinKey(d)
<1>1. SearchTypeOK /\ QueuesCover /\ QueuesMonotone  BY DEF SearchInv
<1>2. LabelsOK(d)  BY DEF BiInv
<1>3. /\ MinKey(d) \in Nat
      /\ \E e \in Tops(d) : MinKey(d) = EntryKey(d, e)
      /\ \A e \in Visible(d) : MinKey(d) <= EntryKey(d, e)
  BY <1>1, LeastEntry
<1>4. ASSUME NEW v \in Labelled(d) \ settled[d] PROVE MinKey(d) <= Value(d, v, dist[d][v])
  <2>1. v \in Node /\ dist[d][v] # inf  BY DEF Labelled
  <2> DEFINE e == <<v, dist[d][v]>>
  <2>2. e \in queue[d]  BY <1>1, <1>4, <2>1 DEF QueuesCover
  <2>3. ~Stale(d, e)  BY <1>4 DEF Stale
  <2>4. e \in Visible(d)  BY <2>2, <2>3 DEF Visible
  <2>5. EntryKey(d, e) = LabelKey(d, v)  BY DEF EntryKey, LabelKey
  <2> HIDE DEF e
  <2>6. MinKey(d) <= LabelKey(d, v)  BY <1>3, <2>4, <2>5
  <2> QED  BY <1>2, <1>4, <2>6, KeyIsValue
<1>5. ASSUME NEW v \in settled[d] PROVE Value(d, v, dist[d][v]) <= MinKey(d)
  <2>1. PICK e \in Tops(d) : MinKey(d) = EntryKey(d, e)  BY <1>3
  <2>2. e \in Visible(d)  BY DEF Tops
  <2>3. LabelKey(d, v) <= EntryKey(d, e)  BY <1>1, <2>2 DEF QueuesMonotone, LabelKey
  <2>4. v \in Labelled(d)  BY InSearch
  <2> QED  BY <1>2, <2>1, <2>3, <2>4, KeyIsValue
<1> QED  BY <1>3, <1>4, <1>5

LEMMA DryCovers ==
  ASSUME query \in Queries, Fits(query), SearchInv, BiInv, NEW d \in Dir, Visible(d) = {}
  PROVE  Labelled(d) \subseteq settled[d]
<1> SUFFICES ASSUME NEW v \in Labelled(d), v \notin settled[d] PROVE FALSE  OBVIOUS
<1>1. v \in Node /\ dist[d][v] # inf  BY DEF Labelled
<1> DEFINE e == <<v, dist[d][v]>>
<1>2. e \in queue[d]  BY <1>1 DEF SearchInv, QueuesCover
<1>3. ~Stale(d, e)  BY DEF Stale
<1> QED  BY <1>2, <1>3 DEF Visible

\* A search that has exhausted one side has the cheapest walk.
LEMMA DryExact ==
  ASSUME query \in Queries, Fits(query), SearchInv, BiInv, scan = {},
         NEW d \in Dir, Visible(d) = {}, NEW c \in Nat, <<query.dst, c>> \in Walks(query)
  PROVE  best # inf /\ best <= c
<1> DEFINE Cert(v, k) == IF d = "F" THEN v \in settled["F"] /\ dist["F"][v] <= k
                         ELSE v \in settled["B"] =>
                                query.src \in settled["B"] /\ dist["B"][query.src] <= k + dist["B"][v]
           W == {x \in Arrival : Cert(x[1], x[2])}
<1>1. Labelled(d) \subseteq settled[d]  BY DryCovers
<1>2. /\ best \in Nat /\ inf \in Nat /\ "F" \in Dir /\ "B" \in Dir
      /\ query.src \in Labelled("F") /\ dist["F"][query.src] = 0
      /\ query.dst \in Labelled("B") /\ dist["B"][query.dst] = 0
      /\ \A e \in Dir : settled[e] \subseteq Labelled(e)
      /\ \A e \in Dir : \A v \in Labelled(e) : v \in Node /\ dist[e][v] \in Nat /\ dist[e][v] < inf
      /\ \A v \in Labelled("F") \cap Labelled("B") : best <= dist["F"][v] + dist["B"][v]
  BY InSearch DEF Root, Dir
<1>3. Cert(query.src, 0)  BY <1>1, <1>2
<1>4. ASSUME NEW a \in DOMAIN query.cost, NEW k \in Nat, <<a[1], k>> \in W
      PROVE  <<a[2], k + query.cost[a]>> \in W
  <2>1. a \in Arcs /\ a[1] \in Node /\ a[2] \in Node /\ query.cost[a] \in Nat
    BY <1>2, ArcFacts DEF Arcs, From, To
  <2>2. Cert(a[1], k)  BY <1>4
  <2>3. Cert(a[2], k + query.cost[a])
    <3>1. CASE d = "F"
      <4>1. a[1] \in settled["F"] /\ dist["F"][a[1]] <= k  BY <2>2, <3>1
      <4>2. a[2] \in Labelled("F") /\ dist["F"][a[2]] <= dist["F"][a[1]] + query.cost[a]
        BY <1>2, <2>1, <4>1, SettledArc DEF From, To
      <4>3. dist["F"][a[1]] \in Nat /\ dist["F"][a[2]] \in Nat  BY <1>2, <4>1, <4>2
      <4>4. dist["F"][a[2]] <= k + query.cost[a]  BY <2>1, <4>1, <4>2, <4>3
      <4> QED  BY <1>1, <3>1, <4>2, <4>4
    <3>2. CASE d = "B"
      <4> SUFFICES ASSUME a[2] \in settled["B"]
                   PROVE  /\ query.src \in settled["B"]
                          /\ dist["B"][query.src] <= (k + query.cost[a]) + dist["B"][a[2]]
        BY <3>2
      <4>1. a[1] \in Labelled("B") /\ dist["B"][a[1]] <= dist["B"][a[2]] + query.cost[a]
        BY <1>2, <2>1, SettledArc DEF From, To
      <4>2. query.src \in settled["B"] /\ dist["B"][query.src] <= k + dist["B"][a[1]]
        BY <1>1, <2>2, <3>2, <4>1
      <4>3. /\ dist["B"][a[1]] \in Nat /\ dist["B"][a[2]] \in Nat
            /\ dist["B"][query.src] \in Nat
        BY <1>2, <4>1, <4>2
      <4> QED  BY <2>1, <4>1, <4>2, <4>3
    <3> QED  BY <3>1, <3>2 DEF Dir
  <2> QED  BY <2>1, <2>3 DEF Arrival
<1>5. <<query.src, 0>> \in W  BY <1>2, <1>3 DEF Arrival
<1>6. W \in SUBSET Arrival /\ ClosedUnder(query, W)  BY <1>4, <1>5 DEF ClosedUnder
<1>7. Cert(query.dst, c)
  <2>1. <<query.dst, c>> \in W
    <3> HIDE DEF W
    <3> QED  BY <1>6 DEF Walks
  <2> QED  BY <2>1
<1>8. CASE d = "F"
  <2>1. query.dst \in settled["F"] /\ dist["F"][query.dst] <= c  BY <1>7, <1>8
  <2>2. query.dst \in Labelled("F") \cap Labelled("B")  BY <1>2, <2>1
  <2>3. best <= dist["F"][query.dst] + 0 /\ dist["F"][query.dst] \in Nat
        /\ dist["F"][query.dst] < inf
    BY <1>2, <2>2
  <2> QED  BY <1>2, <2>1, <2>3
<1>9. CASE d = "B"
  <2>1. query.src \in settled["B"] /\ dist["B"][query.src] <= c + 0  BY <1>1, <1>2, <1>7, <1>9
  <2>2. query.src \in Labelled("F") \cap Labelled("B")  BY <1>2, <2>1
  <2>3. best <= 0 + dist["B"][query.src] /\ dist["B"][query.src] \in Nat
        /\ dist["B"][query.src] < inf
    BY <1>2, <2>2
  <2> QED  BY <1>2, <2>1, <2>3
<1> QED  BY <1>8, <1>9 DEF Dir

\* The cost of a connection on the scale of the sum of two keys.
Scaled(x) == IF alg \in Plain THEN x ELSE 2 * x + (query.phi[query.dst] - query.phi[query.src])

LEMMA ScaledFacts ==
  ASSUME query \in Queries, alg # "catch"
  PROVE  /\ \A x \in Int : Scaled(x) \in Int
         /\ \A x, y \in Int : x <= y <=> Scaled(x) <= Scaled(y)
         /\ \A v \in Node : \A x, y \in Int : Value("F", v, x) + Value("B", v, y) = Scaled(x + y)
<1> DEFINE s == query.phi[query.src]
           t == query.phi[query.dst]
<1>1. s \in Int /\ t \in Int /\ \A v \in Node : query.phi[v] \in Int
  BY QueryFacts DEF IsQuery
<1>2. \A x : Scaled(x) = IF alg \in Plain THEN x ELSE 2 * x + (t - s)  BY DEF Scaled
<1>3. \A v, x : /\ Value("F", v, x) = IF alg \in Plain THEN x ELSE 2 * x + (query.phi[v] - s)
                /\ Value("B", v, x) = IF alg \in Plain THEN x ELSE 2 * x + (t - query.phi[v])
  BY DEF Value, Shift
<1> HIDE DEF s, t
<1>4. CASE alg \in Plain  BY <1>2, <1>3, <1>4
<1>5. CASE alg \notin Plain
  <2>1. \A x \in Int : Scaled(x) \in Int /\ Scaled(x) = 2 * x + (t - s)  BY <1>1, <1>2, <1>5
  <2>2. \A x \in Int : \A y \in Int : x <= y <=> Scaled(x) <= Scaled(y)
    <3> SUFFICES ASSUME NEW x \in Int, NEW y \in Int PROVE x <= y <=> Scaled(x) <= Scaled(y)
      OBVIOUS
    <3> QED  BY <1>1, <2>1
  <2>3. ASSUME NEW v \in Node, NEW x \in Int, NEW y \in Int
        PROVE  Value("F", v, x) + Value("B", v, y) = Scaled(x + y)
    <3> DEFINE p == query.phi[v]
    <3>1. p \in Int  BY <1>1
    <3>2. Value("F", v, x) = 2 * x + (p - s) /\ Value("B", v, y) = 2 * y + (t - p)
      BY <1>3, <1>5
    <3> HIDE DEF p
    <3>3. Scaled(x + y) = 2 * (x + y) + (t - s)  BY <2>1
    <3> QED  BY <1>1, <3>1, <3>2, <3>3
  <2> QED  BY <2>1, <2>2, <2>3
<1> QED  BY <1>4, <1>5

\* What is known of a walk to v of cost k when the two fronts together reach the incumbent.
Bounded(v, k) ==
  IF v \in settled["F"] THEN dist["F"][v] <= k
  ELSE /\ kF <= Value("F", v, k)
       /\ v \in Labelled("B") => Scaled(best) <= Value("F", v, k) + Value("B", v, dist["B"][v])

LEMMA BoundedAtLabel ==
  ASSUME query \in Queries, Fits(query), SearchInv, BiInv, alg # "catch",
         \A d \in Dir : Visible(d) # {},
         NEW v \in Labelled("F"), NEW k \in Nat, dist["F"][v] <= k
  PROVE  Bounded(v, k)
<1> SUFFICES ASSUME v \notin settled["F"]
             PROVE  /\ kF <= Value("F", v, k)
                    /\ v \in Labelled("B") =>
                         Scaled(best) <= Value("F", v, k) + Value("B", v, dist["B"][v])
  BY DEF Bounded
<1> DEFINE x == dist["F"][v]
<1>1. /\ best \in Nat /\ "F" \in Dir /\ "B" \in Dir
      /\ v \in Node /\ x \in Nat
      /\ v \in Labelled("B") => dist["B"][v] \in Nat /\ best <= x + dist["B"][v]
  BY InSearch DEF Dir
<1>2. kF \in Nat /\ kF <= Value("F", v, x)  BY <1>1, FrontBetween DEF kF
<1>3. Value("F", v, x) <= Value("F", v, k) /\ Value("F", v, x) \in Int /\ Value("F", v, k) \in Int
  BY <1>1, ValueFacts
<1>4. kF <= Value("F", v, k)  BY <1>2, <1>3
<1>5. ASSUME v \in Labelled("B")
      PROVE  Scaled(best) <= Value("F", v, k) + Value("B", v, dist["B"][v])
  <2> DEFINE y == dist["B"][v]
  <2>1. y \in Nat /\ best <= x + y  BY <1>1, <1>5
  <2> HIDE DEF x, y
  <2>2. best <= k + y  BY <1>1, <2>1 DEF x
  <2>3. Scaled(best) <= Scaled(k + y)  BY <1>1, <2>1, <2>2, ScaledFacts
  <2>4. Value("F", v, k) + Value("B", v, y) = Scaled(k + y)  BY <1>1, <2>1, ScaledFacts
  <2>5. Scaled(best) <= Value("F", v, k) + Value("B", v, y)  BY <2>3, <2>4
  <2> QED  BY <2>5 DEF y
<1> QED  BY <1>4, <1>5

LEMMA BoundedAlongArc ==
  ASSUME query \in Queries, Fits(query), SearchInv, BiInv, scan = {}, alg # "catch",
         \A d \in Dir : Visible(d) # {}, Scaled(best) <= kF + kB,
         NEW a \in Arcs, NEW k \in Nat, Bounded(a[1], k)
  PROVE  Bounded(a[2], k + query.cost[a])
<1> DEFINE u == a[1]
           v == a[2]
           j == k + query.cost[a]
<1>1. /\ u \in Node /\ v \in Node /\ query.cost[a] \in Nat /\ j \in Nat /\ best \in Nat
      /\ "F" \in Dir /\ "B" \in Dir
      /\ From("F", a) = u /\ To("F", a) = v /\ From("B", a) = v /\ To("B", a) = u
      /\ \A d \in Dir : settled[d] \subseteq Labelled(d)
      /\ \A d \in Dir : \A w \in Labelled(d) : dist[d][w] \in Nat
  <2>1. "F" \in Dir /\ "B" \in Dir  BY DEF Dir
  <2>2. From("F", a) = u /\ To("F", a) = v /\ From("B", a) = v /\ To("B", a) = u
    BY DEF From, To
  <2> QED  BY <2>1, <2>2, InSearch, ArcFacts
<1>2. CASE u \in settled["F"]
  <2>1. v \in Labelled("F") /\ dist["F"][v] <= dist["F"][u] + query.cost[a]
    BY <1>1, <1>2, SettledArc
  <2>2. dist["F"][u] <= k /\ dist["F"][u] \in Nat /\ dist["F"][v] \in Nat
    BY <1>1, <1>2, <2>1 DEF Bounded
  <2>3. dist["F"][v] <= j  BY <1>1, <2>1, <2>2
  <2> QED  BY <1>1, <2>1, <2>3, BoundedAtLabel
<1>3. CASE u \notin settled["F"]
  <2>1. /\ kF <= Value("F", u, k)
        /\ u \in Labelled("B") => Scaled(best) <= Value("F", u, k) + Value("B", u, dist["B"][u])
    BY <1>3 DEF Bounded
  <2>2. Value("F", u, k) <= Value("F", v, j)  BY <1>1, ValueAlongArc
  <2>3. Value("F", u, k) \in Int /\ Value("F", v, j) \in Int /\ kF \in Nat /\ kB \in Nat
    <3>1. k \in Int /\ j \in Int  BY <1>1
    <3>2. kF \in Nat /\ kB \in Nat  BY <1>1, FrontBetween DEF kF, kB
    <3> HIDE DEF u, v, j
    <3> QED  BY <1>1, <3>1, <3>2, ValueFacts
  <2>4. kF <= Value("F", v, j)  BY <2>1, <2>2, <2>3
  <2>5. CASE v \in settled["F"]
    <3>1. Value("F", v, dist["F"][v]) <= kF  BY <1>1, <2>5, FrontBetween DEF kF
    <3>2. dist["F"][v] \in Nat  BY <1>1, <2>5
    <3>3. Value("F", v, dist["F"][v]) \in Int  BY <1>1, <3>2, ValueFacts
    <3>4. Value("F", v, dist["F"][v]) <= Value("F", v, j)  BY <2>3, <2>4, <3>1, <3>3
    <3>5. dist["F"][v] <= j
      <4> DEFINE y == dist["F"][v]
      <4>1. y \in Int /\ j \in Int /\ v \in Node /\ "F" \in Dir /\ query \in Queries
        BY <1>1, <3>2
      <4>2. Value("F", v, y) <= Value("F", v, j)  BY <3>4
      <4> HIDE DEF v, y, j
      <4>3. y <= j  BY <4>1, <4>2, ValueFacts
      <4> QED  BY <4>3 DEF y
    <3> QED  BY <2>5, <3>5 DEF Bounded
  <2>6. CASE v \notin settled["F"]
    <3>1. ASSUME v \in Labelled("B")
          PROVE  Scaled(best) <= Value("F", v, j) + Value("B", v, dist["B"][v])
      <4> DEFINE y == dist["B"][v]
      <4>1. y \in Nat  BY <1>1, <3>1
      <4>2. Value("B", v, y) \in Int /\ Scaled(best) \in Int
        <5>1. y \in Int /\ best \in Int  BY <1>1, <4>1
        <5> HIDE DEF v, y
        <5> QED  BY <1>1, <5>1, ValueFacts, ScaledFacts
      <4>3. CASE v \notin settled["B"]
        <5>1. kB <= Value("B", v, y)  BY <1>1, <3>1, <4>3, FrontBetween DEF kB
        <5> HIDE DEF y, j
        <5> QED  BY <2>3, <2>4, <4>2, <5>1 DEF y, j
      <4>4. CASE v \in settled["B"]
        <5> DEFINE z == dist["B"][u]
        <5>1. u \in Labelled("B") /\ z <= y + query.cost[a]  BY <1>1, <4>4, SettledArc
        <5>2. z \in Nat  BY <1>1, <5>1
        <5>3. Scaled(best) <= Value("F", u, k) + Value("B", u, z)  BY <2>1, <5>1
        <5>4. Value("F", u, k) + Value("B", u, z) = Scaled(k + z)  BY <1>1, <5>2, ScaledFacts
        <5>5. Value("F", v, j) + Value("B", v, y) = Scaled(j + y)  BY <1>1, <4>1, ScaledFacts
        <5>6. k + z <= j + y  BY <1>1, <4>1, <5>1, <5>2
        <5>7. /\ k + z \in Int /\ j + y \in Int
              /\ Scaled(k + z) \in Int /\ Scaled(j + y) \in Int
          BY <1>1, <4>1, <5>2, ScaledFacts
        <5>8. Scaled(k + z) <= Scaled(j + y)  BY <5>6, <5>7, ScaledFacts
        <5>9. Scaled(best) <= Scaled(j + y)  BY <4>2, <5>3, <5>4, <5>7, <5>8
        <5> QED  BY <5>5, <5>9
      <4> QED  BY <4>3, <4>4
    <3> QED  BY <2>4, <2>6, <3>1 DEF Bounded
  <2> QED  BY <2>5, <2>6
<1> QED  BY <1>2, <1>3

\* The coupled test of the searches on distances and on reduced costs.
LEMMA CoupledExact ==
  ASSUME query \in Queries, Fits(query), SearchInv, BiInv, scan = {}, alg # "catch",
         \A d \in Dir : Visible(d) # {}, Scaled(best) <= kF + kB,
         NEW c \in Nat, <<query.dst, c>> \in Walks(query)
  PROVE  best <= c
<1> DEFINE W == {x \in Arrival : Bounded(x[1], x[2])}
<1>1. /\ best \in Nat /\ "F" \in Dir /\ "B" \in Dir
      /\ query.src \in Labelled("F") /\ dist["F"][query.src] = 0 /\ query.src \in Node
      /\ query.dst \in Labelled("B") /\ dist["B"][query.dst] = 0 /\ query.dst \in Node
      /\ \A d \in Dir : settled[d] \subseteq Labelled(d)
      /\ \A v \in Labelled("F") : dist["F"][v] \in Nat
      /\ \A v \in Labelled("F") \cap Labelled("B") : best <= dist["F"][v] + dist["B"][v]
  BY InSearch DEF Root, Dir
<1>2. <<query.src, 0>> \in W  BY <1>1, BoundedAtLabel DEF Arrival
<1>3. ASSUME NEW a \in DOMAIN query.cost, NEW k \in Nat, <<a[1], k>> \in W
      PROVE  <<a[2], k + query.cost[a]>> \in W
  <2>1. a \in Arcs /\ a[2] \in Node /\ query.cost[a] \in Nat  BY <1>1, ArcFacts DEF Arcs, To
  <2>2. Bounded(a[2], k + query.cost[a])  BY <1>3, <2>1, BoundedAlongArc
  <2> QED  BY <2>1, <2>2 DEF Arrival
<1>4. W \in SUBSET Arrival /\ ClosedUnder(query, W)  BY <1>2, <1>3 DEF ClosedUnder
<1>5. Bounded(query.dst, c)
  <2>1. <<query.dst, c>> \in W
    <3> HIDE DEF W
    <3> QED  BY <1>4 DEF Walks
  <2> QED  BY <2>1
<1>6. CASE query.dst \in settled["F"]
  <2>1. dist["F"][query.dst] <= c /\ dist["F"][query.dst] \in Nat /\ best <= dist["F"][query.dst] + 0
    BY <1>1, <1>5, <1>6 DEF Bounded
  <2> QED  BY <1>1, <2>1
<1>7. CASE query.dst \notin settled["F"]
  <2>1. Scaled(best) <= Value("F", query.dst, c) + Value("B", query.dst, 0)
    BY <1>1, <1>5, <1>7 DEF Bounded
  <2>2. Value("F", query.dst, c) + Value("B", query.dst, 0) = Scaled(c + 0) /\ c + 0 = c
    BY <1>1, ScaledFacts
  <2>3. Scaled(best) <= Scaled(c)  BY <2>1, <2>2
  <2>4. best \in Int /\ c \in Int  BY <1>1
  <2> QED  BY <2>3, <2>4, ScaledFacts
<1> QED  BY <1>6, <1>7

\* CATCH stops when the frontier of the source, with the rest of the way, reaches the
\* incumbent.
LEMMA CatchExact ==
  ASSUME query \in Queries, Fits(query), SearchInv, BiInv, scan = {}, alg = "catch",
         Visible("F") # {}, best <= kF, NEW c \in Nat, <<query.dst, c>> \in Walks(query)
  PROVE  best <= c
<1> DEFINE Cert(v, k) == \/ v \in settled["F"] /\ dist["F"][v] <= k
                         \/ best <= k + RestBound("F", v)
           W == {x \in Arrival : Cert(x[1], x[2])}
<1>1. /\ best \in Nat /\ "F" \in Dir /\ "B" \in Dir
      /\ query.src \in Labelled("F") /\ dist["F"][query.src] = 0 /\ query.src \in Node
      /\ query.dst \in Labelled("B") /\ dist["B"][query.dst] = 0 /\ query.dst \in Node
      /\ settled["F"] \subseteq Labelled("F")
      /\ \A v \in Labelled("F") : v \in Node /\ dist["F"][v] \in Nat
      /\ \A v \in Labelled("F") \cap Labelled("B") : best <= dist["F"][v] + dist["B"][v]
  BY InSearch DEF Root, Dir
<1>2. \A v \in Node : RestBound("F", v) \in Nat  BY <1>1, QueryFacts
<1>3. ASSUME NEW v \in Labelled("F"), NEW k \in Nat, dist["F"][v] <= k
      PROVE  Cert(v, k)
  <2> SUFFICES ASSUME v \notin settled["F"] PROVE best <= k + RestBound("F", v)  BY <1>3
  <2>1. kF \in Nat /\ kF <= Value("F", v, dist["F"][v])  BY <1>1, FrontBetween DEF kF
  <2>2. Value("F", v, dist["F"][v]) = dist["F"][v] + RestBound("F", v)
    BY DEF Value, Plain
  <2>3. dist["F"][v] \in Nat /\ RestBound("F", v) \in Nat  BY <1>1, <1>2
  <2> QED  BY <1>1, <1>3, <2>1, <2>2, <2>3
<1>4. ASSUME NEW a \in DOMAIN query.cost, NEW k \in Nat, <<a[1], k>> \in W
      PROVE  <<a[2], k + query.cost[a]>> \in W
  <2>1. /\ a \in Arcs /\ a[1] \in Node /\ a[2] \in Node /\ query.cost[a] \in Nat
        /\ RestBound("F", a[1]) <= query.cost[a] + RestBound("F", a[2])
    BY <1>1, ArcFacts DEF Arcs, From, To
  <2>2. Cert(a[1], k)  BY <1>4
  <2>3. Cert(a[2], k + query.cost[a])
    <3>1. CASE a[1] \in settled["F"] /\ dist["F"][a[1]] <= k
      <4>1. a[2] \in Labelled("F") /\ dist["F"][a[2]] <= dist["F"][a[1]] + query.cost[a]
        BY <1>1, <2>1, <3>1, SettledArc DEF From, To
      <4>2. dist["F"][a[1]] \in Nat /\ dist["F"][a[2]] \in Nat  BY <1>1, <3>1, <4>1
      <4>3. dist["F"][a[2]] <= k + query.cost[a]  BY <2>1, <3>1, <4>1, <4>2
      <4>4. k + query.cost[a] \in Nat  BY <2>1
      <4> QED  BY <1>3, <4>1, <4>3, <4>4
    <3>2. CASE best <= k + RestBound("F", a[1])
      <4>1. RestBound("F", a[1]) \in Nat /\ RestBound("F", a[2]) \in Nat  BY <1>2, <2>1
      <4> QED  BY <1>1, <2>1, <3>2, <4>1
    <3> QED  BY <2>2, <3>1, <3>2
  <2> QED  BY <2>1, <2>3 DEF Arrival
<1>5. <<query.src, 0>> \in W  BY <1>1, <1>3 DEF Arrival
<1>6. W \in SUBSET Arrival /\ ClosedUnder(query, W)  BY <1>4, <1>5 DEF ClosedUnder
<1>7. Cert(query.dst, c)
  <2>1. <<query.dst, c>> \in W
    <3> HIDE DEF W
    <3> QED  BY <1>6 DEF Walks
  <2> QED  BY <2>1
<1>8. CASE query.dst \in settled["F"] /\ dist["F"][query.dst] <= c
  <2>1. dist["F"][query.dst] \in Nat /\ best <= dist["F"][query.dst] + 0  BY <1>1, <1>8
  <2> QED  BY <1>1, <1>8, <2>1
<1>9. CASE best <= c + RestBound("F", query.dst)
  <2>1. RestBound("F", query.dst) = 0  BY QueryFacts DEF RestBound, BoundsConsistent
  <2> QED  BY <1>1, <1>9, <2>1
<1> QED  BY <1>7, <1>8, <1>9

-----------------------------------------------------------------------------
(* Answers                                                                 *)

\* No walk to the target is cheaper than the incumbent.
Final == \A c \in Nat : <<query.dst, c>> \in Walks(query) => best # inf /\ best <= c

LEMMA FinalDistance ==
  ASSUME query \in Queries, SearchInv, Final
  PROVE  IF best = inf THEN Oracle!Distance(query) = Oracle!NoRoute
         ELSE best \in Nat /\ Oracle!Distance(query) = best
<1> DEFINE D == Oracle!Distance(query)
<1>1. IsQuery(query) /\ query.dst \in Node  BY QueryFacts DEF IsQuery
<1>2. /\ D \in Nat \cup {Oracle!NoRoute}
      /\ D \in Nat => <<query.dst, D>> \in Walks(query)
      /\ \A x \in Walks(query) : x[1] = query.dst => D \in Nat /\ D <= x[2]
  BY <1>1, BellmanExact DEF Costs, Cheapest
<1>3. best \in Nat  BY DEF SearchInv, SearchTypeOK, Word
<1>4. best # inf => <<query.dst, best>> \in Walks(query)
  <2>1. Walks(query) \in SUBSET Arrival /\ ClosedUnder(query, Walks(query))
    BY <1>1, WalksClosed
  <2> QED  BY <2>1 DEF SearchInv, RoutesReal, LabelsWalked
<1> HIDE DEF D
<1>5. D \in Nat => best # inf /\ best <= D  BY <1>2 DEF Final
<1>6. best # inf => D \in Nat /\ D <= best
  <2> SUFFICES ASSUME best # inf PROVE D \in Nat /\ D <= best  OBVIOUS
  <2> DEFINE x == <<query.dst, best>>
  <2>1. x \in Walks(query) /\ x[1] = query.dst /\ x[2] = best  BY <1>4
  <2> HIDE DEF x
  <2> QED  BY <1>2, <2>1
<1>7. CASE best = inf  BY <1>2, <1>5, <1>7 DEF D
<1>8. CASE best # inf
  <2>1. D \in Nat /\ D <= best /\ best <= D  BY <1>5, <1>6, <1>8
  <2>2. D = best  BY <1>3, <2>1
  <2> QED  BY <1>3, <1>8, <2>2 DEF D
<1> QED  BY <1>7, <1>8

\* The answer is exact, whatever bound comes with it.
Exact(r) == Answers!Correct(query, [r EXCEPT !.lower = r.distance])

LEMMA AnswersOfOracle ==
  ASSUME NEW q
  PROVE  /\ Answers!Distance(q) = Oracle!Distance(q)
         /\ Answers!NoRoute = Oracle!NoRoute
         /\ \A p : Answers!IsRoute(q, p) <=> Oracle!IsRoute(q, p)
         /\ \A p : Answers!RouteCost(q, p) = Oracle!RouteCost(q, p)
<1>1. Answers!NoRoute = Oracle!NoRoute  BY DEF Answers!NoRoute, Oracle!NoRoute
<1>2. Answers!Distance(q) = Oracle!Distance(q)
  BY DEF Answers!Distance, Oracle!Distance, Answers!DistancesFrom, Oracle!DistancesFrom,
         Answers!Extended, Oracle!Extended, Answers!Min, Oracle!Min,
         Answers!Cardinality, Oracle!Cardinality, Answers!NoRoute, Oracle!NoRoute
<1>3. \A p : Answers!IsRoute(q, p) <=> Oracle!IsRoute(q, p)
  BY DEF Answers!IsRoute, Oracle!IsRoute
<1>4. \A p : Answers!RouteCost(q, p) = Oracle!RouteCost(q, p)
  BY DEF Answers!RouteCost, Oracle!RouteCost
<1> QED  BY <1>1, <1>2, <1>3, <1>4

LEMMA ExactReplies ==
  /\ \A c, p, b :
       /\ Oracle!Distance(query) = c /\ Oracle!IsRoute(query, p)
       /\ Oracle!RouteCost(query, p) = c
       => Exact(Reply("reachable", c, p, b))
  /\ \A b : Oracle!Distance(query) = Oracle!NoRoute => Exact(Reply("unreachable", 0, <<>>, b))
  /\ Exact(Cancelled)
<1>1. ASSUME NEW c, NEW p, NEW b,
             Oracle!Distance(query) = c, Oracle!IsRoute(query, p),
             Oracle!RouteCost(query, p) = c
      PROVE  Exact(Reply("reachable", c, p, b))
  <2> DEFINE r == [Reply("reachable", c, p, b) EXCEPT !.lower = Reply("reachable", c, p, b).distance]
  <2>1. r.status = "reachable" /\ r.distance = c /\ r.path = p /\ r.lower = c  BY DEF Reply
  <2> HIDE DEF r
  <2>2. Answers!Correct(query, r)  BY <1>1, <2>1, AnswersOfOracle DEF Answers!Correct
  <2> QED  BY <2>2 DEF Exact, r
<1>2. ASSUME NEW b, Oracle!Distance(query) = Oracle!NoRoute
      PROVE  Exact(Reply("unreachable", 0, <<>>, b))
  <2> DEFINE r == [Reply("unreachable", 0, <<>>, b) EXCEPT
                     !.lower = Reply("unreachable", 0, <<>>, b).distance]
  <2>1. r.status = "unreachable" /\ r.path = <<>>  BY DEF Reply
  <2> HIDE DEF r
  <2>2. Answers!Correct(query, r)  BY <1>2, <2>1, AnswersOfOracle DEF Answers!Correct
  <2> QED  BY <2>2 DEF Exact, r
<1>3. Exact(Cancelled)
  <2> DEFINE r == [Cancelled EXCEPT !.lower = Cancelled.distance]
  <2>1. r.status = "cancelled" /\ r.path = <<>>  BY DEF Cancelled, Reply
  <2> HIDE DEF r
  <2>2. Answers!Correct(query, r)  BY <2>1 DEF Answers!Correct
  <2> QED  BY <2>2 DEF Exact, r
<1> QED  BY <1>1, <1>2, <1>3

\* The path so far is no longer than the two labels of its ends leave of the distance.
PathOK ==
  /\ best # inf /\ best = Oracle!Distance(query)
  /\ path \in Seq(Node) /\ path # <<>>
  /\ path[1] \in Labelled("F") /\ path[Len(path)] \in Labelled("B")
  /\ Spans(query, path, dist["F"][path[1]], best - dist["B"][path[Len(path)]])
  /\ pc = "right" => path[1] = query.src

\* A search that stops on the cheapest walk starts to read it off, or says rightly that
\* there is none.
LEMMA HaltInRange ==
  ASSUME query \in Queries, Fits(query), SearchInv, BiInv, Final, NEW bound, Halt(bound)
  PROVE  \/ pc' = "left" /\ PathOK' /\ result' = result
         \/ pc' = "done" /\ Exact(result')
<1>1. Conclude(bound) /\ UNCHANGED <<query, searchVars>>  BY DEF Halt
<1>2. UNCHANGED <<dist, best, meet>>  BY <1>1 DEF searchVars
<1>3. IF best = inf THEN Oracle!Distance(query) = Oracle!NoRoute
      ELSE best \in Nat /\ Oracle!Distance(query) = best
  BY FinalDistance
<1>4. CASE best = inf
  <2>1. pc' = "done" /\ result' = Reply("unreachable", 0, <<>>, 0)  BY <1>1, <1>4 DEF Conclude
  <2> QED  BY <1>3, <1>4, <2>1, ExactReplies
<1>5. CASE best # inf
  <2>1. /\ meet \in Labelled("F") /\ meet \in Labelled("B")
        /\ dist["F"][meet] + dist["B"][meet] <= best
    BY <1>5 DEF BiInv, MeetOK
  <2>2. /\ meet \in Node /\ dist["F"][meet] \in Nat /\ dist["B"][meet] \in Nat /\ best \in Nat
        /\ "F" \in Dir /\ "B" \in Dir
    BY <2>1, InSearch DEF Dir
  <2>3. meet # NoNode  BY <2>2, NodeAssumption
  <2>4. pc' = "left" /\ path' = <<meet>> /\ result' = result  BY <1>1, <1>5, <2>3 DEF Conclude
  <2>5. Spans(query, <<meet>>, dist["F"][meet], best - dist["B"][meet])
    <3>1. dist["F"][meet] <= best - dist["B"][meet] /\ best - dist["B"][meet] \in Int
      BY <2>1, <2>2
    <3> QED  BY <2>2, <3>1, SpansPoint
  <2>6. path' \in Seq(Node) /\ path' # <<>> /\ Len(path') = 1 /\ path'[1] = meet
    BY <2>2, <2>4
  <2>7. inf' = inf /\ query' = query /\ Labelled("F")' = Labelled("F")
        /\ Labelled("B")' = Labelled("B")
    BY <1>1, <1>2 DEF inf, Labelled
  <2>8. Oracle!Distance(query)' = Oracle!Distance(query)  BY <2>7
  <2>9. Spans(query, path, dist["F"][path[1]], best - dist["B"][path[Len(path)]])'
    BY <1>2, <2>4, <2>5, <2>6, <2>7
  <2>10. PathOK'  BY <1>2, <1>3, <1>5, <2>1, <2>4, <2>6, <2>7, <2>8, <2>9 DEF PathOK
  <2> QED  BY <2>4, <2>10
<1> QED  BY <1>4, <1>5

LEMMA ParentArc ==
  ASSUME query \in Queries, NEW d \in Dir, LabelsOK(d), NEW v \in Labelled(d), v # Root(d)
  PROVE  /\ parent[d][v] \in Labelled(d) /\ parent[d][v] \in Node /\ parent[d][v] # NoNode
         /\ \E a \in Arcs : /\ To(d, a) = v /\ From(d, a) = parent[d][v]
                            /\ dist[d][parent[d][v]] + query.cost[a] <= dist[d][v]
<1>1. PICK a \in Arcs :
        /\ To(d, a) = v /\ From(d, a) = parent[d][v] /\ parent[d][v] \in Labelled(d)
        /\ dist[d][parent[d][v]] + query.cost[a] <= dist[d][v]
  BY DEF LabelsOK, ParentsReach
<1>2. parent[d][v] \in Node  BY <1>1, ArcFacts
<1> QED  BY <1>1, <1>2, NodeAssumption

\* The walks over the parents of the two searches.
LEMMA WalkLeftInRange ==
  ASSUME query \in Queries, Fits(query), SearchInv, BiInv, PathOK, WalkLeft
  PROVE  pc' \in {"left", "right"} /\ PathOK' /\ result' = result
<1>1. UNCHANGED <<query, dist, best>> /\ "F" \in Dir /\ "B" \in Dir
  BY DEF WalkLeft, searchVars, Dir
<1>2. /\ best # inf /\ best = Oracle!Distance(query)
      /\ path \in Seq(Node) /\ path # <<>>
      /\ path[1] \in Labelled("F") /\ path[Len(path)] \in Labelled("B")
      /\ Spans(query, path, dist["F"][path[1]], best - dist["B"][path[Len(path)]])
  BY DEF PathOK
<1>3. inf' = inf /\ \A d \in Dir : Labelled(d)' = Labelled(d)  BY <1>1 DEF inf, Labelled
<1>4. Oracle!Distance(query)' = Oracle!Distance(query)  BY <1>1
<1> DEFINE v == path[1]
           p == parent["F"][v]
<1>5. IF v = query.src THEN pc' = "right" /\ UNCHANGED <<path, result>>
      ELSE IF p = NoNode THEN GiveUp
      ELSE path' = <<p>> \o path /\ UNCHANGED <<pc, result>>
  BY <1>2 DEF WalkLeft
<1>6. CASE v = query.src
  <2>1. pc' = "right" /\ UNCHANGED <<path, result>>  BY <1>5, <1>6
  <2>2. Spans(query, path, dist["F"][path[1]], best - dist["B"][path[Len(path)]])'
    BY <1>1, <1>2, <2>1
  <2>3. PathOK'  BY <1>1, <1>2, <1>3, <1>4, <1>6, <2>1, <2>2 DEF PathOK
  <2> QED  BY <2>1, <2>3
<1>7. CASE v # query.src
  <2>1. v # Root("F") /\ LabelsOK("F")  BY <1>1, <1>7 DEF Root, BiInv
  <2>2. /\ p \in Labelled("F") /\ p \in Node /\ p # NoNode
        /\ \E a \in Arcs : /\ To("F", a) = v /\ From("F", a) = p
                           /\ dist["F"][p] + query.cost[a] <= dist["F"][v]
    BY <1>1, <1>2, <2>1, ParentArc
  <2>3. PICK a \in Arcs : a[2] = v /\ a[1] = p /\ dist["F"][p] + query.cost[a] <= dist["F"][v]
    BY <2>2 DEF To, From
  <2>4. pc' = "left" /\ path' = <<p>> \o path /\ result' = result
    BY <1>5, <1>7, <2>2 DEF WalkLeft
  <2>5. /\ dist["F"][v] \in Int /\ dist["F"][p] \in Int
        /\ best - dist["B"][path[Len(path)]] \in Int
    BY <1>1, <1>2, <2>2, InSearch
  <2>6. IsQuery(query) /\ a \in DOMAIN query.cost  BY QueryFacts DEF Arcs
  <2>7. Spans(query, <<p>> \o path, dist["F"][p], best - dist["B"][path[Len(path)]])
    <3> DEFINE hi == best - dist["B"][path[Len(path)]]
    <3>1. Spans(query, path, dist["F"][v], hi) /\ hi \in Int  BY <1>2, <2>5
    <3> HIDE DEF hi
    <3>2. Spans(query, <<a[1]>> \o path, dist["F"][p], hi)
      BY <1>2, <2>3, <2>5, <2>6, <3>1, SpansPrepend
    <3> QED  BY <2>3, <3>2 DEF hi
  <2>8. /\ path' \in Seq(Node) /\ path' # <<>> /\ path'[1] = p
        /\ path'[Len(path')] = path[Len(path)]
    <3>1. /\ <<p>> \o path \in Seq(Node) /\ <<p>> \o path # <<>>
          /\ Len(<<p>> \o path) = Len(path) + 1 /\ Len(path) \in Nat /\ Len(path) > 0
          /\ (<<p>> \o path)[1] = p
          /\ \A i \in 2 .. Len(path) + 1 : (<<p>> \o path)[i] = path[i - 1]
      BY <1>2, <2>2, PrependFacts
    <3>2. Len(path) + 1 \in 2 .. Len(path) + 1 /\ (Len(path) + 1) - 1 = Len(path)  BY <3>1
    <3> QED  BY <2>4, <3>1, <3>2
  <2>9. Spans(query, path, dist["F"][path[1]], best - dist["B"][path[Len(path)]])'
    BY <1>1, <2>4, <2>7, <2>8
  <2>10. PathOK'  BY <1>1, <1>2, <1>3, <1>4, <2>2, <2>4, <2>8, <2>9 DEF PathOK
  <2> QED  BY <2>4, <2>10
<1> QED  BY <1>6, <1>7

LEMMA WalkRightInRange ==
  ASSUME query \in Queries, Fits(query), SearchInv, BiInv, PathOK, WalkRight
  PROVE  \/ pc' = "right" /\ PathOK' /\ result' = result
         \/ pc' = "done" /\ Exact(result')
<1>1. UNCHANGED <<query, dist, best>> /\ "F" \in Dir /\ "B" \in Dir /\ pc = "right"
  BY DEF WalkRight, searchVars, Dir
<1>2. /\ best # inf /\ best = Oracle!Distance(query)
      /\ path \in Seq(Node) /\ path # <<>>
      /\ path[1] \in Labelled("F") /\ path[Len(path)] \in Labelled("B")
      /\ Spans(query, path, dist["F"][path[1]], best - dist["B"][path[Len(path)]])
      /\ path[1] = query.src
  BY <1>1 DEF PathOK
<1>3. inf' = inf /\ \A d \in Dir : Labelled(d)' = Labelled(d)  BY <1>1 DEF inf, Labelled
<1>4. Oracle!Distance(query)' = Oracle!Distance(query)  BY <1>1
<1> DEFINE v == path[Len(path)]
           p == parent["B"][v]
<1>5. IF v = query.dst
      THEN pc' = "done" /\ result' = Reply("reachable", best, path, lower) /\ UNCHANGED path
      ELSE IF p = NoNode THEN GiveUp
      ELSE path' = Append(path, p) /\ UNCHANGED <<pc, result>>
  BY DEF WalkRight
<1>6. /\ best \in Nat /\ IsQuery(query)
      /\ dist["F"][query.src] = 0 /\ dist["B"][query.dst] = 0
  BY <1>1, InSearch, QueryFacts DEF Root
<1>7. CASE v = query.dst
  <2>1. pc' = "done" /\ result' = Reply("reachable", best, path, lower)  BY <1>5, <1>7
  <2>2. best - dist["B"][v] = best  BY <1>6, <1>7
  <2>3. Spans(query, path, 0, best)
    BY <1>2, <1>6, <2>2
  <2>4. Oracle!IsRoute(query, path) /\ Oracle!RouteCost(query, path) = best
    BY <1>2, <1>6, <1>7, <2>3, SpansRoute
  <2> QED  BY <1>2, <2>1, <2>4, ExactReplies
<1>8. CASE v # query.dst
  <2>1. v # Root("B") /\ LabelsOK("B")  BY <1>1, <1>8 DEF Root, BiInv
  <2>2. /\ p \in Labelled("B") /\ p \in Node /\ p # NoNode
        /\ \E a \in Arcs : /\ To("B", a) = v /\ From("B", a) = p
                           /\ dist["B"][p] + query.cost[a] <= dist["B"][v]
    BY <1>1, <1>2, <2>1, ParentArc
  <2>3. PICK a \in Arcs : a[1] = v /\ a[2] = p /\ dist["B"][p] + query.cost[a] <= dist["B"][v]
    BY <2>2 DEF To, From
  <2>4. pc' = "right" /\ path' = Append(path, p) /\ result' = result
    BY <1>1, <1>5, <1>8, <2>2
  <2>5. /\ dist["F"][path[1]] \in Int /\ dist["B"][v] \in Int /\ dist["B"][p] \in Int
    BY <1>1, <1>2, <2>2, InSearch
  <2>6. a \in DOMAIN query.cost /\ query.cost[a] \in Nat
    BY <1>1, ArcFacts DEF Arcs
  <2>7. Spans(query, Append(path, p), dist["F"][path[1]], best - dist["B"][p])
    <3> DEFINE lo == dist["F"][path[1]]
               hi == best - dist["B"][v]
               h == best - dist["B"][p]
    <3>1. Spans(query, path, lo, hi) /\ lo \in Int /\ hi \in Int /\ h \in Int
          /\ hi + query.cost[a] <= h
      <4>1. best \in Int /\ query.cost[a] \in Int  BY <1>6, <2>6
      <4>2. hi \in Int /\ h \in Int /\ hi + query.cost[a] <= h
        <5> DEFINE x == dist["B"][v]
                   y == dist["B"][p]
        <5>1. x \in Int /\ y \in Int /\ y + query.cost[a] <= x  BY <2>3, <2>5
        <5> HIDE DEF x, y
        <5>2. (best - x) \in Int /\ (best - y) \in Int /\ (best - x) + query.cost[a] <= best - y
          BY <4>1, <5>1
        <5> QED  BY <5>2 DEF x, y
      <4>3. lo \in Int  BY <2>5
      <4>4. Spans(query, path, lo, hi)  BY <1>2
      <4> QED  BY <4>2, <4>3, <4>4
    <3> HIDE DEF hi, h, lo
    <3>2. Spans(query, Append(path, a[2]), lo, h)
      BY <1>2, <1>6, <2>3, <2>6, <3>1, SpansAppend
    <3> QED  BY <2>3, <3>2 DEF lo, h
  <2>8. /\ path' \in Seq(Node) /\ path' # <<>> /\ path'[1] = path[1]
        /\ path'[Len(path')] = p
    <3>1. /\ Append(path, p) \in Seq(Node) /\ Append(path, p) # <<>>
          /\ Len(Append(path, p)) = Len(path) + 1 /\ Len(path) \in Nat /\ Len(path) > 0
          /\ Append(path, p)[Len(path) + 1] = p
          /\ \A i \in 1 .. Len(path) : Append(path, p)[i] = path[i]
      BY <1>2, <2>2, AppendFacts
    <3>2. 1 \in 1 .. Len(path)  BY <3>1
    <3> QED  BY <2>4, <3>1, <3>2
  <2>9. Spans(query, path, dist["F"][path[1]], best - dist["B"][path[Len(path)]])'
    BY <1>1, <2>4, <2>7, <2>8
  <2>10. PathOK'  BY <1>1, <1>2, <1>3, <1>4, <2>2, <2>4, <2>8, <2>9 DEF PathOK
  <2> QED  BY <2>4, <2>10
<1> QED  BY <1>7, <1>8

-----------------------------------------------------------------------------
(* The steps of the bidirectional searches in range                        *)

\* The g-bound, rounded down and clamped, is no more than half the sum of the fronts.
LEMMA GBoundFits ==
  ASSUME NEW a \in Nat, NEW b \in Nat, NEW s \in Int, NEW t \in Int, NEW x \in Nat, x > 0,
         reducedToOriginalLowerBound(saturatingAdd(a, b), s, t) >= x
  PROVE  2 * x + (t - s) <= a + b
<1> DEFINE m == saturatingAdd(a, b)
           h == t - s
<1>1. MaxUint64 \in Nat  BY WidthAssumption
<1>2. m \in Nat /\ m <= a + b  BY <1>1 DEF saturatingAdd
<1>3. h \in Int  OBVIOUS
<1>4. IF h < 0 THEN saturatingAdd(m, -h) \div 2 >= x
      ELSE IF h >= m THEN 0 >= x ELSE (m - h) \div 2 >= x
  BY DEF reducedToOriginalLowerBound
<1> HIDE DEF m, h
<1>5. CASE h < 0
  <2>1. saturatingAdd(m, -h) \in Nat /\ saturatingAdd(m, -h) <= m - h
    BY <1>1, <1>2, <1>3, <1>5 DEF saturatingAdd
  <2>2. saturatingAdd(m, -h) \div 2 >= x  BY <1>4, <1>5
  <2> DEFINE y == saturatingAdd(m, -h)
  <2>3. y \in Nat /\ y <= m - h /\ y \div 2 >= x  BY <2>1, <2>2
  <2> HIDE DEF y
  <2>4. 2 * x <= y  BY <2>3
  <2>5. 2 * x + h <= a + b  BY <1>2, <1>3, <2>3, <2>4
  <2> QED  BY <2>5 DEF h
<1>6. CASE h >= 0
  <2>1. h < m /\ (m - h) \div 2 >= x  BY <1>2, <1>3, <1>4, <1>6
  <2>2. 2 * x <= m - h  BY <1>2, <1>3, <1>6, <2>1
  <2>3. 2 * x + h <= a + b  BY <1>2, <1>3, <2>2
  <2> QED  BY <2>3 DEF h
<1> QED  BY <1>3, <1>5, <1>6

LEMMA DryFinal ==
  ASSUME query \in Queries, Fits(query), SearchInv, BiInv, scan = {}, ~RunsOn
  PROVE  Final
<1>1. PICK d \in Dir : Visible(d) = {}  BY DEF RunsOn, Dir
<1> QED  BY <1>1, DryExact DEF Final

LEMMA PlainFinal ==
  ASSUME query \in Queries, Fits(query), SearchInv, BiInv, Running, scan = {}, RunsOn,
         alg \in Plain, best # inf, ~(kF + kB < best)
  PROVE  Final
<1>1. alg # "catch" /\ \A d \in Dir : Visible(d) # {}  BY DEF Plain, RunsOn
<1>2. kF \in Nat /\ kB \in Nat /\ best \in Nat
  BY FrontiersFit, InSearch DEF kF, kB, Dir
<1>3. Scaled(best) <= kF + kB  BY <1>2 DEF Scaled
<1> QED  BY <1>1, <1>3, CoupledExact DEF Final

LEMMA ReducedFinal ==
  ASSUME query \in Queries, Fits(query), SearchInv, BiInv, scan = {}, RunsOn,
         alg \in Reduced, best # inf, GBound >= best
  PROVE  Final
<1>1. alg # "catch" /\ alg \notin Plain /\ \A d \in Dir : Visible(d) # {}
  BY DEF Reduced, Plain, RunsOn
<1>2. kF \in Nat /\ kB \in Nat /\ best \in Nat
  BY <1>1, FrontBetween, InSearch DEF kF, kB, Dir
<1>3. query.phi[query.src] \in Int /\ query.phi[query.dst] \in Int  BY QueryFacts DEF IsQuery
<1>4. CASE best = 0
  <2>1. \A c \in Nat : best <= c  BY <1>4
  <2> QED  BY <2>1 DEF Final
<1>5. CASE best # 0
  <2>1. best > 0  BY <1>2, <1>5
  <2>2. reducedToOriginalLowerBound(saturatingAdd(kF, kB), query.phi[query.src], query.phi[query.dst])
          >= best
    BY DEF GBound
  <2>3. 2 * best + (query.phi[query.dst] - query.phi[query.src]) <= kF + kB
    BY <1>2, <1>3, <2>1, <2>2, GBoundFits
  <2>4. Scaled(best) <= kF + kB  BY <1>1, <2>3 DEF Scaled
  <2> QED  BY <1>1, <2>4, CoupledExact DEF Final
<1> QED  BY <1>4, <1>5

\* One step of a search, which stops only on the cheapest walk.
Turns ==
  \/ Trivial \/ Enter \/ RelaxEdge \/ Walk
  \/ Final /\ \E bound : Halt(bound)
  \/ \E d \in Dir : Take(d)

LEMMA StepTurns ==
  ASSUME query \in Queries, Fits(query), SearchInv, Running /\ pc # "done" => BiInv, Step
  PROVE  alg \in Baseline /\ Turns
<1>1. alg \in Baseline  BY StepMoves
<1>2. ASSUME Searching PROVE Running /\ scan = {} /\ BiInv
  BY <1>1, <1>2 DEF SearchInv, Untouched, Searching
<1>3. ASSUME NEW bound, ~RunsOn, Halt(bound) PROVE Turns
  <2>1. Searching  BY <1>3 DEF Halt
  <2> QED  BY <1>2, <1>3, <2>1, DryFinal DEF Turns
<1>4. \A bound : Halt(bound) => Searching  BY DEF Halt
<1>5. CASE bidirectionalDijkstra
  <2>1. alg \in Plain  BY <1>5 DEF bidirectionalDijkstra, Plain
  <2>2. Search(kF <= kB, kF <= best /\ kB <= best /\ kF >= best - kB, 0)
    BY <1>5 DEF bidirectionalDijkstra
  <2>3. ASSUME RunsOn, best # inf, kF <= best /\ kB <= best /\ kF >= best - kB, Halt(0)
        PROVE  Final
    BY <1>2, <1>4, <2>1, <2>3, PlainTests, PlainFinal
  <2> QED  BY <1>1, <1>3, <2>2, <2>3 DEF Search, Turns, Dir
<1>6. CASE meetSearch
  <2>1. alg \in Plain  BY <1>6 DEF meetSearch, Plain
  <2>2. Search(kF < kB \/ (kF = kB /\ turn = "F"), kF >= Wrapped(best - kB), 0)
    BY <1>6 DEF meetSearch
  <2>3. ASSUME RunsOn, best # inf, kF >= Wrapped(best - kB), Halt(0) PROVE Final
    BY <1>2, <1>4, <2>1, <2>3, PlainTests, PlainFinal
  <2> QED  BY <1>1, <1>3, <2>2, <2>3 DEF Search, Turns, Dir
<1>7. CASE pbSearch
  <2>1. alg \in Plain  BY <1>7 DEF pbSearch, Plain
  <2>2. Search(turn = "F", kF >= Wrapped(best - kB), 0)  BY <1>7 DEF pbSearch
  <2>3. ASSUME RunsOn, best # inf, kF >= Wrapped(best - kB), Halt(0) PROVE Final
    BY <1>2, <1>4, <2>1, <2>3, PlainTests, PlainFinal
  <2> QED  BY <1>1, <1>3, <2>2, <2>3 DEF Search, Turns, Dir
<1>8. CASE catchRun
  <2>1. /\ alg = "catch"
        /\ Search(Visible("B") = {} \/ (Visible("F") # {} /\ kF <= kB),
                  bothQueued /\ best <= kF /\ best <= kB, kF)
    BY <1>8 DEF catchRun
  <2>2. ASSUME best # inf, bothQueued, best <= kF, Halt(kF) PROVE Final
    <3>1. Visible("F") # {}  BY <2>2 DEF bothQueued, Dir
    <3> QED  BY <1>2, <1>4, <2>1, <2>2, <3>1, CatchExact DEF Final
  <2> QED  BY <1>1, <1>3, <2>1, <2>2 DEF Search, Turns, Dir
<1>9. CASE multiBoundRun
  <2>1. /\ alg \in Reduced
        /\ Search(IF alg = "multibound" THEN kF <= kB ELSE turn = "B", GBound >= best, GBound)
    BY <1>9 DEF multiBoundRun
  <2>2. ASSUME RunsOn, best # inf, GBound >= best, Halt(GBound) PROVE Final
    BY <1>2, <1>4, <2>1, <2>2, ReducedFinal
  <2> QED  BY <1>1, <1>3, <2>1, <2>2 DEF Search, Turns, Dir
<1> QED  BY <1>5, <1>6, <1>7, <1>8, <1>9 DEF Step

-----------------------------------------------------------------------------
(* A bidirectional search in range, from call to answer                    *)

\* Source and target are the same node.
LEMMA TrivialExact ==
  ASSUME query \in Queries, query.src = query.dst, NEW b
  PROVE  /\ Oracle!Distance(query) = 0
         /\ Oracle!IsRoute(query, <<query.src>>) /\ Oracle!RouteCost(query, <<query.src>>) = 0
         /\ Exact(Reply("reachable", 0, <<query.src>>, b))
<1>1. IsQuery(query) /\ query.src \in Node  BY QueryFacts DEF IsQuery
<1>2. <<query.src, 0>> \in Walks(query)  BY <1>1, WalksClosed DEF ClosedUnder
<1>3. Oracle!Distance(query) \in Nat /\ Oracle!Distance(query) <= 0
  <2> DEFINE x == <<query.src, 0>>
  <2>1. x \in Walks(query) /\ x[1] = query.dst /\ x[2] = 0  BY <1>2
  <2> HIDE DEF x
  <2> QED  BY <1>1, <2>1, BellmanExact
<1>4. Oracle!Distance(query) = 0  BY <1>3
<1>5. Spans(query, <<query.src>>, 0, 0)  BY SpansPoint
<1>6. /\ <<query.src>> \in Seq(Node) /\ <<query.src>> # <<>> /\ Len(<<query.src>>) = 1
      /\ <<query.src>>[1] = query.src /\ <<query.src>>[1] = query.dst
  BY <1>1
<1>7. Oracle!IsRoute(query, <<query.src>>) /\ Oracle!RouteCost(query, <<query.src>>) = 0
  <2> DEFINE p == <<query.src>>
  <2>1. /\ p \in Seq(Node) /\ p # <<>> /\ p[1] = query.src /\ p[Len(p)] = query.dst
        /\ Spans(query, p, 0, Oracle!Distance(query)) /\ Oracle!Distance(query) \in Nat
    BY <1>4, <1>5, <1>6
  <2> HIDE DEF p
  <2>2. Oracle!IsRoute(query, p) /\ Oracle!RouteCost(query, p) = Oracle!Distance(query)
    BY <1>1, <2>1, SpansRoute
  <2> QED  BY <1>4, <2>2 DEF p
<1> QED  BY <1>4, <1>7, ExactReplies

\* What holds of a bidirectional search in range.
BiState ==
  /\ pc = "start" => Blank
  /\ Running /\ pc # "done" => BiInv
  /\ pc \in {"left", "right"} => PathOK

LEMMA StepInRange ==
  ASSUME query \in Queries, Fits(query), SearchInv, SearchInv', LabelTypesOK, BiState, Step
  PROVE  BiState' /\ LabelTypesOK' /\ (result' = result \/ (pc' = "done" /\ Exact(result')))
<1>1. alg \in Baseline /\ Turns  BY StepTurns DEF BiState
<1>2. pc \notin {"start", "done"} => Running  BY DEF SearchInv, Untouched
<1>3. CASE Trivial
  <2>1. /\ pc' = "done" /\ query.src = query.dst /\ UNCHANGED <<dist, parent>>
        /\ result' = Reply("reachable", 0, <<query.src>>, 0)
    BY <1>3 DEF Trivial, AnswerTrivial, searchVars
  <2> QED  BY <2>1, TrivialExact DEF BiState, LabelTypesOK
<1>4. CASE Enter
  <2>1. pc = "start" /\ pc' = "search" /\ result' = result  BY <1>4 DEF Enter, Begin
  <2>2. BiInv'  BY <1>4, <2>1, EnterInRange DEF BiState
  <2> QED  BY <2>1, <2>2 DEF BiState, BiInv
<1>5. CASE RelaxEdge
  <2>1. pc = "search" /\ pc' = "search" /\ result' = result  BY <1>5 DEF RelaxEdge
  <2>2. BiInv  BY <1>2, <2>1 DEF BiState
  <2>3. BiInv'  BY <1>5, <2>2, RelaxEdgeInRange
  <2> QED  BY <2>1, <2>3 DEF BiState, BiInv
<1>6. CASE Walk
  <2>1. pc \in {"left", "right"} /\ UNCHANGED <<query, searchVars, alg>>
    BY <1>6 DEF Walk, WalkLeft, WalkRight
  <2>2. BiInv /\ PathOK  BY <1>2, <2>1 DEF BiState
  <2>3. BiInv'  BY <2>1, <2>2, BiKept
  <2>4. CASE WalkLeft
    <3>1. pc' \in {"left", "right"} /\ PathOK' /\ result' = result
      BY <2>2, <2>4, WalkLeftInRange
    <3> QED  BY <2>3, <3>1 DEF BiState, BiInv
  <2>5. CASE WalkRight
    <3>1. \/ pc' = "right" /\ PathOK' /\ result' = result
          \/ pc' = "done" /\ Exact(result')
      BY <2>2, <2>5, WalkRightInRange
    <3> QED  BY <2>3, <3>1 DEF BiState, BiInv
  <2> QED  BY <1>6, <2>4, <2>5 DEF Walk
<1>7. ASSUME Final, NEW bound, Halt(bound) PROVE BiState' /\ LabelTypesOK'
             /\ (result' = result \/ (pc' = "done" /\ Exact(result')))
  <2>1. pc = "search" /\ UNCHANGED <<query, searchVars, alg>>  BY <1>7 DEF Halt, Searching
  <2>2. BiInv  BY <1>2, <2>1 DEF BiState
  <2>3. BiInv'  BY <2>1, <2>2, BiKept
  <2>4. \/ pc' = "left" /\ PathOK' /\ result' = result
        \/ pc' = "done" /\ Exact(result')
    BY <1>7, <2>2, HaltInRange
  <2> QED  BY <2>3, <2>4 DEF BiState, BiInv
<1>8. ASSUME NEW d \in Dir, Take(d) PROVE BiState' /\ LabelTypesOK' /\ result' = result
  <2>1. pc = "search" /\ pc' = "search" /\ result' = result  BY <1>8 DEF Take, Searching
  <2>2. BiInv  BY <1>2, <2>1 DEF BiState
  <2>3. BiInv'  BY <1>8, <2>2, TakeInRange
  <2> QED  BY <2>1, <2>3 DEF BiState, BiInv
<1> QED  BY <1>1, <1>3, <1>4, <1>5, <1>6, <1>7, <1>8 DEF Turns

-----------------------------------------------------------------------------
(* Dijkstra's algorithm and A* in range                                    *)

\* Labels are the costs of walks.
LabelsReal == \A v \in Labelled("F") : <<v, dist["F"][v]>> \in Walks(query)

\* An item of the queue: a label that its node has or had.
IsEntry(e) ==
  /\ e.node \in Node /\ e.distance \in Nat /\ e.distance < inf
  /\ e = Item(e.node, e.distance)
  /\ dist["F"][e.node] <= e.distance

Items == [node : Node, distance : Nat, priority : Nat]

HeapOK == heap \in Seq(Items) /\ HeapOrdered(heap) /\ \A e \in Held(heap) : IsEntry(e)

Queued(v) == \E e \in Held(heap) : e.node = v /\ e.distance = dist["F"][v]
HandedOn(v) == \A a \in Edges("F", v) : a \in scan \/ dist["F"][a[2]] <= Along("F", a)

\* A label is in the queue or has been handed on.
LabelsCovered == \A v \in Labelled("F") : Queued(v) \/ HandedOn(v)

ScanTyped ==
  /\ scan \subseteq Edges("F", cur)
  /\ scan # {} => pc = "search" /\ cur \in Labelled("F")

\* The path so far, back from the target, is no longer than the label of its first node
\* leaves of the distance.
RouteOK ==
  /\ Oracle!Distance(query) \in Nat /\ dist["F"][query.dst] = Oracle!Distance(query)
  /\ path \in Seq(Node) /\ path # <<>>
  /\ path[1] \in Labelled("F") /\ path[Len(path)] = query.dst
  /\ Spans(query, path, dist["F"][path[1]], Oracle!Distance(query))

SingleInv ==
  /\ LabelsOK("F") /\ LabelsReal /\ ScanTyped
  /\ pc = "search" => HeapOK /\ LabelsCovered
  /\ pc = "left" => RouteOK

LEMMA HeuristicFacts ==
  ASSUME query \in Queries
  PROVE  /\ \A v \in Node : heuristic(v) \in Nat
         /\ heuristic(query.dst) = 0
         /\ \A a \in Arcs : heuristic(a[1]) <= query.cost[a] + heuristic(a[2])
<1>1. /\ \A v \in Node : query.toDst[v] \in Nat
      /\ query.toDst[query.dst] = 0
  BY QueryFacts DEF IsQuery, BoundsConsistent
<1>2. \A a \in Arcs : query.toDst[a[1]] <= query.cost[a] + query.toDst[a[2]] /\ query.cost[a] \in Nat
  BY QueryFacts DEF BoundsConsistent, IsQuery, Arcs
<1>3. CASE alg = "astar" /\ geometry  BY <1>1, <1>2, <1>3 DEF heuristic
<1>4. CASE ~(alg = "astar" /\ geometry)
  <2>1. \A v : heuristic(v) = 0  BY <1>4 DEF heuristic
  <2> QED  BY <1>2, <2>1
<1> QED  BY <1>3, <1>4

LEMMA SaturatingSum ==
  ASSUME NEW a \in Nat, NEW b \in Nat
  PROVE  /\ saturatingAdd(a, b) \in Nat /\ saturatingAdd(a, b) <= a + b
         /\ a < inf => saturatingAdd(a, 0) = a
BY WidthAssumption DEF saturatingAdd, inf

LEMMA ItemFacts ==
  ASSUME query \in Queries, NEW v \in Node, NEW x \in Nat
  PROVE  /\ Item(v, x) \in Items /\ Ranked(Item(v, x))
         /\ Item(v, x).node = v /\ Item(v, x).distance = x
         /\ Item(v, x).priority = saturatingAdd(x, heuristic(v))
         /\ Item(v, x).priority <= x + heuristic(v)
<1>1. heuristic(v) \in Nat  BY HeuristicFacts
<1>2. saturatingAdd(x, heuristic(v)) \in Nat
      /\ saturatingAdd(x, heuristic(v)) <= x + heuristic(v)
  BY <1>1, SaturatingSum
<1> QED  BY <1>2 DEF Item, Items, Ranked

LEMMA InSingle ==
  ASSUME query \in Queries, Fits(query), SingleInv
  PROVE  /\ "F" \in Dir /\ inf \in Nat /\ query.src \in Node /\ query.dst \in Node
         /\ query.src \in Labelled("F") /\ dist["F"][query.src] = 0
         /\ \A v \in Labelled("F") : v \in Node /\ dist["F"][v] \in Nat /\ dist["F"][v] < inf
         /\ \A v \in Node : dist["F"][v] \in Nat
         /\ \A a \in Arcs : a[1] \in Node /\ a[2] \in Node /\ query.cost[a] \in Nat
<1>1. "F" \in Dir /\ LabelsOK("F")  BY DEF Dir, SingleInv
<1>2. query.src \in Node /\ query.dst \in Node  BY QueryFacts DEF IsQuery
<1>3. query.src \in Labelled("F") /\ dist["F"][query.src] = 0
  BY <1>1 DEF LabelsOK, Root
<1>4. \A v \in Labelled("F") : v \in Node /\ dist["F"][v] \in Nat /\ dist["F"][v] < inf
  BY <1>1, LabelLimits
<1>5. \A v \in Node : dist["F"][v] \in Nat  BY <1>1 DEF LabelsOK, LabelTyped, Word
<1>6. \A a \in Arcs : a[1] \in Node /\ a[2] \in Node /\ query.cost[a] \in Nat
  BY <1>1, ArcFacts DEF From, To
<1> QED  BY <1>1, <1>2, <1>3, <1>4, <1>5, <1>6, WidthAssumption DEF inf

\* An arc that has handed a label on leads to a label.
LEMMA HandedArc ==
  ASSUME query \in Queries, Fits(query), SingleInv, scan = {},
         NEW a \in Arcs, a[1] \in Labelled("F"), HandedOn(a[1])
  PROVE  a[2] \in Labelled("F") /\ dist["F"][a[2]] <= dist["F"][a[1]] + query.cost[a]
<1>1. a \in Edges("F", a[1]) /\ From("F", a) = a[1]  BY DEF Edges, From
<1>2. dist["F"][a[2]] <= Along("F", a)  BY <1>1 DEF HandedOn
<1>3. Along("F", a) \in Nat /\ Along("F", a) < inf
  BY <1>1, InSingle, AlongLimits DEF SingleInv
<1>4. a[2] \in Node /\ dist["F"][a[2]] \in Nat /\ inf \in Nat  BY InSingle
<1>5. dist["F"][a[2]] # inf  BY <1>2, <1>3, <1>4
<1> QED  BY <1>1, <1>2, <1>4, <1>5 DEF Along, Labelled

\* The label with which the target leaves the queue is the cost of the cheapest walk,
\* although nodes may yet be reopened.
LEMMA TopExact ==
  ASSUME query \in Queries, Fits(query), SingleInv, pc = "search", scan = {}, heap # <<>>,
         heap[1].node = query.dst, heap[1].distance = dist["F"][query.dst],
         NEW c \in Nat, <<query.dst, c>> \in Walks(query)
  PROVE  query.dst \in Labelled("F") /\ dist["F"][query.dst] <= c
<1> DEFINE D == dist["F"][query.dst]
           Cert(v, k) == \/ v \in Labelled("F") /\ dist["F"][v] <= k /\ HandedOn(v)
                         \/ D <= k + heuristic(v)
           W == {x \in Arrival : Cert(x[1], x[2])}
<1>1. /\ "F" \in Dir /\ inf \in Nat /\ query.src \in Node /\ query.dst \in Node
      /\ query.src \in Labelled("F") /\ dist["F"][query.src] = 0
      /\ \A v \in Labelled("F") : v \in Node /\ dist["F"][v] \in Nat /\ dist["F"][v] < inf
      /\ \A v \in Node : dist["F"][v] \in Nat
      /\ \A a \in Arcs : a[1] \in Node /\ a[2] \in Node /\ query.cost[a] \in Nat
  BY InSingle
<1>2. /\ Len(heap) \in Nat /\ Len(heap) > 0 /\ HeapOrdered(heap)
      /\ \A i \in 1 .. Len(heap) : IsEntry(heap[i])
  BY DEF SingleInv, HeapOK, Held
<1>3. D \in Nat /\ D < inf /\ query.dst \in Labelled("F")
  <2>1. IsEntry(heap[1])  BY <1>2
  <2> QED  BY <1>1, <2>1 DEF IsEntry, Labelled
<1>4. /\ \A v \in Node : heuristic(v) \in Nat
      /\ heuristic(query.dst) = 0
      /\ \A a \in Arcs : heuristic(a[1]) <= query.cost[a] + heuristic(a[2])
  BY HeuristicFacts
<1>5. heap[1].priority = D
  <2>1. heap[1] = Item(query.dst, D)  BY <1>2 DEF IsEntry
  <2> HIDE DEF D
  <2>2. Item(query.dst, D).priority = saturatingAdd(D, heuristic(query.dst))
    BY <1>1, <1>3, ItemFacts
  <2>3. heap[1].priority = saturatingAdd(D, 0)  BY <1>4, <2>1, <2>2
  <2> QED  BY <1>3, <2>3, SaturatingSum
<1>6. ASSUME NEW v \in Labelled("F"), NEW k \in Nat, dist["F"][v] <= k
      PROVE  Cert(v, k)
  <2>1. CASE HandedOn(v)  BY <1>6, <2>1
  <2>2. CASE Queued(v)
    <3>1. PICK i \in 1 .. Len(heap) : heap[i].node = v /\ heap[i].distance = dist["F"][v]
      BY <2>2 DEF Queued, Held
    <3>2. D <= heap[i].priority  BY <1>2, <1>5, <3>1, HeapTop
    <3>3. heap[i] = Item(v, dist["F"][v])  BY <1>2, <3>1 DEF IsEntry
    <3>4. v \in Node /\ dist["F"][v] \in Nat /\ heuristic(v) \in Nat  BY <1>1, <1>4
    <3>5. heap[i].priority <= dist["F"][v] + heuristic(v) /\ heap[i].priority \in Nat
      BY <3>3, <3>4, ItemFacts DEF Ranked
    <3>6. D <= k + heuristic(v)
      <4> HIDE DEF D
      <4> QED  BY <1>3, <1>6, <3>2, <3>4, <3>5
    <3> QED  BY <3>6
  <2> QED  BY <2>1, <2>2 DEF SingleInv, LabelsCovered
<1>7. ASSUME NEW a \in DOMAIN query.cost, NEW k \in Nat, <<a[1], k>> \in W
      PROVE  <<a[2], k + query.cost[a]>> \in W
  <2>1. /\ a \in Arcs /\ a[1] \in Node /\ a[2] \in Node /\ query.cost[a] \in Nat
        /\ heuristic(a[1]) <= query.cost[a] + heuristic(a[2])
        /\ heuristic(a[1]) \in Nat /\ heuristic(a[2]) \in Nat
    BY <1>1, <1>4 DEF Arcs
  <2>2. Cert(a[1], k)  BY <1>7
  <2>3. Cert(a[2], k + query.cost[a])
    <3>1. CASE a[1] \in Labelled("F") /\ dist["F"][a[1]] <= k /\ HandedOn(a[1])
      <4>1. a[2] \in Labelled("F") /\ dist["F"][a[2]] <= dist["F"][a[1]] + query.cost[a]
        BY <2>1, <3>1, HandedArc
      <4>2. dist["F"][a[1]] \in Nat /\ dist["F"][a[2]] \in Nat  BY <1>1, <2>1
      <4>3. dist["F"][a[2]] <= k + query.cost[a] /\ k + query.cost[a] \in Nat
        BY <2>1, <3>1, <4>1, <4>2
      <4> QED  BY <1>6, <4>1, <4>3
    <3>2. CASE D <= k + heuristic(a[1])
      <4>1. D <= (k + query.cost[a]) + heuristic(a[2])
        <5> HIDE DEF D
        <5> QED  BY <1>3, <2>1, <3>2
      <4> QED  BY <4>1
    <3> QED  BY <2>2, <3>1, <3>2
  <2> QED  BY <2>1, <2>3 DEF Arrival
<1>8. <<query.src, 0>> \in W  BY <1>1, <1>6 DEF Arrival
<1>9. W \in SUBSET Arrival /\ ClosedUnder(query, W)  BY <1>7, <1>8 DEF ClosedUnder
<1>10. Cert(query.dst, c)
  <2>1. <<query.dst, c>> \in W
    <3> HIDE DEF W
    <3> QED  BY <1>9 DEF Walks
  <2> QED  BY <2>1
<1> QED  BY <1>3, <1>4, <1>10

\* A queue that has run dry has handed every label on.
LEMMA EmptyExact ==
  ASSUME query \in Queries, Fits(query), SingleInv, pc = "search", scan = {}, heap = <<>>,
         NEW c \in Nat, <<query.dst, c>> \in Walks(query)
  PROVE  query.dst \in Labelled("F") /\ dist["F"][query.dst] <= c
<1> DEFINE W == {x \in Arrival : x[1] \in Labelled("F") /\ dist["F"][x[1]] <= x[2]}
<1>1. Held(heap) = {}  BY DEF Held
<1>2. \A v \in Labelled("F") : HandedOn(v)  BY <1>1 DEF SingleInv, LabelsCovered, Queued
<1>3. <<query.src, 0>> \in W  BY InSingle DEF Arrival
<1>4. ASSUME NEW a \in DOMAIN query.cost, NEW k \in Nat, <<a[1], k>> \in W
      PROVE  <<a[2], k + query.cost[a]>> \in W
  <2>1. a \in Arcs /\ a[1] \in Node /\ a[2] \in Node /\ query.cost[a] \in Nat
    BY InSingle DEF Arcs
  <2>2. a[1] \in Labelled("F") /\ dist["F"][a[1]] <= k  BY <1>4
  <2>3. a[2] \in Labelled("F") /\ dist["F"][a[2]] <= dist["F"][a[1]] + query.cost[a]
    BY <1>2, <2>1, <2>2, HandedArc
  <2>4. dist["F"][a[1]] \in Nat /\ dist["F"][a[2]] \in Nat  BY <2>1, InSingle
  <2>5. dist["F"][a[2]] <= k + query.cost[a]  BY <2>1, <2>2, <2>3, <2>4
  <2> QED  BY <2>1, <2>3, <2>5 DEF Arrival
<1>5. W \in SUBSET Arrival /\ ClosedUnder(query, W)  BY <1>3, <1>4 DEF ClosedUnder
<1>6. <<query.dst, c>> \in W
  <2> HIDE DEF W
  <2> QED  BY <1>5 DEF Walks
<1> QED  BY <1>6

\* The distance follows from the label of the target when no walk is cheaper.
LEMMA TargetDistance ==
  ASSUME query \in Queries, Fits(query), SingleInv,
         \A c \in Nat : <<query.dst, c>> \in Walks(query) =>
           query.dst \in Labelled("F") /\ dist["F"][query.dst] <= c
  PROVE  IF dist["F"][query.dst] = inf THEN Oracle!Distance(query) = Oracle!NoRoute
         ELSE Oracle!Distance(query) \in Nat /\ Oracle!Distance(query) = dist["F"][query.dst]
<1> DEFINE D == Oracle!Distance(query)
           x == dist["F"][query.dst]
<1>1. IsQuery(query) /\ query.dst \in Node /\ x \in Nat  BY InSingle, QueryFacts
<1>2. /\ D \in Nat \cup {Oracle!NoRoute}
      /\ D \in Nat => <<query.dst, D>> \in Walks(query)
      /\ \A w \in Walks(query) : w[1] = query.dst => D \in Nat /\ D <= w[2]
  BY <1>1, BellmanExact DEF Costs, Cheapest
<1>3. D \in Nat => x # inf /\ x <= D  BY <1>2 DEF Labelled
<1>4. x # inf => D \in Nat /\ D <= x
  <2> SUFFICES ASSUME x # inf PROVE D \in Nat /\ D <= x  OBVIOUS
  <2>1. <<query.dst, x>> \in Walks(query)  BY <1>1 DEF SingleInv, LabelsReal, Labelled
  <2> DEFINE w == <<query.dst, x>>
  <2>2. w \in Walks(query) /\ w[1] = query.dst /\ w[2] = x  BY <2>1
  <2> HIDE DEF w, D, x
  <2> QED  BY <1>2, <2>2
<1> HIDE DEF D, x
<1>5. CASE x = inf  BY <1>2, <1>3, <1>5 DEF D, x
<1>6. CASE x # inf
  <2>1. D \in Nat /\ D <= x /\ x <= D  BY <1>3, <1>4, <1>6
  <2>2. D = x  BY <1>1, <2>1
  <2> QED  BY <1>6, <2>1, <2>2 DEF D, x
<1> QED  BY <1>5, <1>6

LEMMA LeaveInRange ==
  ASSUME query \in Queries, Fits(query), SingleInv, Leave, UNCHANGED <<query, dist>>,
         \A c \in Nat : <<query.dst, c>> \in Walks(query) =>
           query.dst \in Labelled("F") /\ dist["F"][query.dst] <= c
  PROVE  \/ pc' = "left" /\ RouteOK' /\ result' = result
         \/ pc' = "done" /\ Exact(result')
<1> DEFINE D == Oracle!Distance(query)
           x == dist["F"][query.dst]
<1>1. IF x = inf THEN D = Oracle!NoRoute ELSE D \in Nat /\ D = x
  BY TargetDistance
<1>2. CASE x = inf
  <2>1. pc' = "done" /\ result' = Reply("unreachable", 0, <<>>, 0)  BY <1>2 DEF Leave
  <2> QED  BY <1>1, <1>2, <2>1, ExactReplies
<1>3. CASE x # inf
  <2>1. pc' = "left" /\ path' = <<query.dst>> /\ result' = result  BY <1>3 DEF Leave
  <2>2. query.dst \in Node /\ query.dst \in Labelled("F")  BY <1>3, InSingle DEF Labelled
  <2>3. /\ path' \in Seq(Node) /\ path' # <<>> /\ Len(path') = 1 /\ path'[1] = query.dst
        /\ path'[Len(path')] = query.dst
    BY <2>1, <2>2
  <2>4. Spans(query, <<query.dst>>, x, D)
    <3>1. x \in Int /\ D \in Int /\ x <= D  BY <1>1, <1>3
    <3> HIDE DEF x, D
    <3> QED  BY <3>1, SpansPoint
  <2>5. /\ Oracle!Distance(query)' = D /\ query' = query /\ Labelled("F")' = Labelled("F")
        /\ dist'["F"][path'[1]] = x
    BY <2>3 DEF Labelled, inf
  <2>6. Spans(query, path, dist["F"][path[1]], Oracle!Distance(query))'
    BY <2>1, <2>4, <2>5
  <2>7. RouteOK'  BY <1>1, <1>3, <2>2, <2>3, <2>5, <2>6 DEF RouteOK
  <2> QED  BY <2>1, <2>7
<1> QED  BY <1>2, <1>3

LEMMA Walk1InRange ==
  ASSUME query \in Queries, Fits(query), SingleInv, RouteOK, Walk1
  PROVE  \/ pc' = "left" /\ RouteOK' /\ result' = result
         \/ pc' = "done" /\ Exact(result')
<1>1. UNCHANGED <<query, dist>> /\ pc = "left" /\ IsQuery(query)
  BY QueryFacts DEF Walk1, searchVars
<1>2. /\ Oracle!Distance(query) \in Nat /\ dist["F"][query.dst] = Oracle!Distance(query)
      /\ path \in Seq(Node) /\ path # <<>>
      /\ path[1] \in Labelled("F") /\ path[Len(path)] = query.dst
      /\ Spans(query, path, dist["F"][path[1]], Oracle!Distance(query))
  BY DEF RouteOK
<1>3. Labelled("F")' = Labelled("F") /\ Oracle!Distance(query)' = Oracle!Distance(query)
  BY <1>1 DEF inf, Labelled
<1>4. "F" \in Dir /\ LabelsOK("F") /\ dist["F"][query.src] = 0
      /\ \A v \in Labelled("F") : v \in Node /\ dist["F"][v] \in Nat
  BY InSingle DEF SingleInv
<1> DEFINE v == path[1]
           p == parent["F"][v]
<1>5. IF v = query.src
      THEN pc' = "done" /\ result' = Reply("reachable", dist["F"][query.dst], path, 0)
      ELSE p # NoNode => path' = <<p>> \o path /\ UNCHANGED <<pc, result>>
  BY <1>2 DEF Walk1
<1>6. CASE v = query.src
  <2>1. pc' = "done" /\ result' = Reply("reachable", Oracle!Distance(query), path, 0)
    BY <1>2, <1>5, <1>6
  <2>2. Spans(query, path, 0, Oracle!Distance(query))  BY <1>2, <1>4, <1>6
  <2>3. Oracle!IsRoute(query, path) /\ Oracle!RouteCost(query, path) = Oracle!Distance(query)
    BY <1>1, <1>2, <1>6, <2>2, SpansRoute
  <2> QED  BY <2>1, <2>3, ExactReplies
<1>7. CASE v # query.src
  <2>1. v # Root("F")  BY <1>7 DEF Root
  <2>2. /\ p \in Labelled("F") /\ p \in Node /\ p # NoNode
        /\ \E a \in Arcs : /\ To("F", a) = v /\ From("F", a) = p
                           /\ dist["F"][p] + query.cost[a] <= dist["F"][v]
    BY <1>2, <1>4, <2>1, ParentArc
  <2>3. PICK a \in Arcs : a[2] = v /\ a[1] = p /\ dist["F"][p] + query.cost[a] <= dist["F"][v]
    BY <2>2 DEF To, From
  <2>4. pc' = "left" /\ path' = <<p>> \o path /\ result' = result  BY <1>1, <1>5, <1>7, <2>2
  <2>5. dist["F"][v] \in Int /\ dist["F"][p] \in Int /\ a \in DOMAIN query.cost
    BY <1>2, <1>4, <2>2 DEF Arcs
  <2>6. Spans(query, <<p>> \o path, dist["F"][p], Oracle!Distance(query))
    <3> DEFINE hi == Oracle!Distance(query)
    <3>1. Spans(query, path, dist["F"][v], hi) /\ hi \in Int  BY <1>2
    <3> HIDE DEF hi
    <3>2. Spans(query, <<a[1]>> \o path, dist["F"][p], hi)
      BY <1>1, <1>2, <2>3, <2>5, <3>1, SpansPrepend
    <3> QED  BY <2>3, <3>2 DEF hi
  <2>7. /\ path' \in Seq(Node) /\ path' # <<>> /\ path'[1] = p
        /\ path'[Len(path')] = path[Len(path)]
    <3>1. /\ <<p>> \o path \in Seq(Node) /\ <<p>> \o path # <<>>
          /\ Len(<<p>> \o path) = Len(path) + 1 /\ Len(path) \in Nat /\ Len(path) > 0
          /\ (<<p>> \o path)[1] = p
          /\ \A i \in 2 .. Len(path) + 1 : (<<p>> \o path)[i] = path[i - 1]
      BY <1>2, <2>2, PrependFacts
    <3>2. Len(path) + 1 \in 2 .. Len(path) + 1 /\ (Len(path) + 1) - 1 = Len(path)  BY <3>1
    <3> QED  BY <2>4, <3>1, <3>2
  <2>8. Spans(query, path, dist["F"][path[1]], Oracle!Distance(query))'
    BY <1>1, <1>3, <2>4, <2>6, <2>7
  <2>9. RouteOK'  BY <1>1, <1>2, <1>3, <2>2, <2>7, <2>8 DEF RouteOK
  <2> QED  BY <2>4, <2>9
<1> QED  BY <1>6, <1>7

\* Once the loop is left the queue does not matter.
LEMMA SingleKept ==
  ASSUME SingleInv, UNCHANGED <<query, dist, parent, scan, cur>>,
         scan = {}, pc' # "search", pc' = "left" => RouteOK'
  PROVE  SingleInv'
<1>1. LabelsOK("F")' /\ Labelled("F")' = Labelled("F")
  <2>1. "F" \in Dir  BY DEF Dir
  <2> QED  BY <2>1, LabelsKept DEF SingleInv
<1>2. LabelsReal'  BY <1>1 DEF SingleInv, LabelsReal, Walks, ClosedUnder
<1>3. ScanTyped'  BY DEF ScanTyped
<1> QED  BY <1>1, <1>2, <1>3 DEF SingleInv

\* An item is queued; nothing else is lost.
LEMMA Pushed ==
  ASSUME query \in Queries, HeapOK, NEW v \in Node, NEW x \in Nat,
         NEW h, h = push(heap, Item(v, x))
  PROVE  /\ h \in Seq(Items) /\ HeapOrdered(h)
         /\ Held(h) = Held(heap) \cup {Item(v, x)}
<1>1. heap \in Seq(Items) /\ HeapOrdered(heap) /\ Len(heap) \in Nat  BY DEF HeapOK
<1>2. Item(v, x) \in Items /\ Ranked(Item(v, x))  BY ItemFacts
<1>3. /\ h \in Seq(Held(heap) \cup {Item(v, x)}) /\ HeapOrdered(h)
      /\ Held(h) = Held(heap) \cup {Item(v, x)}
  BY <1>1, <1>2, PushFacts
<1>4. Held(heap) \cup {Item(v, x)} \subseteq Items  BY <1>1, <1>2 DEF Held
<1>5. h \in Seq(Items)
  <2> DEFINE S == Held(heap) \cup {Item(v, x)}
  <2>1. h \in Seq(S) /\ S \subseteq Items  BY <1>3, <1>4
  <2> HIDE DEF S
  <2> QED  BY <2>1
<1> QED  BY <1>3, <1>5

\* An item leaves the queue; nothing else is lost.
LEMMA Popped ==
  ASSUME HeapOK, heap # <<>>
  PROVE  /\ pop(heap) \in Seq(Items) /\ HeapOrdered(pop(heap))
         /\ Held(pop(heap)) \subseteq Held(heap)
         /\ Held(heap) \subseteq Held(pop(heap)) \cup {heap[1]}
         /\ heap[1] \in Held(heap) /\ IsEntry(heap[1])
<1>1. heap \in Seq(Items) /\ HeapOrdered(heap) /\ Len(heap) \in Nat /\ Len(heap) > 0
  BY DEF HeapOK
<1>2. Len(heap) - 1 \in Nat /\ Len(heap) = (Len(heap) - 1) + 1  BY <1>1
<1>3. /\ pop(heap) \in Seq(Held(heap)) /\ HeapOrdered(pop(heap))
      /\ Held(pop(heap)) \subseteq Held(heap)
      /\ Held(heap) \subseteq Held(pop(heap)) \cup {heap[1]}
  BY <1>1, <1>2, PopFacts
<1>4. Held(heap) \subseteq Items /\ heap[1] \in Held(heap)  BY <1>1 DEF Held
<1>5. pop(heap) \in Seq(Items)
  <2> DEFINE S == Held(heap)
  <2>1. pop(heap) \in Seq(S) /\ S \subseteq Items  BY <1>3, <1>4
  <2> HIDE DEF S
  <2> QED  BY <2>1
<1> QED  BY <1>3, <1>4, <1>5 DEF HeapOK

LEMMA Open1InRange ==
  ASSUME query \in Queries, Fits(query), LabelTypesOK, Blank, Open1
  PROVE  SingleInv' /\ LabelTypesOK' /\ pc' = "search" /\ result' = result
<1>1. /\ dist' = [dist EXCEPT !["F"][query.src] = 0]
      /\ heap' = push(heap, Item(query.src, 0)) /\ pc' = "search"
      /\ UNCHANGED <<query, parent, cur, scan, result, alg, geometry>>
  BY DEF Open1
<1>2. query.src \in Node /\ Root("F") = query.src /\ "F" \in Dir /\ IsQuery(query)
  BY QueryFacts DEF IsQuery, Root, Dir
<1>3. 0 \in Word /\ inf \in Nat /\ 0 < inf  BY WidthAssumption DEF Word, inf
<1>4. /\ \A v \in Node : dist'["F"][v] = IF v = query.src THEN 0 ELSE inf
      /\ LabelTypesOK'
  BY <1>1, <1>2, <1>3 DEF LabelTypesOK, Blank
<1>5. LabelsOK("F")' /\ Labelled("F")' = {query.src} /\ dist'["F"][query.src] = 0
  <2>1. \A v \in Node : parent'["F"][v] \in Node \cup {NoNode}
    BY <1>1, <1>2 DEF LabelTypesOK
  <2> QED  BY <1>1, <1>2, <1>4, <2>1, RootLabelled
<1>6. LabelsReal'
  <2>1. <<query.src, 0>> \in Walks(query)  BY <1>2, WalksClosed DEF ClosedUnder
  <2>2. Walks(query)' = Walks(query)  BY <1>1 DEF Walks, ClosedUnder
  <2> QED  BY <1>1, <1>5, <2>1, <2>2 DEF LabelsReal
<1>7. HeapOK /\ Held(heap) = {}  BY DEF Blank, HeapOK, HeapOrdered, Held
<1>8. heap' \in Seq(Items) /\ HeapOrdered(heap') /\ Held(heap') = {Item(query.src, 0)}
  <2> DEFINE h == heap'
  <2>1. h = push(heap, Item(query.src, 0)) /\ 0 \in Nat  BY <1>1
  <2> HIDE DEF h
  <2>2. h \in Seq(Items) /\ HeapOrdered(h) /\ Held(h) = Held(heap) \cup {Item(query.src, 0)}
    BY <1>2, <1>7, <2>1, Pushed
  <2> QED  BY <1>7, <2>2 DEF h
<1>9. Item(query.src, 0)' = Item(query.src, 0)  BY <1>1 DEF Item, heuristic
<1>10. Item(query.src, 0).node = query.src /\ Item(query.src, 0).distance = 0
  BY DEF Item
<1>11. IsEntry(Item(query.src, 0))'
  <2> DEFINE e == Item(query.src, 0)
  <2>1. e.node = query.src /\ e.distance = 0 /\ Item(e.node, e.distance)' = e
    BY <1>1, <1>10 DEF Item, heuristic
  <2>2. e' = e /\ inf' = inf  BY <1>9 DEF inf
  <2> HIDE DEF e
  <2>3. IsEntry(e)'  BY <1>2, <1>3, <1>5, <2>1, <2>2 DEF IsEntry
  <2> QED  BY <2>3 DEF e
<1>12. HeapOK'
  <2>1. HeapOrdered(heap)' /\ Held(heap)' = {Item(query.src, 0)}
    BY <1>8 DEF HeapOrdered, Held
  <2>2. \A e \in Held(heap)' : IsEntry(e)'  BY <1>9, <1>11, <2>1
  <2>3. (heap \in Seq(Items))'  BY <1>8 DEF Items
  <2> QED  BY <2>1, <2>2, <2>3 DEF HeapOK
<1>13. LabelsCovered'
  <2>1. Queued(query.src)'
    <3>1. Item(query.src, 0) \in Held(heap)'  BY <1>8 DEF Held
    <3> QED  BY <1>1, <1>5, <1>10, <3>1 DEF Queued
  <2> QED  BY <1>1, <1>5, <2>1 DEF LabelsCovered
<1>14. ScanTyped'
  <2>1. scan' = {}  BY <1>1 DEF Blank
  <2> QED  BY <2>1 DEF ScanTyped
<1> QED  BY <1>1, <1>4, <1>5, <1>6, <1>12, <1>13, <1>14 DEF SingleInv
\* An improved label is queued, every other one keeps its item or its relaxed arcs.
LEMMA Relax1InRange ==
  ASSUME query \in Queries, Fits(query), LabelTypesOK, SingleInv, Relax1
  PROVE  SingleInv' /\ LabelTypesOK' /\ pc' = "search" /\ result' = result
<1>1. pc = "search" /\ pc' = "search"
      /\ UNCHANGED <<query, cur, result, alg, geometry>>
  BY DEF Relax1
<1>2. PICK a \in scan :
        LET label == dist["F"][cur] + query.cost[a]
            write == label <= inf /\ label < dist["F"][a[2]]
        IN  /\ scan' = scan \ {a}
            /\ dist' = IF write THEN [dist EXCEPT !["F"][a[2]] = label] ELSE dist
            /\ parent' = IF write THEN [parent EXCEPT !["F"][a[2]] = cur] ELSE parent
            /\ heap' = IF write THEN push(heap, Item(a[2], label)) ELSE heap
  BY DEF Relax1
<1>3. /\ a \in Arcs /\ From("F", a) = cur /\ To("F", a) = a[2] /\ a[1] = cur
      /\ cur \in Labelled("F") /\ "F" \in Dir /\ LabelsOK("F")
      /\ HeapOK /\ LabelsCovered
  BY <1>1, <1>2 DEF SingleInv, ScanTyped, Edges, From, To, Dir
<1> DEFINE v == a[2]
           x == Along("F", a)
           write == x < dist["F"][v]
<1>4. /\ query.cost[a] \in Nat /\ x \in Nat /\ x < inf /\ x \in Word
      /\ x = dist["F"][cur] + query.cost[a] /\ v \in Node /\ cur \in Node
      /\ inf \in Nat /\ IsQuery(query)
  <2>1. a[2] \in Node /\ cur \in Node /\ inf \in Nat  BY <1>3, InSingle
  <2> QED  BY <1>3, <2>1, AlongLimits, QueryFacts DEF Along
<1>5. /\ scan' = scan \ {a}
      /\ dist' = IF write THEN [dist EXCEPT !["F"][v] = x] ELSE dist
      /\ parent' = IF write THEN [parent EXCEPT !["F"][v] = cur] ELSE parent
      /\ heap' = IF write THEN push(heap, Item(v, x)) ELSE heap
  <2> HIDE DEF x
  <2>1. dist["F"][cur] + query.cost[a] = x /\ x <= inf  BY <1>4
  <2> QED  BY <1>2, <2>1
<1>6. LabelTypesOK' /\ Written("F", a)
  <2> HIDE DEF x
  <2>1. LabelTypesOK'  BY <1>3, <1>4, <1>5 DEF LabelTypesOK
  <2>2. ASSUME NEW w \in Node
        PROVE  /\ dist'["F"][w] = IF w = v /\ write THEN x ELSE dist["F"][w]
               /\ parent'["F"][w] = IF w = v /\ write THEN cur ELSE parent["F"][w]
    BY <1>3, <1>4, <1>5 DEF LabelTypesOK
  <2>3. Written("F", a)
    <3>1. ASSUME NEW w \in Node
          PROVE  /\ dist'["F"][w] = IF w = v /\ Along("F", a) < dist["F"][w]
                                    THEN Along("F", a) ELSE dist["F"][w]
                 /\ parent'["F"][w] = IF w = v /\ Along("F", a) < dist["F"][w]
                                      THEN cur ELSE parent["F"][w]
      BY <2>2 DEF x
    <3> QED  BY <1>3, <3>1 DEF Written
  <2> QED  BY <2>1, <2>3
<1>7. /\ LabelsOK("F")'
      /\ \A w \in Node : dist'["F"][w] <= dist["F"][w]
      /\ dist'["F"][v] <= x
      /\ dist'["F"][cur] = dist["F"][cur]
  BY <1>1, <1>3, <1>6, LabelsWritten
<1>8. \A w \in Node : dist'["F"][w] = IF w = v /\ write THEN x ELSE dist["F"][w]
  BY <1>3, <1>6 DEF Written
<1>9. \A w \in Node : dist["F"][w] \in Nat /\ dist'["F"][w] \in Nat
  BY <1>3, <1>7 DEF LabelsOK, LabelTyped, Word
<1> HIDE DEF x
<1>10. LabelsReal'
  <2>1. Walks(query)' = Walks(query)  BY <1>1 DEF Walks, ClosedUnder
  <2>2. ASSUME NEW w \in Labelled("F")' PROVE <<w, dist'["F"][w]>> \in Walks(query)
    <3>1. w \in Node /\ dist'["F"][w] # inf  BY <2>2 DEF Labelled, inf
    <3>2. CASE w = v /\ write
      <4>1. <<a[1], dist["F"][cur]>> \in Walks(query) /\ dist["F"][cur] \in Nat
        BY <1>3, <1>4, <1>9 DEF SingleInv, LabelsReal
      <4>2. <<a[2], dist["F"][cur] + query.cost[a]>> \in Walks(query)
        BY <1>3, <1>4, <4>1, WalksClosed DEF ClosedUnder, Arcs
      <4> QED  BY <1>4, <1>8, <3>1, <3>2, <4>2
    <3>3. CASE ~(w = v /\ write)
      <4>1. dist'["F"][w] = dist["F"][w] /\ w \in Labelled("F")
        BY <1>8, <3>1, <3>3 DEF Labelled
      <4> QED  BY <4>1 DEF SingleInv, LabelsReal
    <3> QED  BY <3>2, <3>3
  <2> QED  BY <2>1, <2>2 DEF LabelsReal
<1>11. \A w, y : Item(w, y)' = Item(w', y')  BY <1>1 DEF Item, heuristic
<1>12. /\ heap' \in Seq(Items) /\ HeapOrdered(heap')
       /\ Held(heap') = IF write THEN Held(heap) \cup {Item(v, x)} ELSE Held(heap)
  <2>1. CASE write
    <3> DEFINE h == heap'
    <3>1. h = push(heap, Item(v, x))  BY <1>5, <2>1
    <3> HIDE DEF h, write
    <3>2. h \in Seq(Items) /\ HeapOrdered(h) /\ Held(h) = Held(heap) \cup {Item(v, x)}
      BY <1>3, <1>4, <3>1, Pushed
    <3> QED  BY <2>1, <3>2 DEF h
  <2>2. CASE ~write  BY <1>3, <1>5, <2>2 DEF HeapOK
  <2> QED  BY <2>1, <2>2
<1>13. Item(v, x).node = v /\ Item(v, x).distance = x  BY DEF Item
<1>14. HeapOK'
  <2>1. HeapOrdered(heap)' /\ Held(heap)' = Held(heap') /\ (heap \in Seq(Items))'
    BY <1>12 DEF HeapOrdered, Held, Items
  <2>2. ASSUME NEW e \in Held(heap') PROVE IsEntry(e)'
    <3>1. CASE e \in Held(heap)
      <4>1. IsEntry(e)  BY <1>3, <3>1 DEF HeapOK
      <4>2. Item(e.node, e.distance)' = Item(e.node, e.distance)
        BY <1>1 DEF Item, heuristic
      <4>3. dist'["F"][e.node] <= e.distance
        <5>1. /\ e.node \in Node /\ e.distance \in Nat /\ dist["F"][e.node] <= e.distance
          BY <4>1 DEF IsEntry
        <5> QED  BY <1>7, <1>9, <5>1
      <4>4. inf' = inf  BY DEF inf
      <4> QED  BY <4>1, <4>2, <4>3, <4>4 DEF IsEntry
    <3>2. CASE write /\ e = Item(v, x)
      <4>1. e.node = v /\ e.distance = x  BY <1>13, <3>2
      <4>2. Item(e.node, e.distance)' = e
        BY <1>1, <3>2, <4>1 DEF Item, heuristic
      <4>3. inf' = inf  BY DEF inf
      <4> QED  BY <1>4, <1>7, <4>1, <4>2, <4>3 DEF IsEntry
    <3> QED  BY <1>12, <2>2, <3>1, <3>2
  <2> QED  BY <2>1, <2>2 DEF HeapOK
<1>15. LabelsCovered'
  <2>1. ASSUME NEW w \in Labelled("F")' PROVE Queued(w)' \/ HandedOn(w)'
    <3>1. w \in Node /\ dist'["F"][w] # inf  BY <2>1 DEF Labelled, inf
    <3>2. CASE w = v /\ write
      <4>1. Item(v, x) \in Held(heap)' /\ dist'["F"][w] = x
        BY <1>8, <1>12, <3>1, <3>2 DEF Held
      <4> QED  BY <1>13, <3>2, <4>1 DEF Queued
    <3>3. CASE ~(w = v /\ write)
      <4>1. dist'["F"][w] = dist["F"][w] /\ w \in Labelled("F")
        BY <1>8, <3>1, <3>3 DEF Labelled
      <4>2. CASE Queued(w)
        <5>1. Held(heap) \subseteq Held(heap)'  BY <1>12 DEF Held
        <5> QED  BY <4>1, <4>2, <5>1 DEF Queued
      <4>3. CASE HandedOn(w)
        <5>1. ASSUME NEW b \in Edges("F", w)
              PROVE  b \in scan' \/ dist'["F"][b[2]] <= Along("F", b)'
          <6>1. b \in Arcs /\ From("F", b) = w /\ Along("F", b)' = Along("F", b)
            BY <1>1, <4>1 DEF Edges, Along, From
          <6>2. CASE b = a  BY <1>7, <6>1, <6>2 DEF x
          <6>3. CASE b # a /\ b \in scan  BY <1>5, <6>3
          <6>4. CASE dist["F"][b[2]] <= Along("F", b)
            <7>1. b[2] \in Node /\ query.cost[b] \in Nat /\ dist["F"][w] \in Nat
              BY <1>9, <3>1, <6>1, InSingle
            <7>2. Along("F", b) \in Nat  BY <6>1, <7>1 DEF Along
            <7> QED  BY <1>7, <1>9, <6>1, <6>4, <7>1, <7>2
          <6> QED  BY <4>3, <6>2, <6>3, <6>4 DEF HandedOn
        <5>2. Edges("F", w)' = Edges("F", w)  BY <1>1 DEF Edges, Arcs, From
        <5> QED  BY <5>1, <5>2 DEF HandedOn
      <4> QED  BY <1>3, <4>1, <4>2, <4>3 DEF LabelsCovered
    <3> QED  BY <3>2, <3>3
  <2> QED  BY <2>1 DEF LabelsCovered
<1>16. ScanTyped'
  <2>1. Edges("F", cur)' = Edges("F", cur)  BY <1>1 DEF Edges, Arcs, From
  <2>2. cur \in Labelled("F")'  BY <1>1, <1>3, <1>4, <1>7 DEF Labelled, inf
  <2> QED  BY <1>1, <1>5, <2>1, <2>2 DEF SingleInv, ScanTyped
<1> QED  BY <1>1, <1>6, <1>7, <1>10, <1>14, <1>15, <1>16 DEF SingleInv
\* The pop of a stale item, of the target, of a node to expand.
LEMMA Pop1InRange ==
  ASSUME query \in Queries, Fits(query), SingleInv, Pop1
  PROVE  /\ SingleInv'
         /\ \/ pc' \in {"search", "left"} /\ result' = result
            \/ pc' = "done" /\ Exact(result')
<1> PICK v : v = heap[1].node  OBVIOUS
<1> DEFINE stale == heap[1].distance # dist["F"][v]
<1>1. /\ pc = "search" /\ scan = {} /\ heap # <<>> /\ heap' = pop(heap)
      /\ UNCHANGED <<query, dist, parent, alg, geometry>>
      /\ HeapOK /\ LabelsCovered /\ LabelsOK("F") /\ "F" \in Dir
  BY DEF Pop1, Looping, SingleInv, Dir
<1>2. \/ stale /\ UNCHANGED <<cur, scan, pc, path, result>>
      \/ ~stale /\ v = query.dst /\ Leave /\ UNCHANGED <<cur, scan>>
      \/ /\ ~stale /\ v # query.dst
         /\ cur' = v /\ scan' = Edges("F", v)
         /\ UNCHANGED <<pc, path, result>>
  BY DEF Pop1
<1>3. /\ heap' \in Seq(Items) /\ HeapOrdered(heap') /\ Held(heap') \subseteq Held(heap)
      /\ Held(heap) \subseteq Held(heap') \cup {heap[1]} /\ IsEntry(heap[1])
  BY <1>1, Popped
<1>4. CASE ~stale /\ v = query.dst /\ Leave /\ UNCHANGED <<cur, scan>>
  <2>1. \A c \in Nat : <<query.dst, c>> \in Walks(query) =>
          query.dst \in Labelled("F") /\ dist["F"][query.dst] <= c
    BY <1>1, <1>4, TopExact
  <2>2. \/ pc' = "left" /\ RouteOK' /\ result' = result
        \/ pc' = "done" /\ Exact(result')
    BY <1>1, <1>4, <2>1, LeaveInRange
  <2>3. SingleInv'  BY <1>1, <1>4, <2>2, SingleKept
  <2> QED  BY <2>2, <2>3
<1>5. CASE \/ stale /\ UNCHANGED <<cur, scan, pc, path, result>>
           \/ /\ ~stale /\ v # query.dst
              /\ cur' = v /\ scan' = Edges("F", v)
              /\ UNCHANGED <<pc, path, result>>
  <2>1. LabelsOK("F")' /\ Labelled("F")' = Labelled("F")  BY <1>1, LabelsKept
  <2>2. LabelsReal'  BY <1>1, <2>1 DEF SingleInv, LabelsReal, Walks, ClosedUnder
  <2>3. \A e : IsEntry(e) => IsEntry(e)'
    BY <1>1 DEF IsEntry, Item, heuristic, inf
  <2>4. HeapOK'
    <3>1. HeapOrdered(heap)' /\ Held(heap)' = Held(heap') /\ (heap \in Seq(Items))'
      BY <1>3 DEF HeapOrdered, Held, Items
    <3> QED  BY <1>1, <1>3, <2>3, <3>1 DEF HeapOK
  <2>5. ASSUME NEW w \in Labelled("F"), w # v \/ stale
        PROVE  Queued(w)' \/ HandedOn(w)'
    <3>1. CASE Queued(w)
      <4>1. PICK e \in Held(heap) : e.node = w /\ e.distance = dist["F"][w]
        BY <3>1 DEF Queued
      <4>2. e # heap[1]  BY <2>5, <4>1
      <4>3. e \in Held(heap)'  BY <1>3, <4>2 DEF Held
      <4> QED  BY <1>1, <4>1, <4>3 DEF Queued
    <3>2. CASE HandedOn(w)
      <4>1. Edges("F", w)' = Edges("F", w) /\ \A b : Along("F", b)' = Along("F", b)
        BY <1>1 DEF Edges, Arcs, From, Along
      <4> QED  BY <1>1, <3>2, <4>1 DEF HandedOn
    <3> QED  BY <1>1, <2>5, <3>1, <3>2 DEF LabelsCovered
  <2>6. CASE stale /\ UNCHANGED <<cur, scan, pc, path, result>>
    <3>1. LabelsCovered'  BY <2>1, <2>5, <2>6 DEF LabelsCovered
    <3>2. ScanTyped'  BY <1>1, <2>6 DEF ScanTyped
    <3> QED  BY <1>1, <2>1, <2>2, <2>4, <2>6, <3>1, <3>2 DEF SingleInv
  <2>7. CASE /\ ~stale /\ v # query.dst
             /\ cur' = v /\ scan' = Edges("F", v)
             /\ UNCHANGED <<pc, path, result>>
    <3>1. Edges("F", v)' = Edges("F", v)  BY <1>1 DEF Edges, Arcs, From
    <3>2. v \in Labelled("F")
      <4>1. v \in Node /\ dist["F"][v] < inf /\ dist["F"][v] \in Nat /\ inf \in Nat
        BY <1>3, <2>7, InSingle DEF IsEntry
      <4> QED  BY <4>1 DEF Labelled
    <3>3. LabelsCovered'
      <4>1. HandedOn(v)'  BY <2>7, <3>1 DEF HandedOn
      <4>2. \A w \in Labelled("F") : Queued(w)' \/ HandedOn(w)'  BY <2>5, <4>1
      <4> QED  BY <2>1, <4>2 DEF LabelsCovered
    <3>4. ScanTyped'
      <4>1. Edges("F", cur)' = Edges("F", v)  BY <1>1, <2>7 DEF Edges, Arcs, From
      <4> QED  BY <1>1, <2>1, <2>7, <3>2, <4>1 DEF ScanTyped
    <3> QED  BY <1>1, <2>1, <2>2, <2>4, <2>7, <3>3, <3>4 DEF SingleInv
  <2> QED  BY <1>5, <2>6, <2>7
<1> QED  BY <1>2, <1>4, <1>5

\* What holds of Dijkstra's algorithm and A* in range.
SingleState ==
  /\ pc = "start" => Blank
  /\ pc \in {"search", "left"} => SingleInv

LEMMA DijkstraInRange ==
  ASSUME query \in Queries, Fits(query), LabelTypesOK, SingleState, dijkstra
  PROVE  /\ SingleState' /\ LabelTypesOK'
         /\ \/ pc' # "start" /\ pc' # "done" /\ result' = result
            \/ pc' = "done" /\ Exact(result')
<1>1. CASE Open1
  <2>1. Blank  BY <1>1 DEF Open1, SingleState
  <2> QED  BY <1>1, <2>1, Open1InRange DEF SingleState
<1>2. CASE Relax1
  <2>1. SingleInv  BY <1>2 DEF Relax1, SingleState
  <2> QED  BY <1>2, <2>1, Relax1InRange DEF SingleState
<1>3. CASE Pop1
  <2>1. SingleInv /\ UNCHANGED <<dist, parent>>  BY <1>3 DEF Pop1, Looping, SingleState
  <2> QED  BY <1>3, <2>1, Pop1InRange DEF SingleState, LabelTypesOK
<1>4. CASE RunDry1
  <2>1. /\ SingleInv /\ pc = "search" /\ scan = {} /\ heap = <<>> /\ Leave
        /\ UNCHANGED <<query, dist, parent, scan, cur>>
    BY <1>4 DEF RunDry1, Looping, SingleState, searchVars
  <2>2. \A c \in Nat : <<query.dst, c>> \in Walks(query) =>
          query.dst \in Labelled("F") /\ dist["F"][query.dst] <= c
    BY <2>1, EmptyExact
  <2>3. \/ pc' = "left" /\ RouteOK' /\ result' = result
        \/ pc' = "done" /\ Exact(result')
    BY <2>1, <2>2, LeaveInRange
  <2>4. SingleInv'  BY <2>1, <2>3, SingleKept
  <2> QED  BY <2>1, <2>3, <2>4 DEF SingleState, LabelTypesOK
<1>5. CASE Walk1
  <2>1. /\ SingleInv /\ pc = "left" /\ UNCHANGED <<query, dist, parent, scan, cur>>
    BY <1>5 DEF Walk1, SingleState, searchVars
  <2>2. RouteOK /\ scan = {}  BY <2>1 DEF SingleInv, ScanTyped
  <2>3. \/ pc' = "left" /\ RouteOK' /\ result' = result
        \/ pc' = "done" /\ Exact(result')
    BY <1>5, <2>1, <2>2, Walk1InRange
  <2>4. SingleInv'  BY <2>1, <2>2, <2>3, SingleKept
  <2> QED  BY <2>1, <2>3, <2>4 DEF SingleState, LabelTypesOK
<1> QED  BY <1>1, <1>2, <1>3, <1>4, <1>5 DEF dijkstra
-----------------------------------------------------------------------------
(* Every search is exact                                                   *)

\* What holds of all the searches when the keys fit the word.
XInv ==
  /\ LabelTypesOK
  /\ pc # "done" => result = Pending
  /\ IF alg \in Single THEN SingleState ELSE BiState

\* The one answer is given on reaching the end.
Answered == UNCHANGED query /\ (result' = result \/ (pc # "done" /\ pc' = "done" /\ Exact(result')))

LEMMA XInvKept ==
  ASSUME XInv, UNCHANGED dvars
  PROVE  XInv'
<1>1. UNCHANGED <<query, pc, dist, parent, settled, best, meet, bestReduced, dir, cur, scan,
                  lower, path, result, alg, queue, turn, geometry, heap, call>>
  BY DEF dvars, svars, bvars, vars, searchVars
<1>2. LabelTypesOK'  BY <1>1 DEF XInv, LabelTypesOK
<1>3. (pc # "done" => result = Pending)'  BY <1>1 DEF XInv, Pending, Reply
<1>4. Blank => Blank'  BY <1>1 DEF Blank, inf
<1>5. (Running' <=> Running) /\ (alg' \in Single <=> alg \in Single)
  BY <1>1 DEF Running, Single, Baseline
<1>6. BiInv => BiInv'  BY <1>1, BiKept DEF searchVars
<1>7. PathOK => PathOK'  BY <1>1 DEF PathOK, Spans, inf, Labelled
<1>8. LabelsOK("F") => LabelsOK("F")' /\ Labelled("F")' = Labelled("F")
  <2>1. "F" \in Dir  BY DEF Dir
  <2> QED  BY <1>1, <2>1, LabelsKept
<1>9. SingleInv => SingleInv'
  <2> SUFFICES ASSUME SingleInv PROVE SingleInv'  OBVIOUS
  <2>1. LabelsReal'  BY <1>1, <1>8 DEF SingleInv, LabelsReal, Walks, ClosedUnder
  <2>2. ScanTyped'  BY <1>1, <1>8 DEF SingleInv, ScanTyped, Edges, Arcs, From
  <2>3. (pc = "search" => HeapOK)'
    BY <1>1 DEF SingleInv, HeapOK, HeapOrdered, Held, Items, IsEntry, Item, heuristic, inf
  <2>4. (pc = "search" => LabelsCovered)'
    BY <1>1, <1>8 DEF SingleInv, LabelsCovered, Queued, HandedOn, Held, Edges, Along, Arcs, From
  <2>5. (pc = "left" => RouteOK)'  BY <1>1, <1>8 DEF SingleInv, RouteOK, Spans
  <2> QED  BY <1>8, <2>1, <2>2, <2>3, <2>4, <2>5 DEF SingleInv
<1>10. SingleState => SingleState'  BY <1>1, <1>4, <1>9 DEF SingleState
<1>11. BiState => BiState'  BY <1>1, <1>4, <1>5, <1>6, <1>7 DEF BiState
<1> QED  BY <1>2, <1>3, <1>5, <1>10, <1>11 DEF XInv

LEMMA DispatchInitExact ==
  ASSUME DispatchInit
  PROVE  XInv /\ result = Pending
<1> USE DEF DispatchInit, BaselineInit, Init
<1>1. inf \in Word  BY WidthAssumption DEF inf, Word
<1>2. Blank /\ LabelTypesOK  BY <1>1 DEF Blank, LabelTypesOK
<1>3. pc = "start" /\ result = Pending /\ ~Running  BY DEF Running
<1> QED  BY <1>2, <1>3 DEF XInv, SingleState, BiState

LEMMA DispatchNextExact ==
  ASSUME \A q \in Queries : Fits(q), DInv, DInv', XInv, [DispatchNext]_dvars
  PROVE  XInv' /\ Answered
<1>1. /\ query \in Queries /\ Fits(query) /\ (alg \in Single \/ SearchInv)
      /\ LabelTypesOK /\ (pc # "done" => result = Pending)
      /\ alg \in Baseline => alg \notin Single
  BY DEF DInv, CallOK, XInv, Baseline, Plain, Reduced, Single
<1>2. CASE Portfolio
  <2>1. /\ pc = "start" /\ pc' = "start" /\ alg = "aegis-portfolio"
        /\ UNCHANGED <<query, searchVars, path, result, heap>>
    BY <1>2 DEF Portfolio, vars
  <2>2. alg \notin Single  BY <2>1 DEF Single
  <2>3. Blank  BY <2>1, <2>2 DEF XInv, BiState
  <2>4. Blank' /\ LabelTypesOK' /\ ~Running' /\ result' = Pending
    BY <1>1, <2>1, <2>3 DEF Blank, inf, LabelTypesOK, searchVars, Running
  <2> QED  BY <2>1, <2>4 DEF XInv, BiState, SingleState, Answered, Pending, Reply
<1>3. CASE Refuse \/ Abandon1 \/ Abandon
  <2>1. /\ pc # "done" /\ pc' = "done" /\ result' = Cancelled
        /\ UNCHANGED <<query, dist, parent>>
    BY <1>3 DEF Refuse, Abandon1, Abandon, Looping, Searching, searchVars
  <2>2. LabelTypesOK'  BY <1>1, <2>1 DEF LabelTypesOK
  <2>3. Exact(result')  BY <2>1, ExactReplies
  <2> QED  BY <2>1, <2>2, <2>3 DEF XInv, BiState, SingleState, Answered
<1>4. CASE dijkstra
  <2>1. alg \in Single /\ UNCHANGED <<query, alg>>  BY <1>4, SingleStep
  <2>2. SingleState  BY <2>1 DEF XInv
  <2>3. /\ SingleState' /\ LabelTypesOK'
        /\ \/ pc' # "start" /\ pc' # "done" /\ result' = result
           \/ pc' = "done" /\ Exact(result')
    BY <1>1, <1>4, <2>2, DijkstraInRange
  <2>4. pc # "done"  BY <1>4 DEF dijkstra, Open1, Pop1, RunDry1, Relax1, Walk1, Looping
  <2> QED  BY <1>1, <2>1, <2>3, <2>4 DEF XInv, Answered, Pending, Reply
<1>5. CASE Step
  <2>1. alg \in Baseline
    BY <1>5 DEF Step, bidirectionalDijkstra, meetSearch, pbSearch, catchRun, multiBoundRun,
                Baseline, Plain, Reduced
  <2>2. SearchInv /\ BiState  BY <1>1, <2>1 DEF XInv
  <2>3. Turns  BY <1>1, <1>5, <2>2, StepTurns DEF BiState
  <2>4. pc # "done" /\ UNCHANGED <<query, alg>>
    BY <2>3 DEF Turns, Trivial, AnswerTrivial, Enter, Begin, RelaxEdge, Walk, WalkLeft, WalkRight,
                Halt, Take, Searching
  <2>5. SearchInv'  BY <1>1, <2>1, <2>4 DEF DInv
  <2>6. BiState' /\ LabelTypesOK' /\ (result' = result \/ (pc' = "done" /\ Exact(result')))
    BY <1>1, <1>5, <2>2, <2>5, StepInRange
  <2> QED  BY <1>1, <2>1, <2>4, <2>6 DEF XInv, Answered, Pending, Reply
<1>6. CASE UNCHANGED dvars
  <2>1. XInv'  BY <1>6, XInvKept
  <2> QED  BY <1>6, <2>1 DEF Answered, dvars, svars, bvars, vars
<1>7. DispatchNext =>
        Portfolio \/ (Refuse \/ Abandon1 \/ Abandon) \/ dijkstra \/ Step \/ UNCHANGED dvars
  BY DEF DispatchNext, Run
<1> QED  BY <1>2, <1>3, <1>4, <1>5, <1>6, <1>7

\* Every search that Run dispatches to answers once and exactly, or is given up, on every
\* graph whose keys fit the word: the distance and a route of that length, or that there
\* is none (README.md, "Exact routing").
THEOREM BaselinesAreExact ==
  ASSUME \A q \in Queries : \E c, p \in Nat : BoundedBy(q, c, p)
  PROVE  DispatchSpec => BaselinesExact
<1>1. \A q \in Queries : Fits(q)  BY DEF Fits
<1>2. DispatchInit => XInv /\ Answers!Init
  <2> SUFFICES ASSUME DispatchInit PROVE XInv /\ Answers!Init  OBVIOUS
  <2>1. XInv /\ result = Pending  BY DispatchInitExact
  <2> QED  BY <2>1 DEF Answers!Init, Pending, Reply
<1>3. DInv /\ DInv' /\ XInv /\ [DispatchNext]_dvars
        => XInv' /\ [Answers!Reply]_<<query, [result EXCEPT !.lower = result.distance]>>
  <2> SUFFICES ASSUME DInv, DInv', XInv, [DispatchNext]_dvars
               PROVE  /\ XInv'
                      /\ [Answers!Reply]_<<query, [result EXCEPT !.lower = result.distance]>>
    OBVIOUS
  <2>1. XInv' /\ Answered  BY <1>1, DispatchNextExact
  <2>2. CASE result' = result  BY <2>1, <2>2 DEF Answered
  <2>3. CASE pc # "done" /\ Exact(result')
    <3>1. result = Pending /\ UNCHANGED query  BY <2>1, <2>3 DEF XInv, Answered
    <3>2. [result EXCEPT !.lower = result.distance].status = "pending"
      BY <3>1 DEF Pending, Reply
    <3>3. Answers!Correct(query, [result' EXCEPT !.lower = result'.distance])
      BY <2>3 DEF Exact
    <3>4. Answers!Reply  BY <3>1, <3>2, <3>3 DEF Answers!Reply
    <3> QED  BY <2>1, <3>4
  <2> QED  BY <2>1, <2>2, <2>3 DEF Answered
<1> QED  BY <1>2, <1>3, DispatchInvariance, PTL DEF DispatchSpec, BaselinesExact, Answers!Spec
=============================================================================
