-------------------------- MODULE ExactnessProofs --------------------------
(***************************************************************************)
(* The search is exact, for every graph in range, every consistent         *)
(* potential and every schedule: its answer is the distance that Bellman's *)
(* recurrence gives, with a path of that cost and a bound without a gap.   *)
(*                                                                         *)
(* The inductive invariant (SearchInRange) comes first, and with it that   *)
(* keys only grow, settled labels and the incumbent are final and the path *)
(* is one whose costs add up.                                              *)
(*                                                                         *)
(* That no walk is shorter is linear programming duality: when the loop    *)
(* ends, the labels of the two searches and the stopping rule give a       *)
(* potential that no arc violates and that differs by the incumbent        *)
(* between source and target; a walk can only lose against it.             *)
(*                                                                         *)
(* The scheduled search implements the free one, for every word width,     *)
(* tuning and variant of the scheduler; no direction starves and the       *)
(* connection guard stays within its window.                               *)
(***************************************************************************)
EXTENDS Traveller, ACBS, WalkProofs

-----------------------------------------------------------------------------
(* Arithmetic.                                                             *)

\* The bound on labels is a number.
LEMMA MaxLabelType == MaxLabel \in Nat
<1>1. Cardinality(Node) \in Nat
  BY NodeAssumption, FS_CardinalityType
<1> QED  BY <1>1, RangeAssumption DEF MaxLabel

\* Scaling by the largest cost is monotone.
LEMMA CostTimesMonotone ==
  ASSUME NEW m \in Nat, NEW n \in Nat, m <= n
  PROVE  MaxCost * m <= MaxCost * n
<1>1. MaxCost \in Nat  BY RangeAssumption
<1>2. n - m \in Nat /\ n = m + (n - m)  OBVIOUS
<1>3. MaxCost * n = MaxCost * m + MaxCost * (n - m)  BY <1>1, <1>2
<1>4. MaxCost * (n - m) >= 0  BY <1>1, <1>2
<1>5. MaxCost * m \in Int /\ MaxCost * n \in Int /\ MaxCost * (n - m) \in Int
  BY <1>1
<1> QED  BY <1>3, <1>4, <1>5

\* A label is bounded by the number of settled nodes, hence by MaxLabel.
LEMMA CapBounded ==
  ASSUME NEW S \in SUBSET Node
  PROVE  /\ MaxCost * Cardinality(S) \in Nat
         /\ MaxCost * Cardinality(S) <= MaxLabel
<1>1. /\ Cardinality(S) \in Nat /\ Cardinality(Node) \in Nat
      /\ Cardinality(S) <= Cardinality(Node)
  BY NodeAssumption, FS_Subset, FS_CardinalityType
<1>2. MaxCost \in Nat  BY RangeAssumption
<1> QED  BY <1>1, <1>2, CostTimesMonotone DEF MaxLabel

\* Settling one more node raises the bound by the largest cost.
LEMMA CapGrows ==
  ASSUME NEW S \in SUBSET Node, NEW v \in Node, v \notin S
  PROVE  MaxCost * Cardinality(S \cup {v}) = MaxCost * Cardinality(S) + MaxCost
<1>1. IsFiniteSet(S)  BY NodeAssumption, FS_Subset
<1>2. Cardinality(S \cup {v}) = Cardinality(S) + 1  BY <1>1, FS_AddElement
<1>3. Cardinality(S) \in Nat  BY <1>1, FS_CardinalityType
<1>4. MaxCost \in Nat  BY RangeAssumption
<1> QED  BY <1>2, <1>3, <1>4

\* In range, a key is twice the distance plus the shift, with no clamping.
LEMMA DoubledExact ==
  ASSUME NEW n \in Int, NEW delta \in Int,
         0 <= n, n <= 2 * MaxLabel, 0 <= 2 * n + delta, delta <= MaxPhi
  PROVE  doubledPlusSigned(n, delta) = 2 * n + delta
<1>1. MaxLabel \in Nat /\ MaxPhi \in Nat /\ MaxUint64 \in Nat
      /\ 4 * MaxLabel + 3 * MaxPhi < MaxUint64
  BY MaxLabelType, RangeAssumption, WidthAssumption
<1>2. ~(n > MaxUint64 \div 2)
  BY <1>1
<1>3. CASE delta >= 0
  <2>1. saturatingAdd(2 * n, delta) = 2 * n + delta
    BY <1>1, <1>3 DEF saturatingAdd
  <2> QED  BY <2>1, <1>2, <1>3 DEF doubledPlusSigned
<1>4. CASE delta < 0
  BY <1>2, <1>4 DEF doubledPlusSigned
<1> QED  BY <1>3, <1>4

\* Clamping never leaves the word.
LEMMA SaturatingAddType ==
  ASSUME NEW a \in Word, NEW b \in Word
  PROVE  saturatingAdd(a, b) \in Word
BY WidthAssumption DEF saturatingAdd, Word

LEMMA DoubledType ==
  ASSUME NEW n \in Word, NEW delta \in Int
  PROVE  doubledPlusSigned(n, delta) \in Word
<1>1. MaxUint64 \in Nat  BY WidthAssumption
<1>2. CASE n > MaxUint64 \div 2
  BY <1>1, <1>2 DEF doubledPlusSigned, inf, Word
<1>3. CASE ~(n > MaxUint64 \div 2)
  <2>1. 2 * n <= MaxUint64  BY <1>1, <1>3 DEF Word
  <2>2. CASE delta >= 0
    BY <1>1, <1>3, <2>1, <2>2 DEF doubledPlusSigned, saturatingAdd, Word
  <2>3. CASE delta < 0 /\ -delta >= 2 * n
    BY <1>1, <1>3, <2>3 DEF doubledPlusSigned, Word
  <2>4. CASE delta < 0 /\ -delta < 2 * n
    BY <1>1, <1>3, <2>1, <2>4 DEF doubledPlusSigned, Word
  <2> QED  BY <2>2, <2>3, <2>4 DEF Word
<1> QED  BY <1>2, <1>3

LEMMA LowerBoundType ==
  ASSUME NEW r \in Word, NEW x \in Int, NEW y \in Int
  PROVE  reducedToOriginalLowerBound(r, x, y) \in Word
<1>1. MaxUint64 \in Nat /\ r \in Nat /\ r <= MaxUint64  BY WidthAssumption DEF Word
<1> DEFINE shift == y - x
<1>2. CASE shift >= 0 /\ shift >= r
  <2>1. reducedToOriginalLowerBound(r, x, y) = 0
    BY <1>1, <1>2 DEF reducedToOriginalLowerBound
  <2> QED  BY <2>1, <1>1 DEF Word
<1>3. CASE shift >= 0 /\ shift < r
  <2>1. reducedToOriginalLowerBound(r, x, y) = (r - shift) \div 2
    BY <1>1, <1>3 DEF reducedToOriginalLowerBound
  <2> QED  BY <2>1, <1>1, <1>3 DEF Word
<1>4. CASE shift < 0
  <2>1. reducedToOriginalLowerBound(r, x, y) = saturatingAdd(r, -shift) \div 2
    BY <1>1, <1>4 DEF reducedToOriginalLowerBound
  <2>2. saturatingAdd(r, -shift) \in 0 .. MaxUint64
    BY <1>1, <1>4 DEF saturatingAdd
  <2> QED  BY <2>1, <2>2, <1>1 DEF Word
<1> QED  BY <1>1, <1>2, <1>3, <1>4
-----------------------------------------------------------------------------
(* Arcs, shifts and labels of a state.                                     *)

LEMMA DirFacts ==
  ASSUME NEW d \in Dir
  PROVE  /\ Other(d) \in Dir /\ Other(d) # d /\ Other(Other(d)) = d
         /\ Dir = {d, Other(d)}
BY DEF Dir, Other

\* Shifts are bounded, those of the two directions add up to the same constant
\* at every node, and the shift of a root is zero.
LEMMA ShiftFacts ==
  ASSUME TypeOK, InRangeNow, NEW d \in Dir, NEW v \in Node
  PROVE  /\ Shift(d, v) \in Int /\ Shift(d, v) <= MaxPhi
         /\ Root(d) \in Node /\ Shift(d, Root(d)) = 0
         /\ Shift("F", v) + Shift("B", v) = query.phi[query.dst] - query.phi[query.src]
         /\ query.phi[query.src] \in Int /\ query.phi[query.dst] \in Int
         /\ query.phi[query.dst] - query.phi[query.src] <= MaxPhi
<1>1. /\ query.src \in Node /\ query.dst \in Node
      /\ query.phi \in [Node -> Int]
  BY DEF TypeOK, IsQuery
<1>2. \A x, y \in Node : query.phi[x] - query.phi[y] <= MaxPhi
  BY DEF InRangeNow, InRange
<1>3. d = "F" \/ d = "B"  BY DEF Dir
<1> QED  BY <1>1, <1>2, <1>3 DEF Shift, Root

\* No reduced arc cost is negative, in either direction.
LEMMA ArcFacts ==
  ASSUME TypeOK, InRangeNow, NEW d \in Dir, NEW a \in Arcs
  PROVE  /\ From(d, a) \in Node /\ To(d, a) \in Node
         /\ query.cost[a] \in Nat /\ query.cost[a] > 0 /\ query.cost[a] <= MaxCost
         /\ Shift(d, From(d, a)) <= 2 * query.cost[a] + Shift(d, To(d, a))
<1>1. /\ query.src \in Node /\ query.dst \in Node
      /\ query.phi \in [Node -> Int]
      /\ a \in Node \X Node
      /\ query.cost[a] \in Nat \ {0}
  BY DEF TypeOK, IsQuery, Arcs
<1>2. /\ query.cost[a] <= MaxCost
      /\ query.phi[a[1]] <= 2 * query.cost[a] + query.phi[a[2]]
  BY DEF InRangeNow, InRange, TypeOK, Consistent, Arcs
<1>3. a[1] \in Node /\ a[2] \in Node  BY <1>1
<1>4. d = "F" \/ d = "B"  BY DEF Dir
<1>5. query.phi[a[1]] \in Int /\ query.phi[a[2]] \in Int
      /\ query.phi[query.src] \in Int /\ query.phi[query.dst] \in Int
  BY <1>1, <1>3
<1> QED  BY <1>1, <1>2, <1>3, <1>4, <1>5 DEF Shift, From, To

\* The key of a label in range is its reduced cost, unclamped.
LEMMA LabelFacts ==
  ASSUME TypeOK, InRangeNow, LabelsBounded, NEW d \in Dir, NEW v \in Labelled(d)
  PROVE  /\ v \in Node
         /\ dist[d][v] \in Nat /\ dist[d][v] <= MaxLabel
         /\ Key(d, v) = Reduced(d, v)
         /\ Reduced(d, v) \in Nat /\ Reduced(d, v) <= 2 * MaxLabel + MaxPhi
<1>1. v \in Node /\ dist[d][v] \in Nat
  BY WidthAssumption DEF Labelled, TypeOK, Word
<1>2. dist[d][v] <= Cap(d) /\ Reduced(d, v) >= 0
  BY DEF LabelsBounded
<1>3. Cap(d) \in Nat /\ Cap(d) <= MaxLabel
  BY CapBounded DEF TypeOK, Cap
<1>4. Shift(d, v) \in Int /\ Shift(d, v) <= MaxPhi  BY <1>1, ShiftFacts
<1>5. MaxLabel \in Nat /\ MaxPhi \in Nat  BY MaxLabelType, RangeAssumption
<1>6. dist[d][v] <= MaxLabel  BY <1>1, <1>2, <1>3, <1>5
<1>7. doubledPlusSigned(dist[d][v], Shift(d, v)) = 2 * dist[d][v] + Shift(d, v)
  BY <1>1, <1>2, <1>4, <1>5, <1>6, DoubledExact DEF Reduced
<1> QED  BY <1>1, <1>2, <1>4, <1>5, <1>6, <1>7 DEF Key, Reduced

\* In range the sum of two front keys does not saturate, so the stopping rule
\* compares the exact sums.
LEMMA BoundFacts ==
  ASSUME TypeOK, InRangeNow, LabelsBounded,
         NEW f \in Labelled("F"), NEW b \in Labelled("B")
  PROVE  /\ saturatingAdd(Key("F", f), Key("B", b)) = Reduced("F", f) + Reduced("B", b)
         /\ BoundReached(f, b) <=>
              bestReduced # inf /\ Reduced("F", f) + Reduced("B", b) >= bestReduced
<1>1. "F" \in Dir /\ "B" \in Dir  BY DEF Dir
<1>2. /\ Key("F", f) = Reduced("F", f) /\ Key("B", b) = Reduced("B", b)
      /\ Reduced("F", f) \in Nat /\ Reduced("F", f) <= 2 * MaxLabel + MaxPhi
      /\ Reduced("B", b) \in Nat /\ Reduced("B", b) <= 2 * MaxLabel + MaxPhi
  BY <1>1, LabelFacts
<1>3. /\ MaxLabel \in Nat /\ MaxPhi \in Nat /\ MaxUint64 \in Nat
      /\ 4 * MaxLabel + 3 * MaxPhi < MaxUint64
  BY MaxLabelType, RangeAssumption, WidthAssumption
<1>4. saturatingAdd(Key("F", f), Key("B", b)) = Reduced("F", f) + Reduced("B", b)
  BY <1>2, <1>3 DEF saturatingAdd
<1> QED  BY <1>4 DEF BoundReached

-----------------------------------------------------------------------------
(* The invariant holds initially.                                          *)

LEMMA InitIInv == Init => IInv
<1> SUFFICES ASSUME Init PROVE IInv  OBVIOUS
<1> USE DEF Init
<1>1. /\ \A d \in Dir : \A v \in Node : dist[d][v] = inf /\ parent[d][v] = NoNode
      /\ \A d \in Dir : settled[d] = {} /\ Labelled(d) = {} /\ Open(d) = {}
  BY DEF Labelled, Open
<1>2. inf \in Word /\ 0 \in Word  BY WidthAssumption DEF inf, Word
<1>3. TypeOK
  <2>1. IsQuery(query) /\ Consistent(query)  BY QueryAssumption
  <2>2. dist \in [Dir -> [Node -> Word]]  BY <1>2
  <2>3. /\ parent \in [Dir -> [Node -> Node \cup {NoNode}]]
        /\ settled \in [Dir -> SUBSET Node]
    OBVIOUS
  <2>4. result \in Results
    BY <1>2 DEF Pending, Reply, Results
  <2> QED  BY <2>1, <2>2, <2>3, <2>4, <1>2 DEF TypeOK, Dir
<1>4. InRangeNow  BY RangeAssumption DEF InRangeNow
<1>5. Idle /\ RootsLabelled  BY <1>1 DEF Idle, RootsLabelled, Started
<1>6. LabelsBounded /\ SettledFirst /\ ScanOK /\ EdgesRelaxed
  BY <1>1, <1>3, ArcFacts, <1>4 DEF LabelsBounded, SettledFirst, ScanOK, EdgesRelaxed
<1>7. IncumbentTight /\ ParentsTight
  BY <1>1 DEF IncumbentTight, ParentsTight, Dir
<1>8. AnswerOK /\ PathOK  BY DEF AnswerOK, PathOK
<1> QED  BY <1>3, <1>4, <1>5, <1>6, <1>7, <1>8 DEF IInv
-----------------------------------------------------------------------------
(* Steps that only write the answer.                                       *)

\* A step that leaves the search state alone preserves everything but the part
\* of the invariant that speaks of the answer.
LEMMA SearchStateKept ==
  ASSUME IInv, scan = {}, UNCHANGED <<query, searchVars>>,
         pc' \in {"start", "search", "left", "right", "done"},
         lower' \in Word, path' \in Seq(Node), result' \in Results,
         Started' <=> Started, ~Started => pc' \in {"start", "done"}
  PROVE  /\ TypeOK' /\ InRangeNow' /\ Idle' /\ RootsLabelled' /\ LabelsBounded'
         /\ SettledFirst' /\ ScanOK' /\ EdgesRelaxed' /\ IncumbentTight'
         /\ ParentsTight'
<1> USE DEF searchVars
<1> USE DEF IInv
<1>1. \A d \in Dir : Root(d)' = Root(d) /\ Labelled(d)' = Labelled(d)
                     /\ Open(d)' = Open(d) /\ Cap(d)' = Cap(d)
  BY DEF Root, Labelled, Open, Cap
<1>2. \A d \in Dir : \A v \in Node :
        Shift(d, v)' = Shift(d, v) /\ Key(d, v)' = Key(d, v)
        /\ Reduced(d, v)' = Reduced(d, v)
  BY DEF Shift, Key, Reduced
<1>3. Arcs' = Arcs  BY DEF Arcs
<1>4. TypeOK'  BY <1>3 DEF TypeOK, IsQuery, Consistent, From
<1>5. InRangeNow'  BY DEF InRangeNow
<1>6. Idle' /\ RootsLabelled'  BY <1>1 DEF Idle, RootsLabelled
<1>7. LabelsBounded'
  BY <1>1, <1>2 DEF LabelsBounded, Labelled
<1>8. SettledFirst'
  BY <1>1, <1>2 DEF SettledFirst, Open, TypeOK
<1>9. ScanOK'  BY DEF ScanOK
<1>10. EdgesRelaxed'  BY <1>3 DEF EdgesRelaxed, From, To
<1>11. IncumbentTight'  BY <1>2 DEF IncumbentTight, Dir
<1>12. ParentsTight'  BY <1>1, <1>3 DEF ParentsTight, From, To
<1> QED  BY <1>4, <1>5, <1>6, <1>7, <1>8, <1>9, <1>10, <1>11, <1>12

LEMMA TrivialStep == IInv /\ AnswerTrivial => IInv'
<1> SUFFICES ASSUME IInv, AnswerTrivial PROVE IInv'  OBVIOUS
<1> USE DEF AnswerTrivial
<1>1. scan = {}  BY DEF IInv, Idle, Started
<1>2. result' \in Results
  <2>1. <<query.src>> \in Seq(Node)  BY DEF IInv, TypeOK, IsQuery
  <2>2. 0 \in Word  BY WidthAssumption DEF Word
  <2> QED  BY <2>1, <2>2 DEF Results, Reply
<1>3. ~Started /\ ~Started'  BY DEF Started
<1>4. AnswerOK' /\ PathOK'  BY <1>3 DEF AnswerOK, PathOK, Reply
<1>5. lower' \in Word /\ path' \in Seq(Node)  BY DEF IInv, TypeOK
<1> QED  BY <1>1, <1>2, <1>3, <1>4, <1>5, SearchStateKept DEF IInv

\* The stopping condition reads nothing these steps write.
LEMMA StoppedKept ==
  ASSUME Stopped,
         UNCHANGED <<query, dist, settled, bestReduced>>
  PROVE  Stopped'
<1>1. \A d \in Dir : Open(d)' = Open(d)  BY DEF Open
<1>2. \A d \in Dir : \A v \in Node : Key(d, v)' = Key(d, v)  BY DEF Key, Shift
<1>3. \A d \in Dir : Front(d)' = Front(d)  BY <1>1, <1>2 DEF Front, Open
<1>4. CASE \E d \in Dir : Open(d) = {}  BY <1>1, <1>4 DEF Stopped, Exhausted
<1>5. CASE \E f \in Front("F"), b \in Front("B") : BoundReached(f, b)
  <2>1. PICK f \in Front("F"), b \in Front("B") : BoundReached(f, b)  BY <1>5
  <2>2. f \in Front("F")' /\ b \in Front("B")'  BY <1>3, <2>1 DEF Dir
  <2>3. f \in Node /\ b \in Node  BY <2>1 DEF Front, Open
  <2>4. BoundReached(f, b)'  BY <1>2, <2>1, <2>3 DEF BoundReached, Dir
  <2> QED  BY <2>2, <2>4 DEF Stopped
<1> QED  BY <1>4, <1>5 DEF Stopped, Exhausted

\* An incumbent is a node labelled from both sides.
LEMMA MeetLabelled ==
  ASSUME TypeOK, IncumbentTight, best # inf
  PROVE  meet \in Node /\ meet # NoNode /\ meet \in Labelled("F") /\ meet \in Labelled("B")
<1>1. meet \in Node /\ best = dist["F"][meet] + dist["B"][meet]
  BY DEF IncumbentTight
<1>2. dist["F"][meet] \in Word /\ dist["B"][meet] \in Word /\ best \in Word
  BY <1>1 DEF TypeOK, Dir
<1>3. dist["F"][meet] # inf /\ dist["B"][meet] # inf
  BY <1>1, <1>2, WidthAssumption DEF Word, inf
<1> QED  BY <1>1, <1>3, NodeAssumption DEF Labelled

\* Leaving the loop where it may be left preserves the invariant.
LEMMA ConcludeStep ==
  ASSUME IInv, NEW bound \in Word, pc = "search", scan = {}, Stopped,
         Conclude(bound), UNCHANGED <<query, searchVars>>
  PROVE  IInv'
<1>1. TypeOK /\ IncumbentTight  BY DEF IInv
<1>2. Stopped' /\ scan' = {}  BY StoppedKept DEF searchVars
<1>3. Started /\ Started'
  <2>1. Started  BY DEF IInv, Idle
  <2> QED  BY <2>1 DEF Started, Conclude
<1>4. CASE best = inf \/ meet = NoNode
  <2>1. best = inf  BY <1>1, <1>4, MeetLabelled
  <2>2. pc' = "done" /\ result' = Reply("unreachable", 0, <<>>, 0)
        /\ UNCHANGED <<lower, path>>
    BY <1>4 DEF Conclude
  <2>3. 0 \in Word  BY WidthAssumption DEF Word
  <2>4. result' \in Results  BY <2>2, <2>3 DEF Reply, Results
  <2>5. lower' \in Word /\ path' \in Seq(Node)  BY <1>1, <2>2 DEF TypeOK
  <2>6. AnswerOK'  BY <1>2, <2>2 DEF AnswerOK
  <2>7. PathOK'  BY <2>1, <2>2 DEF PathOK, Reply, searchVars
  <2> QED  BY <1>3, <2>2, <2>4, <2>5, <2>6, <2>7, SearchStateKept DEF IInv
<1>5. CASE ~(best = inf \/ meet = NoNode)
  <2>1. pc' = "left" /\ path' = <<meet>> /\ lower' = bound /\ UNCHANGED result
    BY <1>5 DEF Conclude
  <2>2. meet \in Node /\ meet \in Labelled("F") /\ meet \in Labelled("B")
    BY <1>1, <1>5, MeetLabelled
  <2>3. path' \in Seq(Node) /\ result' \in Results  BY <1>1, <2>1, <2>2 DEF TypeOK
  <2>4. AnswerOK'  BY <1>2, <2>1 DEF AnswerOK, IInv
  <2>5. Len(path') = 1 /\ path'[1] = meet /\ path' # <<>>  BY <2>1
  <2>6. Spelled(path)'
    <3>1. meet' = meet  BY DEF searchVars
    <3>2. path'[1] = meet' /\ 1 \in 1 .. Len(path')  BY <2>5, <3>1
    <3>3. 1 .. (Len(path') - 1) = {}  BY <2>5
    <3> QED  BY <3>2, <3>3 DEF Spelled
  <2>7. PathOK'
    <3>1. meet \in Labelled("F")' /\ meet \in Labelled("B")' /\ best' # inf
      BY <1>5, <2>2 DEF Labelled, searchVars
    <3> QED  BY <2>1, <2>5, <2>6, <3>1 DEF PathOK
  <2> QED  BY <1>3, <2>1, <2>3, <2>4, <2>7, SearchStateKept DEF IInv
<1> QED  BY <1>4, <1>5

LEMMA StopAtBoundStep == IInv /\ StopAtBound => IInv'
<1> SUFFICES ASSUME IInv, StopAtBound PROVE IInv'  OBVIOUS
<1> DEFINE bound(f, b) == reducedToOriginalLowerBound(
                            saturatingAdd(Key("F", f), Key("B", b)),
                            query.phi[query.src], query.phi[query.dst])
<1>1. PICK f \in Front("F"), b \in Front("B") :
        /\ BoundReached(f, b)
        /\ Conclude(IF bound(f, b) > best THEN best ELSE bound(f, b))
  BY DEF StopAtBound
<1>2. TypeOK /\ InRangeNow  BY DEF IInv
<1>3. Key("F", f) \in Word /\ Key("B", b) \in Word
  <2>1. f \in Node /\ b \in Node /\ "F" \in Dir /\ "B" \in Dir
    BY DEF Front, Open, Dir
  <2>2. dist["F"][f] \in Word /\ dist["B"][b] \in Word
    BY <1>2, <2>1 DEF TypeOK
  <2> QED  BY <1>2, <2>1, <2>2, ShiftFacts, DoubledType DEF Key
<1>4. bound(f, b) \in Word /\ best \in Word
  <2>1. query.phi[query.src] \in Int /\ query.phi[query.dst] \in Int
    BY <1>2 DEF TypeOK, IsQuery
  <2>2. bound(f, b) \in Word  BY <1>3, <2>1, SaturatingAddType, LowerBoundType
  <2> QED  BY <1>2, <2>2 DEF TypeOK
<1>5. Stopped  BY <1>1 DEF Stopped
<1> HIDE DEF bound
<1>6. (IF bound(f, b) > best THEN best ELSE bound(f, b)) \in Word  BY <1>4
<1> QED  BY <1>1, <1>5, <1>6, ConcludeStep DEF StopAtBound

LEMMA StopExhaustedStep == IInv /\ StopExhausted => IInv'
<1> SUFFICES ASSUME IInv, StopExhausted PROVE IInv'  OBVIOUS
<1>1. Stopped  BY DEF Stopped, StopExhausted
<1>2. best \in Word  BY DEF IInv, TypeOK
<1> QED  BY <1>1, <1>2, ConcludeStep DEF StopExhausted

LEMMA CancelStep == IInv /\ Cancel => IInv'
<1> SUFFICES ASSUME IInv, Cancel PROVE IInv'  OBVIOUS
<1>1. result' \in Results
  BY WidthAssumption DEF Cancel, Cancelled, Reply, Results, Word
<1>2. Started /\ Started'
  <2>1. Started  BY DEF IInv, Idle, Cancel
  <2> QED  BY <2>1 DEF Cancel, Started
<1>3. AnswerOK' /\ PathOK'  BY DEF AnswerOK, PathOK, Cancel, Cancelled, Reply
<1>4. lower' \in Word /\ path' \in Seq(Node)  BY DEF IInv, TypeOK, Cancel
<1> QED  BY <1>1, <1>2, <1>3, <1>4, SearchStateKept DEF IInv, Cancel
-----------------------------------------------------------------------------
(* The walk.                                                               *)

\* A labelled node that is not the root was reached along an arc that accounts
\* for its label, from a labelled node.
LEMMA ParentFacts ==
  ASSUME TypeOK, ParentsTight, LabelsBounded, NEW d \in Dir, NEW v \in Labelled(d),
         v # Root(d)
  PROVE  /\ parent[d][v] \in Node /\ parent[d][v] # NoNode
         /\ parent[d][v] \in Labelled(d)
         /\ \E a \in Arcs : /\ To(d, a) = v /\ From(d, a) = parent[d][v]
                            /\ dist[d][v] = dist[d][parent[d][v]] + query.cost[a]
<1>1. v \in Node /\ dist[d][v] # inf  BY DEF Labelled
<1>2. \E a \in Arcs :
        /\ To(d, a) = v /\ From(d, a) = parent[d][v]
        /\ parent[d][v] \in settled[d]
        /\ dist[d][v] = dist[d][parent[d][v]] + query.cost[a]
  BY <1>1 DEF ParentsTight
<1>3. parent[d][v] \in Labelled(d)  BY <1>2 DEF LabelsBounded
<1>4. parent[d][v] \in Node  BY <1>3 DEF Labelled
<1> QED  BY <1>2, <1>3, <1>4, NodeAssumption

LEMMA StutterStep == IInv /\ UNCHANGED vars => IInv'
<1> SUFFICES ASSUME IInv, UNCHANGED vars PROVE IInv'  OBVIOUS
<1> USE DEF vars, searchVars
<1>1. \A d \in Dir : Root(d)' = Root(d) /\ Labelled(d)' = Labelled(d)
                     /\ Open(d)' = Open(d) /\ Cap(d)' = Cap(d)
  BY DEF Root, Labelled, Open, Cap
<1>2. \A d \in Dir : \A v \in Node :
        Shift(d, v)' = Shift(d, v) /\ Key(d, v)' = Key(d, v)
        /\ Reduced(d, v)' = Reduced(d, v)
  BY DEF Shift, Key, Reduced
<1>3. Arcs' = Arcs /\ (Started' <=> Started)  BY DEF Arcs, Started
<1>4. TypeOK' /\ InRangeNow'
  BY <1>3 DEF IInv, TypeOK, IsQuery, Consistent, From, InRangeNow
<1>5. Idle' /\ RootsLabelled'
  BY <1>1, <1>3 DEF IInv, Idle, RootsLabelled
<1>6. LabelsBounded'  BY <1>1, <1>2 DEF IInv, LabelsBounded, Labelled
<1>7. SettledFirst'  BY <1>1, <1>2 DEF IInv, SettledFirst, Open, TypeOK
<1>8. ScanOK'
  <2>1. CASE scan = {}  BY <2>1 DEF ScanOK
  <2>2. CASE scan # {}
    <3>1. dir \in Dir /\ settled[dir] \subseteq Node /\ cur \in settled[dir]
      BY <2>2 DEF IInv, TypeOK, ScanOK
    <3>2. Cap(dir)' = Cap(dir)  BY <1>1, <3>1
    <3>3. \A u \in settled[dir] : Reduced(dir, u)' = Reduced(dir, u)
          /\ Reduced(dir, cur)' = Reduced(dir, cur)
      BY <1>2, <3>1
    <3> QED  BY <3>2, <3>3 DEF IInv, ScanOK
  <2> QED  BY <2>1, <2>2
<1>9. EdgesRelaxed'  BY <1>3 DEF IInv, EdgesRelaxed, From, To
<1>10. IncumbentTight'  BY <1>2 DEF IInv, IncumbentTight, Dir
<1>11. ParentsTight'  BY <1>1, <1>3 DEF IInv, ParentsTight, From, To
<1>12. AnswerOK'  BY <1>3, StoppedKept DEF IInv, AnswerOK
<1>13. PathOK'
  BY <1>1, <1>3 DEF IInv, PathOK, Spelled, Arcs, Labelled
<1> QED  BY <1>4, <1>5, <1>6, <1>7, <1>8, <1>9, <1>10, <1>11, <1>12, <1>13 DEF IInv

\* One more node in front of the path, or behind it.
LEMMA SpelledPrepend ==
  ASSUME TypeOK, NEW q \in Seq(Node), q # <<>>, Spelled(q), NEW p \in Node,
         <<p, q[1]>> \in Arcs,
         dist["F"][q[1]] = dist["F"][p] + query.cost[<<p, q[1]>>]
  PROVE  Spelled(<<p>> \o q)
<1>1. PICK k \in 1 .. Len(q) :
        /\ q[k] = meet
        /\ \A i \in 1 .. Len(q) - 1 :
             /\ <<q[i], q[i + 1]>> \in Arcs
             /\ IF i < k
                THEN dist["F"][q[i + 1]] = dist["F"][q[i]] + query.cost[<<q[i], q[i + 1]>>]
                ELSE dist["B"][q[i]] = dist["B"][q[i + 1]] + query.cost[<<q[i], q[i + 1]>>]
  BY DEF Spelled
<1> DEFINE r == <<p>> \o q
<1>2. /\ Len(r) = Len(q) + 1 /\ Len(q) \in Nat /\ Len(q) > 0 /\ r[1] = p
      /\ \A i \in 2 .. Len(q) + 1 : r[i] = q[i - 1]
  BY PrependFacts
<1> HIDE DEF r
<1>3. k + 1 \in 1 .. Len(r) /\ r[k + 1] = meet
  <2>1. k + 1 \in 2 .. Len(q) + 1 /\ (k + 1) - 1 = k  BY <1>2
  <2> QED  BY <1>1, <1>2, <2>1
<1>4. ASSUME NEW i \in 1 .. Len(r) - 1
      PROVE  /\ <<r[i], r[i + 1]>> \in Arcs
             /\ IF i < k + 1
                THEN dist["F"][r[i + 1]] = dist["F"][r[i]] + query.cost[<<r[i], r[i + 1]>>]
                ELSE dist["B"][r[i]] = dist["B"][r[i + 1]] + query.cost[<<r[i], r[i + 1]>>]
  <2>1. CASE i = 1
    <3>1. r[i] = p /\ r[i + 1] = q[1]
      <4>1. 2 \in 2 .. Len(q) + 1 /\ 2 - 1 = 1 /\ i + 1 = 2  BY <1>2, <2>1
      <4> QED  BY <1>2, <2>1, <4>1
    <3>2. i < k + 1  BY <2>1
    <3> QED  BY <3>1, <3>2
  <2>2. CASE i # 1
    <3>1. i - 1 \in 1 .. Len(q) - 1 /\ i \in 2 .. Len(q) + 1 /\ i + 1 \in 2 .. Len(q) + 1
      BY <1>2, <2>2
    <3>2. (i + 1) - 1 = i /\ (i - 1) + 1 = i /\ (i < k + 1 <=> i - 1 < k)  BY <1>2
    <3>3. r[i] = q[i - 1] /\ r[i + 1] = q[(i - 1) + 1]  BY <1>2, <3>1, <3>2
    <3> QED  BY <1>1, <3>1, <3>2, <3>3
  <2> QED  BY <2>1, <2>2
<1>5. Spelled(r)  BY <1>3, <1>4 DEF Spelled
<1> QED  BY <1>5 DEF r

LEMMA SpelledAppend ==
  ASSUME TypeOK, NEW q \in Seq(Node), q # <<>>, Spelled(q), NEW p \in Node,
         <<q[Len(q)], p>> \in Arcs,
         dist["B"][q[Len(q)]] = dist["B"][p] + query.cost[<<q[Len(q)], p>>]
  PROVE  Spelled(Append(q, p))
<1>1. PICK k \in 1 .. Len(q) :
        /\ q[k] = meet
        /\ \A i \in 1 .. Len(q) - 1 :
             /\ <<q[i], q[i + 1]>> \in Arcs
             /\ IF i < k
                THEN dist["F"][q[i + 1]] = dist["F"][q[i]] + query.cost[<<q[i], q[i + 1]>>]
                ELSE dist["B"][q[i]] = dist["B"][q[i + 1]] + query.cost[<<q[i], q[i + 1]>>]
  BY DEF Spelled
<1> DEFINE r == Append(q, p)
<1>2. /\ Len(r) = Len(q) + 1 /\ Len(q) \in Nat /\ Len(q) > 0 /\ r[Len(q) + 1] = p
      /\ \A i \in 1 .. Len(q) : r[i] = q[i]
  BY AppendFacts
<1> HIDE DEF r
<1>3. k \in 1 .. Len(r) /\ r[k] = meet  BY <1>1, <1>2
<1>4. ASSUME NEW i \in 1 .. Len(r) - 1
      PROVE  /\ <<r[i], r[i + 1]>> \in Arcs
             /\ IF i < k
                THEN dist["F"][r[i + 1]] = dist["F"][r[i]] + query.cost[<<r[i], r[i + 1]>>]
                ELSE dist["B"][r[i]] = dist["B"][r[i + 1]] + query.cost[<<r[i], r[i + 1]>>]
  <2>1. CASE i = Len(q)
    <3>1. r[i] = q[Len(q)] /\ r[i + 1] = p  BY <1>2, <2>1
    <3>2. ~(i < k)  BY <1>2, <2>1
    <3> QED  BY <3>1, <3>2
  <2>2. CASE i # Len(q)
    <3>1. i \in 1 .. Len(q) - 1 /\ i \in 1 .. Len(q) /\ i + 1 \in 1 .. Len(q)
      BY <1>2, <2>2
    <3>2. r[i] = q[i] /\ r[i + 1] = q[i + 1]  BY <1>2, <3>1
    <3> QED  BY <1>1, <3>1, <3>2
  <2> QED  BY <2>1, <2>2
<1>5. Spelled(r)  BY <1>3, <1>4 DEF Spelled
<1> QED  BY <1>5 DEF r

\* Nothing the walk writes is read by the formulas about the search.
LEMMA WalkKept ==
  ASSUME IInv, pc \in {"left", "right"}, UNCHANGED <<query, searchVars, lower>>,
         pc' \in {"left", "right", "done"}, path' \in Seq(Node), result' \in Results,
         pc' # "done" => UNCHANGED result
  PROVE  /\ TypeOK' /\ InRangeNow' /\ Idle' /\ RootsLabelled' /\ LabelsBounded'
         /\ SettledFirst' /\ ScanOK' /\ EdgesRelaxed' /\ IncumbentTight'
         /\ ParentsTight' /\ AnswerOK'
         /\ \A d \in Dir : Labelled(d)' = Labelled(d)
         /\ \A q \in Seq(Node) : Spelled(q) <=> Spelled(q)'
<1>1. Started /\ Started'
  <2>1. Started  BY DEF IInv, Idle
  <2> QED  BY <2>1 DEF Started, searchVars
<1>2. result = Pending /\ Pending # Cancelled  BY DEF IInv, AnswerOK, Pending, Cancelled, Reply
<1>3. Stopped /\ scan = {}  BY <1>1, <1>2 DEF IInv, AnswerOK
<1>4. Stopped' /\ scan' = {}  BY <1>3, StoppedKept DEF searchVars
<1>5. AnswerOK'  BY <1>2, <1>4 DEF AnswerOK
<1>6. lower' \in Word  BY DEF IInv, TypeOK
<1>7. \A d \in Dir : Labelled(d)' = Labelled(d)  BY DEF Labelled, searchVars
<1>8. \A q \in Seq(Node) : Spelled(q) <=> Spelled(q)'  BY DEF Spelled, Arcs, searchVars
<1> QED  BY <1>1, <1>3, <1>5, <1>6, <1>7, <1>8, SearchStateKept

LEMMA WalkLeftStep == IInv /\ WalkLeft => IInv'
<1> SUFFICES ASSUME IInv, WalkLeft PROVE IInv'  OBVIOUS
<1>1. TypeOK /\ ParentsTight /\ LabelsBounded /\ PathOK /\ AnswerOK  BY DEF IInv
<1>2. /\ pc = "left" /\ UNCHANGED <<query, searchVars, lower>>
      /\ path \in Seq(Node) /\ path # <<>> /\ Spelled(path) /\ best # inf
      /\ path[1] \in Labelled("F") /\ path[Len(path)] \in Labelled("B")
  BY <1>1 DEF WalkLeft, PathOK, TypeOK
<1> DEFINE v == path[1]
           p == parent["F"][v]
<1>3. IF v = query.src THEN pc' = "right" /\ UNCHANGED <<path, result>>
      ELSE IF p = NoNode THEN GiveUp
      ELSE path' = <<p>> \o path /\ UNCHANGED <<pc, result>>
  <2>1. Head(path) = path[1]  BY <1>2
  <2> QED  BY <2>1 DEF WalkLeft
<1> HIDE DEF p, v
<1>4. CASE v = query.src
  <2>1. pc' = "right" /\ UNCHANGED <<path, result>>  BY <1>3, <1>4
  <2>2. path' \in Seq(Node) /\ result' \in Results  BY <1>1, <2>1 DEF TypeOK
  <2>3. PathOK'
    <3>1. Spelled(path)'  BY <1>2, <2>1, <2>2, WalkKept
    <3>2. \A d \in Dir : Labelled(d)' = Labelled(d)  BY <1>2, <2>1, <2>2, WalkKept
    <3> QED  BY <1>2, <1>4, <2>1, <3>1, <3>2 DEF PathOK, v, Dir, searchVars
  <2> QED  BY <1>2, <2>1, <2>2, <2>3, WalkKept DEF IInv
<1>5. CASE v # query.src
  <2>1. /\ p \in Node /\ p # NoNode /\ p \in Labelled("F")
        /\ \E a \in Arcs : /\ To("F", a) = v /\ From("F", a) = p
                           /\ dist["F"][v] = dist["F"][p] + query.cost[a]
    <3>1. v \in Labelled("F") /\ v # Root("F") /\ "F" \in Dir
      BY <1>2, <1>5 DEF v, Root, Dir
    <3> QED  BY <1>1, <3>1, ParentFacts DEF p
  <2>2. path' = <<p>> \o path /\ UNCHANGED <<pc, result>>  BY <1>3, <1>5, <2>1
  <2>3. <<p, v>> \in Arcs /\ dist["F"][v] = dist["F"][p] + query.cost[<<p, v>>]
    <3>1. PICK a \in Arcs : /\ To("F", a) = v /\ From("F", a) = p
                            /\ dist["F"][v] = dist["F"][p] + query.cost[a]
      BY <2>1
    <3>2. a \in Node \X Node  BY <1>1 DEF TypeOK, IsQuery, Arcs
    <3>3. a = <<p, v>>  BY <3>1, <3>2 DEF To, From
    <3> QED  BY <3>1, <3>3
  <2>4. /\ path' \in Seq(Node) /\ path' # <<>> /\ path'[1] = p
        /\ path'[Len(path')] = path[Len(path)]
    <3>1. Len(path) + 1 \in 2 .. Len(path) + 1 /\ (Len(path) + 1) - 1 = Len(path)
      BY <1>2, <2>1, PrependFacts
    <3> QED  BY <1>2, <2>1, <2>2, <3>1, PrependFacts
  <2>5. result' \in Results  BY <1>1, <2>2 DEF TypeOK
  <2>6. Spelled(path')  BY <1>1, <1>2, <2>1, <2>2, <2>3, SpelledPrepend DEF v
  <2>7. PathOK'
    <3>1. Spelled(path)'  BY <1>2, <2>2, <2>4, <2>5, <2>6, WalkKept
    <3>2. \A d \in Dir : Labelled(d)' = Labelled(d)
      BY <1>2, <2>2, <2>4, <2>5, WalkKept
    <3> QED  BY <1>2, <2>1, <2>2, <2>4, <3>1, <3>2 DEF PathOK, Dir, searchVars
  <2> QED  BY <1>2, <2>2, <2>4, <2>5, <2>7, WalkKept DEF IInv
<1> QED  BY <1>4, <1>5

LEMMA WalkRightStep == IInv /\ WalkRight => IInv'
<1> SUFFICES ASSUME IInv, WalkRight PROVE IInv'  OBVIOUS
<1>1. TypeOK /\ ParentsTight /\ LabelsBounded /\ PathOK /\ AnswerOK  BY DEF IInv
<1>2. /\ pc = "right" /\ UNCHANGED <<query, searchVars, lower>>
      /\ path \in Seq(Node) /\ path # <<>> /\ Spelled(path) /\ best # inf
      /\ path[1] \in Labelled("F") /\ path[Len(path)] \in Labelled("B")
      /\ path[1] = query.src
  BY <1>1 DEF WalkRight, PathOK, TypeOK
<1> DEFINE v == path[Len(path)]
           p == parent["B"][v]
<1>3. IF v = query.dst
      THEN pc' = "done" /\ result' = Reply("reachable", best, path, lower) /\ UNCHANGED path
      ELSE IF p = NoNode THEN GiveUp
      ELSE path' = Append(path, p) /\ UNCHANGED <<pc, result>>
  BY DEF WalkRight
<1> HIDE DEF p, v
<1>4. CASE v = query.dst
  <2>1. pc' = "done" /\ result' = Reply("reachable", best, path, lower) /\ UNCHANGED path
    BY <1>3, <1>4
  <2>2. result'.status = "reachable" /\ result'.distance = best /\ result'.path = path
    BY <2>1 DEF Reply
  <2>3. path' \in Seq(Node) /\ result' \in Results
    BY <1>1, <2>1 DEF TypeOK, Results, Reply
  <2>4. PathOK'
    <3>1. Spelled(result'.path)  BY <1>2, <2>2
    <3>2. Spelled(result.path)'
      BY <1>2, <2>1, <2>2, <2>3, WalkKept
    <3> QED  BY <1>2, <1>4, <2>1, <2>2, <3>2 DEF PathOK, v, searchVars
  <2> QED  BY <1>2, <2>1, <2>3, <2>4, WalkKept DEF IInv
<1>5. CASE v # query.dst
  <2>1. /\ p \in Node /\ p # NoNode /\ p \in Labelled("B")
        /\ \E a \in Arcs : /\ To("B", a) = v /\ From("B", a) = p
                           /\ dist["B"][v] = dist["B"][p] + query.cost[a]
    <3>1. v \in Labelled("B") /\ v # Root("B") /\ "B" \in Dir
      BY <1>2, <1>5 DEF v, Root, Dir
    <3> QED  BY <1>1, <3>1, ParentFacts DEF p
  <2>2. path' = Append(path, p) /\ UNCHANGED <<pc, result>>  BY <1>3, <1>5, <2>1
  <2>3. <<v, p>> \in Arcs /\ dist["B"][v] = dist["B"][p] + query.cost[<<v, p>>]
    <3>1. PICK a \in Arcs : /\ To("B", a) = v /\ From("B", a) = p
                            /\ dist["B"][v] = dist["B"][p] + query.cost[a]
      BY <2>1
    <3>2. a \in Node \X Node  BY <1>1 DEF TypeOK, IsQuery, Arcs
    <3>3. a = <<v, p>>  BY <3>1, <3>2 DEF To, From
    <3> QED  BY <3>1, <3>3
  <2>4. /\ path' \in Seq(Node) /\ path' # <<>> /\ path'[1] = path[1]
        /\ path'[Len(path')] = p
    <3>1. 1 \in 1 .. Len(path)  BY <1>2
    <3> QED  BY <1>2, <2>1, <2>2, <3>1, AppendFacts
  <2>5. result' \in Results  BY <1>1, <2>2 DEF TypeOK
  <2>6. Spelled(path')  BY <1>1, <1>2, <2>1, <2>2, <2>3, SpelledAppend DEF v
  <2>7. PathOK'
    <3>1. Spelled(path)'  BY <1>2, <2>2, <2>4, <2>5, <2>6, WalkKept
    <3>2. \A d \in Dir : Labelled(d)' = Labelled(d)
      BY <1>2, <2>2, <2>4, <2>5, WalkKept
    <3> QED  BY <1>2, <2>1, <2>2, <2>4, <3>1, <3>2 DEF PathOK, Dir, searchVars
  <2> QED  BY <1>2, <2>2, <2>4, <2>5, <2>7, WalkKept DEF IInv
<1> QED  BY <1>4, <1>5
-----------------------------------------------------------------------------
(* Begin.                                                                  *)

LEMMA BeginStep == IInv /\ Begin => IInv'
<1> SUFFICES ASSUME IInv, Begin PROVE IInv'  OBVIOUS
<1>1. TypeOK /\ InRangeNow  BY DEF IInv
<1>2. /\ \A d \in Dir : Labelled(d) = {} /\ settled[d] = {}
      /\ best = inf /\ meet = NoNode /\ bestReduced = inf /\ scan = {}
  BY DEF IInv, Idle, Started, Begin
<1>3. \A d \in Dir : \A v \in Node : dist[d][v] = inf  BY <1>2 DEF Labelled
<1>4. \A d \in Dir : Root(d) \in Node /\ Root(d)' = Root(d)
  BY <1>1 DEF Begin, Root, TypeOK, IsQuery
<1>5. \A d \in Dir : \A v \in Node :
        dist'[d][v] = IF v = Root(d) THEN 0 ELSE inf
  BY <1>1, <1>3, <1>4 DEF TypeOK, Begin
<1>6. inf \in Nat /\ inf # 0 /\ 0 \in Word
  BY WidthAssumption, RangeAssumption, MaxLabelType DEF inf, Word
<1>7. Arcs' = Arcs /\ Started'  BY DEF Begin, Arcs, Started
<1>8. Root("F") # Root("B")  BY DEF Begin, Root
<1>9. TypeOK'
  <2>1. dist' \in [Dir -> [Node -> Word]]
    BY <1>1, <1>4, <1>6 DEF TypeOK, Begin
  <2> QED  BY <1>1, <1>7, <2>1 DEF TypeOK, Begin, IsQuery, Consistent, From
<1>10. InRangeNow'  BY <1>1 DEF InRangeNow, Begin
<1>11. Idle' /\ RootsLabelled'
  BY <1>4, <1>5, <1>7 DEF Idle, RootsLabelled
<1>12. \A d \in Dir : settled'[d] = {} /\ Labelled(d)' = {Root(d)}
  BY <1>2, <1>4, <1>5, <1>6 DEF Begin, Labelled
<1>13. LabelsBounded'
  <2> SUFFICES ASSUME NEW d \in Dir, NEW v \in Node, v = Root(d)
               PROVE  dist'[d][v] <= Cap(d)' /\ Reduced(d, v)' >= 0
    BY <1>4, <1>12 DEF LabelsBounded
  <2>1. dist'[d][v] = 0  BY <1>5
  <2>2. Cap(d)' \in Nat  BY <1>9, CapBounded DEF TypeOK, Cap
  <2>3. Shift(d, v)' = Shift(d, v)  BY DEF Begin, Shift
  <2>4. Shift(d, v) = 0  BY <1>1, ShiftFacts
  <2>5. Reduced(d, v)' = 0  BY <2>1, <2>3, <2>4 DEF Reduced
  <2> QED  BY <2>1, <2>2, <2>5
<1>14. SettledFirst' /\ ScanOK' /\ EdgesRelaxed'
  BY <1>2, <1>12 DEF SettledFirst, ScanOK, EdgesRelaxed, Begin
<1>15. IncumbentTight'
  <2>1. \A v \in Node : dist'["F"][v] = inf \/ dist'["B"][v] = inf
    BY <1>5, <1>8 DEF Dir
  <2> QED  BY <1>2, <2>1 DEF IncumbentTight, Begin
<1>16. ParentsTight'
  <2> SUFFICES ASSUME NEW d \in Dir, NEW v \in Node
               PROVE  /\ parent'[d][v] = NoNode
                      /\ dist'[d][v] = inf \/ v = Root(d)
    BY <1>4 DEF ParentsTight
  <2> QED  BY <1>3, <1>5 DEF IInv, ParentsTight, Begin
<1>17. AnswerOK' /\ PathOK'  BY DEF IInv, AnswerOK, PathOK, Begin
<1> QED  BY <1>9, <1>10, <1>11, <1>13, <1>14, <1>15, <1>16, <1>17 DEF IInv

-----------------------------------------------------------------------------
(* Settle: the popped node had the least key of its heap.                  *)

\* A node that is already the best connection is never an improvement.
LEMMA NoImprovement ==
  ASSUME TypeOK, IncumbentTight, NEW v \in Node, UpdateBest(v, dist)
  PROVE  UNCHANGED <<best, meet, bestReduced>>
<1>1. ~ /\ dist["F"][v] # inf /\ dist["B"][v] # inf
        /\ dist["F"][v] <= inf - dist["B"][v]
        /\ dist["F"][v] + dist["B"][v] < best
  <2>1. CASE dist["F"][v] = inf \/ dist["B"][v] = inf  BY <2>1
  <2>2. CASE dist["F"][v] # inf /\ dist["B"][v] # inf
    <3>1. best <= dist["F"][v] + dist["B"][v]  BY <2>2 DEF IncumbentTight
    <3>2. best \in Int /\ dist["F"][v] \in Int /\ dist["B"][v] \in Int
      BY WidthAssumption DEF TypeOK, Word, Dir
    <3> QED  BY <3>1, <3>2
  <2> QED  BY <2>1, <2>2
<1> QED  BY <1>1 DEF UpdateBest, Improves

LEMMA SettleStep ==
  ASSUME IInv, NEW d \in Dir, Settle(d)
  PROVE  IInv'
<1>1. PICK f \in Front("F"), b \in Front("B") :
        LET v == IF d = "F" THEN f ELSE b
        IN  /\ ~BoundReached(f, b)
            /\ dir' = d /\ cur' = v
            /\ settled' = [settled EXCEPT ![d] = @ \cup {v}]
            /\ UpdateBest(v, dist)
            /\ scan' = IF Pruned(d, v, dist[d][v], best') THEN {} ELSE Edges(d, v)
  BY DEF Settle
<1> DEFINE v == IF d = "F" THEN f ELSE b
<1>2. v \in Front(d)  BY <1>1 DEF Dir
<1>3. /\ dir' = d /\ cur' = v
      /\ settled' = [settled EXCEPT ![d] = @ \cup {v}]
      /\ UpdateBest(v, dist)
      /\ scan' = Edges(d, v)
  BY <1>1 DEF Pruned, IInv, InRangeNow, InRange
<1> HIDE DEF v
<1>4. /\ pc = "search" /\ scan = {}
      /\ UNCHANGED <<query, pc, dist, parent, lower, path, result>>
  BY DEF Settle
<1>5. TypeOK /\ InRangeNow /\ LabelsBounded /\ SettledFirst /\ IncumbentTight
      /\ EdgesRelaxed /\ ParentsTight /\ RootsLabelled /\ Idle
  BY DEF IInv
<1>6. v \in Node /\ v \in Labelled(d) /\ v \notin settled[d] /\ v \in Open(d)
  BY <1>2 DEF Front, Open, Labelled
<1>7. UNCHANGED <<best, meet, bestReduced>>
  BY <1>3, <1>5, <1>6, NoImprovement
<1>8. /\ settled'[d] = settled[d] \cup {v}
      /\ \A e \in Dir : e # d => settled'[e] = settled[e]
      /\ \A e \in Dir : settled[e] \subseteq settled'[e] /\ settled'[e] \subseteq Node
  BY <1>3, <1>5, <1>6 DEF TypeOK
<1>9. /\ Arcs' = Arcs /\ (Started' <=> Started) /\ Started
      /\ \A e \in Dir : Root(e)' = Root(e) /\ Labelled(e)' = Labelled(e)
      /\ \A e \in Dir : \A u \in Node :
           Shift(e, u)' = Shift(e, u) /\ Key(e, u)' = Key(e, u)
           /\ Reduced(e, u)' = Reduced(e, u)
  <2>1. Started
    BY <1>4, <1>6, <1>5 DEF Idle
  <2> QED
    BY <1>4, <2>1 DEF Arcs, Started, Root, Labelled, Shift, Key, Reduced
<1>10. TypeOK'
  <2>1. settled' \in [Dir -> SUBSET Node]  BY <1>3, <1>5, <1>6 DEF TypeOK
  <2>2. scan' \subseteq {a \in Arcs' : From(dir', a) = cur'}
    BY <1>3, <1>9 DEF Edges
  <2> QED
    BY <1>3, <1>4, <1>5, <1>6, <1>7, <1>9, <2>1, <2>2
       DEF TypeOK, IsQuery, Consistent, From
<1>11. InRangeNow'  BY <1>4, <1>5 DEF InRangeNow
<1>12. Idle' /\ RootsLabelled'
  BY <1>4, <1>5, <1>9 DEF Idle, RootsLabelled
<1>13. /\ Cap(d) \in Nat /\ MaxCost \in Nat
       /\ Cap(d)' = Cap(d) + MaxCost
       /\ \A e \in Dir : e # d => Cap(e)' = Cap(e)
  BY <1>5, <1>6, <1>8, CapGrows, CapBounded, RangeAssumption DEF Cap, TypeOK
<1>14. LabelsBounded'
  <2> SUFFICES ASSUME NEW e \in Dir
               PROVE  /\ settled'[e] \subseteq Labelled(e)
                      /\ \A u \in Labelled(e) :
                           dist[e][u] <= Cap(e)' /\ Reduced(e, u) >= 0
    BY <1>4, <1>9 DEF LabelsBounded, Labelled
  <2>1. settled'[e] \subseteq Labelled(e)
    BY <1>5, <1>6, <1>8 DEF LabelsBounded
  <2>2. ASSUME NEW u \in Labelled(e)
        PROVE  dist[e][u] <= Cap(e)' /\ Reduced(e, u) >= 0
    <3>1. dist[e][u] \in Nat /\ dist[e][u] <= Cap(e) /\ Reduced(e, u) >= 0
      BY <1>5, LabelFacts DEF LabelsBounded
    <3> QED  BY <1>13, <3>1
  <2> QED  BY <2>1, <2>2
<1>15. \A u \in Open(d) : Reduced(d, v) <= Reduced(d, u)
  <2> SUFFICES ASSUME NEW u \in Open(d) PROVE Reduced(d, v) <= Reduced(d, u)
    OBVIOUS
  <2>1. u \in Labelled(d)  BY DEF Open, Labelled
  <2>2. Key(d, v) <= Key(d, u)  BY <1>2 DEF Front
  <2> QED  BY <1>5, <1>6, <2>1, <2>2, LabelFacts
<1>16. SettledFirst'
  <2> SUFFICES ASSUME NEW e \in Dir, NEW u \in settled'[e], NEW w \in Open(e)'
               PROVE  Reduced(e, u) <= Reduced(e, w)
    BY <1>8, <1>9 DEF SettledFirst, Open
  <2>1. w \in Open(e) /\ w \in Node
    BY <1>4, <1>8 DEF Open
  <2>2. CASE u \in settled[e]  BY <1>5, <2>1, <2>2 DEF SettledFirst
  <2>3. CASE u \notin settled[e]
    <3>1. e = d /\ u = v  BY <1>8, <2>3
    <3> QED  BY <1>15, <2>1, <3>1
  <2> QED  BY <2>2, <2>3
<1>17. ScanOK'
  <2>1. v \in settled'[d]  BY <1>8
  <2>2. dist[d][v] + MaxCost <= Cap(d)'
    <3>1. dist[d][v] \in Nat /\ dist[d][v] <= Cap(d)
      BY <1>5, <1>6, LabelFacts DEF LabelsBounded
    <3> QED  BY <1>13, <3>1
  <2>3. \A u \in settled'[d] : Reduced(d, u) <= Reduced(d, v)
    <3> SUFFICES ASSUME NEW u \in settled'[d] PROVE Reduced(d, u) <= Reduced(d, v)
      OBVIOUS
    <3>1. CASE u \in settled[d]  BY <1>5, <1>6, <3>1 DEF SettledFirst
    <3>2. CASE u = v
      <4>1. Reduced(d, v) \in Nat  BY <1>5, <1>6, LabelFacts
      <4> QED  BY <3>2, <4>1
    <3> QED  BY <1>8, <3>1, <3>2
  <2>4. \A u \in settled'[d] : u \in Node  BY <1>8
  <2> QED  BY <1>3, <1>4, <1>6, <1>9, <2>1, <2>2, <2>3, <2>4 DEF ScanOK, Cap, Reduced
<1>18. EdgesRelaxed'
  <2> SUFFICES ASSUME NEW e \in Dir, NEW a \in Arcs, From(e, a) \in settled'[e]
               PROVE  \/ e = d /\ a \in scan'
                      \/ dist[e][To(e, a)] <= dist[e][From(e, a)] + query.cost[a]
    BY <1>3, <1>4, <1>9 DEF EdgesRelaxed, From, To
  <2>1. CASE From(e, a) \in settled[e]
    BY <1>4, <1>5, <2>1 DEF EdgesRelaxed
  <2>2. CASE From(e, a) \notin settled[e]
    <3>1. e = d /\ From(d, a) = v  BY <1>8, <2>2
    <3> QED  BY <1>3, <3>1 DEF Edges
  <2> QED  BY <2>1, <2>2
<1>19. IncumbentTight'
  BY <1>4, <1>5, <1>7, <1>9 DEF IncumbentTight, Dir
<1>20. ParentsTight'
  BY <1>4, <1>5, <1>8, <1>9 DEF ParentsTight, From, To
<1>21. AnswerOK' /\ PathOK'  BY <1>4 DEF IInv, AnswerOK, PathOK
<1> QED  BY <1>10, <1>11, <1>12, <1>14, <1>16, <1>17, <1>18, <1>19, <1>20, <1>21
         DEF IInv
-----------------------------------------------------------------------------
(* Relax: the only step that writes a label.                               *)

\* What the relaxation of arc a writes, in terms of its head x and its label.
LEMMA RelaxEffect ==
  ASSUME IInv, Relax
  PROVE  \E a \in scan, x \in Node, label \in Nat, write \in BOOLEAN :
           /\ a \in Arcs /\ From(dir, a) = cur /\ To(dir, a) = x
           /\ cur \in settled[dir] /\ cur \in Node
           /\ label = dist[dir][cur] + query.cost[a]
           /\ label > 0 /\ label <= Cap(dir) /\ label <= MaxLabel
           /\ Reduced(dir, cur) <= 2 * label + Shift(dir, x)
           /\ write <=> label < dist[dir][x]
           /\ write => x \notin settled[dir] /\ x # Root(dir)
           /\ scan' = scan \ {a}
           /\ dist' = IF write THEN [dist EXCEPT ![dir][x] = label] ELSE dist
           /\ parent' = IF write THEN [parent EXCEPT ![dir][x] = cur] ELSE parent
           /\ UpdateBest(x, dist')
<1>1. PICK a \in scan :
        LET v     == To(dir, a)
            label == dist[dir][cur] + query.cost[a]
            fits  == dist[dir][cur] <= inf - query.cost[a]
            write == fits /\ label < dist[dir][v] /\ ~Pruned(dir, v, label, best)
        IN  /\ scan' = scan \ {a}
            /\ dist' = IF write THEN [dist EXCEPT ![dir][v] = label] ELSE dist
            /\ parent' = IF write THEN [parent EXCEPT ![dir][v] = cur] ELSE parent
            /\ IF fits THEN UpdateBest(v, dist')
               ELSE UNCHANGED <<best, meet, bestReduced>>
  BY DEF Relax
<1> DEFINE x     == To(dir, a)
           label == dist[dir][cur] + query.cost[a]
           write == label < dist[dir][x]
<1>2. TypeOK /\ InRangeNow /\ LabelsBounded /\ SettledFirst /\ ScanOK
      /\ RootsLabelled /\ Idle
  BY DEF IInv
<1>3. dir \in Dir /\ a \in Arcs /\ From(dir, a) = cur  BY <1>2 DEF TypeOK
<1>4. /\ cur \in settled[dir] /\ dist[dir][cur] + MaxCost <= Cap(dir)
      /\ \A u \in settled[dir] : Reduced(dir, u) <= Reduced(dir, cur)
  BY <1>2 DEF ScanOK
<1>5. cur \in Labelled(dir) /\ cur \in Node
  BY <1>2, <1>3, <1>4 DEF LabelsBounded, Labelled
<1>6. x \in Node /\ query.cost[a] \in Nat /\ query.cost[a] > 0
      /\ query.cost[a] <= MaxCost
      /\ Shift(dir, cur) <= 2 * query.cost[a] + Shift(dir, x)
  BY <1>2, <1>3, ArcFacts
<1>7. dist[dir][cur] \in Nat /\ MaxCost \in Nat /\ Cap(dir) \in Nat
      /\ Cap(dir) <= MaxLabel /\ MaxLabel \in Nat /\ MaxPhi \in Nat
      /\ inf \in Nat /\ 4 * MaxLabel + 3 * MaxPhi < inf
  BY <1>2, <1>3, <1>5, LabelFacts, CapBounded, RangeAssumption, MaxLabelType,
     WidthAssumption DEF Cap, TypeOK, inf
<1>8. /\ label \in Nat /\ label > 0 /\ label <= Cap(dir) /\ label <= MaxLabel
      /\ dist[dir][cur] <= inf - query.cost[a]
  BY <1>4, <1>6, <1>7
<1>9. Shift(dir, cur) \in Int /\ Shift(dir, x) \in Int
  BY <1>2, <1>3, <1>5, <1>6, ShiftFacts
<1>10. Reduced(dir, cur) <= 2 * label + Shift(dir, x)
  BY <1>6, <1>7, <1>9 DEF Reduced
<1>11. ASSUME write PROVE x \notin settled[dir] /\ x # Root(dir)
  <2>1. x \notin settled[dir]
    <3> SUFFICES ASSUME x \in settled[dir] PROVE FALSE  OBVIOUS
    <3>1. Reduced(dir, x) <= Reduced(dir, cur)  BY <1>4
    <3>2. dist[dir][x] \in Nat
      BY <1>2, <1>3, LabelFacts DEF LabelsBounded
    <3> HIDE DEF label, x
    <3>3. 2 * dist[dir][x] + Shift(dir, x) <= 2 * label + Shift(dir, x)
      BY <1>5, <1>2, <1>3, <1>8, <1>9, <1>10, <3>1, <3>2, LabelFacts DEF Reduced
    <3>4. dist[dir][x] <= label  BY <1>8, <1>9, <3>2, <3>3
    <3> QED  BY <1>8, <1>11, <3>2, <3>4
  <2>2. x # Root(dir)
    <3>1. Started  BY <1>2, <1>3 DEF Idle
    <3>2. dist[dir][Root(dir)] = 0  BY <1>2, <1>3, <3>1 DEF RootsLabelled
    <3> HIDE DEF label
    <3> QED  BY <1>8, <1>11, <3>2
  <2> QED  BY <2>1, <2>2
<1>12. /\ scan' = scan \ {a}
       /\ dist' = IF write THEN [dist EXCEPT ![dir][x] = label] ELSE dist
       /\ parent' = IF write THEN [parent EXCEPT ![dir][x] = cur] ELSE parent
       /\ UpdateBest(x, dist')
  BY <1>1, <1>2, <1>8 DEF Pruned, InRangeNow, InRange
<1> DEFINE wr == IF write THEN TRUE ELSE FALSE
<1>13. wr \in BOOLEAN /\ (wr <=> write)  OBVIOUS
<1> HIDE DEF x, label, write, wr
<1>14. wr <=> label < dist[dir][x]  BY <1>13 DEF write
<1> USE <1>6, <1>8, <1>13
<1> WITNESS a \in scan, x \in Node, label \in Nat, wr \in BOOLEAN
<1> QED
  BY <1>3, <1>4, <1>5, <1>8, <1>10, <1>11, <1>12, <1>13, <1>14 DEF x, label

LEMMA RelaxStep == IInv /\ Relax => IInv'
<1> SUFFICES ASSUME IInv, Relax PROVE IInv'  OBVIOUS
<1>1. PICK a \in scan, x \in Node, label \in Nat, write \in BOOLEAN :
        /\ a \in Arcs /\ From(dir, a) = cur /\ To(dir, a) = x
        /\ cur \in settled[dir] /\ cur \in Node
        /\ label = dist[dir][cur] + query.cost[a]
        /\ label > 0 /\ label <= Cap(dir) /\ label <= MaxLabel
        /\ Reduced(dir, cur) <= 2 * label + Shift(dir, x)
        /\ write <=> label < dist[dir][x]
        /\ write => x \notin settled[dir] /\ x # Root(dir)
        /\ scan' = scan \ {a}
        /\ dist' = IF write THEN [dist EXCEPT ![dir][x] = label] ELSE dist
        /\ parent' = IF write THEN [parent EXCEPT ![dir][x] = cur] ELSE parent
        /\ UpdateBest(x, dist')
  BY RelaxEffect
<1>2. /\ pc = "search" /\ UNCHANGED <<query, pc, settled, dir, cur, lower, path, result>>
  BY DEF Relax
<1>3. /\ TypeOK /\ InRangeNow /\ LabelsBounded /\ SettledFirst /\ ScanOK
      /\ EdgesRelaxed /\ IncumbentTight /\ ParentsTight /\ RootsLabelled /\ Idle
      /\ dir \in Dir
  BY DEF IInv, TypeOK
<1>4. /\ MaxLabel \in Nat /\ MaxPhi \in Nat /\ inf \in Nat
      /\ 4 * MaxLabel + 3 * MaxPhi < inf
  BY RangeAssumption, MaxLabelType, WidthAssumption DEF inf
<1>5. \A e \in Dir : \A w \in Node :
        /\ dist'[e][w] = IF write /\ e = dir /\ w = x THEN label ELSE dist[e][w]
        /\ parent'[e][w] = IF write /\ e = dir /\ w = x THEN cur ELSE parent[e][w]
        /\ dist[e][w] \in Nat /\ dist[e][w] <= inf
  BY <1>1, <1>3, <1>4 DEF TypeOK, Word, inf
<1>6. /\ Arcs' = Arcs /\ (Started' <=> Started) /\ Started
      /\ \A e \in Dir : Root(e)' = Root(e) /\ Cap(e)' = Cap(e)
      /\ \A e \in Dir : \A w \in Node : Shift(e, w)' = Shift(e, w)
  <2>1. Started  BY <1>1 DEF IInv, Idle
  <2> QED  BY <1>2, <2>1 DEF Arcs, Started, Root, Cap, Shift
<1>7. \A e \in Dir : \A w \in Node :
        /\ dist'[e][w] \in Nat /\ dist'[e][w] <= dist[e][w]
        /\ w \in settled[e] => dist'[e][w] = dist[e][w] /\ parent'[e][w] = parent[e][w]
  BY <1>1, <1>5
<1>8. \A e \in Dir : \A w \in Node :
        /\ Shift(e, w) \in Int /\ Shift(e, w) <= MaxPhi
        /\ Shift("F", w) + Shift("B", w) = query.phi[query.dst] - query.phi[query.src]
  BY <1>3, ShiftFacts
<1>9. \A e \in Dir : \A w \in Node : dist'[e][w] # inf =>
        /\ dist'[e][w] <= Cap(e) /\ dist'[e][w] <= MaxLabel
        /\ 0 <= 2 * dist'[e][w] + Shift(e, w)
        /\ Key(e, w)' = 2 * dist'[e][w] + Shift(e, w)
  <2> SUFFICES ASSUME NEW e \in Dir, NEW w \in Node, dist'[e][w] # inf
               PROVE  /\ dist'[e][w] <= Cap(e) /\ dist'[e][w] <= MaxLabel
                      /\ 0 <= 2 * dist'[e][w] + Shift(e, w)
                      /\ Key(e, w)' = 2 * dist'[e][w] + Shift(e, w)
    OBVIOUS
  <2>1. CASE write /\ e = dir /\ w = x
    <3>1. dist'[e][w] = label  BY <1>5, <2>1
    <3>2. Reduced(dir, cur) \in Nat
      BY <1>1, <1>3, LabelFacts DEF LabelsBounded
    <3>3. 0 <= 2 * label + Shift(dir, x)  BY <1>1, <1>3, <1>8, <3>2
    <3>4. doubledPlusSigned(label, Shift(dir, x)) = 2 * label + Shift(dir, x)
      BY <1>1, <1>3, <1>4, <1>8, <3>3, DoubledExact
    <3>5. Key(e, w)' = doubledPlusSigned(label, Shift(dir, x))
      BY <1>6, <2>1, <3>1 DEF Key
    <3> QED  BY <1>1, <2>1, <3>1, <3>3, <3>4, <3>5
  <2>2. CASE ~(write /\ e = dir /\ w = x)
    <3>1. dist'[e][w] = dist[e][w]  BY <1>5, <2>2
    <3>2. w \in Labelled(e)  BY <3>1 DEF Labelled
    <3>3. Key(e, w)' = Key(e, w)  BY <1>6, <3>1 DEF Key
    <3> QED  BY <1>3, <3>1, <3>2, <3>3, LabelFacts DEF LabelsBounded, Reduced
  <2> QED  BY <2>1, <2>2
<1>10. /\ UNCHANGED <<best, meet, bestReduced>>
          \/ /\ dist'["F"][x] # inf /\ dist'["B"][x] # inf
             /\ best' = dist'["F"][x] + dist'["B"][x]
             /\ best' < best
             /\ meet' = x
             /\ bestReduced' = Key("F", x)' + Key("B", x)'
             /\ bestReduced' \in Word
       /\ dist'["F"][x] # inf /\ dist'["B"][x] # inf
            => best' <= dist'["F"][x] + dist'["B"][x]
  <2>1. "F" \in Dir /\ "B" \in Dir  BY DEF Dir
  <2>2. best \in Nat /\ best <= inf  BY <1>3, <1>4 DEF TypeOK, Word, inf
  <2>3. CASE dist'["F"][x] = inf \/ dist'["B"][x] = inf
    BY <1>1, <2>3 DEF UpdateBest, Improves
  <2>4. CASE dist'["F"][x] # inf /\ dist'["B"][x] # inf
    <3> DEFINE sum == dist'["F"][x] + dist'["B"][x]
               phiS == query.phi[query.src]
               phiT == query.phi[query.dst]
    <3>1. /\ dist'["F"][x] \in Nat /\ dist'["B"][x] \in Nat
          /\ dist'["F"][x] <= MaxLabel /\ dist'["B"][x] <= MaxLabel
      BY <1>7, <1>9, <2>1, <2>4
    <3>2. sum \in Nat /\ sum <= 2 * MaxLabel /\ sum < inf
          /\ dist'["F"][x] <= inf - dist'["B"][x]
      BY <1>4, <3>1
    <3>3. /\ Key("F", x)' + Key("B", x)' = 2 * sum + (phiT - phiS)
          /\ 0 <= 2 * sum + (phiT - phiS)
          /\ phiT - phiS \in Int /\ phiT - phiS <= MaxPhi
      <4>1. /\ Key("F", x)' = 2 * dist'["F"][x] + Shift("F", x)
            /\ Key("B", x)' = 2 * dist'["B"][x] + Shift("B", x)
            /\ 0 <= 2 * dist'["F"][x] + Shift("F", x)
            /\ 0 <= 2 * dist'["B"][x] + Shift("B", x)
        BY <1>9, <2>1, <2>4
      <4>2. /\ Shift("F", x) \in Int /\ Shift("B", x) \in Int
            /\ Shift("F", x) + Shift("B", x) = phiT - phiS
            /\ phiS \in Int /\ phiT \in Int /\ phiT - phiS <= MaxPhi
        BY <1>3, <2>1, ShiftFacts
      <4> QED  BY <3>1, <4>1, <4>2
    <3> HIDE DEF sum, phiS, phiT
    <3>4. doubledPlusSigned(sum, phiT - phiS) = 2 * sum + (phiT - phiS)
      BY <3>2, <3>3, DoubledExact
    <3>5. originalToReducedUpperBound(sum, phiS, phiT) = Key("F", x)' + Key("B", x)'
      BY <3>3, <3>4 DEF originalToReducedUpperBound
    <3>6. Key("F", x)' + Key("B", x)' \in Word
      BY <1>4, <3>2, <3>3 DEF Word, inf
    <3>7. CASE sum < best
      BY <1>1, <1>2, <2>4, <3>2, <3>5, <3>6, <3>7 DEF UpdateBest, Improves, sum, phiS, phiT
    <3>8. CASE ~(sum < best)
      BY <1>1, <2>2, <2>4, <3>2, <3>8 DEF UpdateBest, Improves, sum
    <3> QED  BY <3>7, <3>8
  <2> QED  BY <2>3, <2>4
<1>11. TypeOK'
  <2>1. dist' \in [Dir -> [Node -> Word]]
    <3>1. CASE write
      <4>1. label \in Word  BY <1>1, <1>4 DEF Word, inf
      <4> QED  BY <1>1, <1>3, <3>1, <4>1 DEF TypeOK
    <3>2. CASE ~write  BY <1>1, <1>3, <3>2 DEF TypeOK
    <3> QED  BY <3>1, <3>2
  <2>2. parent' \in [Dir -> [Node -> Node \cup {NoNode}]]
    BY <1>1, <1>3 DEF TypeOK
  <2>3. best' \in Word /\ bestReduced' \in Word /\ meet' \in Node \cup {NoNode}
    <3>1. CASE UNCHANGED <<best, meet, bestReduced>>  BY <1>3, <3>1 DEF TypeOK
    <3>2. CASE ~UNCHANGED <<best, meet, bestReduced>>
      <4>1. dist'["F"][x] \in Nat /\ dist'["B"][x] \in Nat  BY <1>7 DEF Dir
      <4>2. best \in Nat /\ best <= inf  BY <1>3, <1>4 DEF TypeOK, Word, inf
      <4>3. best' \in Word  BY <1>4, <1>10, <3>2, <4>1, <4>2 DEF Word, inf
      <4> QED  BY <1>10, <3>2, <4>3
    <3> QED  BY <3>1, <3>2
  <2>4. scan' \subseteq {e \in Arcs' : From(dir', e) = cur'}
    BY <1>1, <1>2, <1>3, <1>6 DEF TypeOK, From
  <2> QED
    BY <1>2, <1>3, <2>1, <2>2, <2>3, <2>4 DEF TypeOK, IsQuery, Consistent
<1>12. InRangeNow'  BY <1>2, <1>3 DEF InRangeNow
<1>13. Idle' /\ RootsLabelled'
  <2>1. \A e \in Dir : Root(e) \in Node  BY <1>3 DEF TypeOK, IsQuery, Root
  <2>2. \A e \in Dir : dist[e][Root(e)] = 0  BY <1>3, <1>6 DEF RootsLabelled
  <2>3. \A e \in Dir : dist'[e][Root(e)] = 0  BY <1>1, <1>5, <2>1, <2>2
  <2> QED  BY <1>6, <2>3 DEF Idle, RootsLabelled
<1>14. LabelsBounded'
  <2> SUFFICES ASSUME NEW e \in Dir
               PROVE  /\ settled[e] \subseteq Labelled(e)'
                      /\ \A w \in Labelled(e)' :
                           dist'[e][w] <= Cap(e) /\ Reduced(e, w)' >= 0
    BY <1>2, <1>6 DEF LabelsBounded
  <2>1. settled[e] \subseteq Labelled(e)'
    BY <1>3, <1>7 DEF LabelsBounded, Labelled, TypeOK
  <2>2. ASSUME NEW w \in Node, dist'[e][w] # inf
        PROVE  dist'[e][w] <= Cap(e) /\ Reduced(e, w)' >= 0
    <3>1. Reduced(e, w)' = 2 * dist'[e][w] + Shift(e, w)  BY <1>6 DEF Reduced
    <3> QED  BY <1>7, <1>8, <1>9, <2>2, <3>1
  <2> QED  BY <2>1, <2>2 DEF Labelled
<1>15. \A e \in Dir : \A u \in settled[e] :
         u \in Node /\ Reduced(e, u)' = Reduced(e, u) /\ Reduced(e, u) \in Nat
  BY <1>3, <1>6, <1>7, LabelFacts DEF Reduced, TypeOK, LabelsBounded
<1>16. SettledFirst'
  <2> SUFFICES ASSUME NEW e \in Dir, NEW u \in settled[e], NEW w \in Node,
                      dist'[e][w] # inf, w \notin settled[e]
               PROVE  Reduced(e, u)' <= Reduced(e, w)'
    BY <1>2 DEF SettledFirst, Open
  <2>1. CASE write /\ e = dir /\ w = x
    <3>1. Reduced(e, w)' = 2 * label + Shift(dir, x)
      BY <1>5, <1>6, <2>1 DEF Reduced
    <3>2. Reduced(e, u) <= Reduced(e, cur)  BY <1>1, <1>3, <2>1 DEF ScanOK
    <3>3. Reduced(e, cur) \in Nat /\ Shift(dir, x) \in Int
      BY <1>1, <1>3, <1>8, <1>15, <2>1
    <3> QED  BY <1>1, <1>15, <2>1, <3>1, <3>2, <3>3
  <2>2. CASE ~(write /\ e = dir /\ w = x)
    <3>1. dist'[e][w] = dist[e][w]  BY <1>5, <2>2
    <3>2. Reduced(e, w)' = Reduced(e, w)  BY <1>6, <3>1 DEF Reduced
    <3>3. w \in Open(e)  BY <3>1 DEF Open
    <3> QED  BY <1>3, <1>15, <3>2, <3>3 DEF SettledFirst
  <2> QED  BY <2>1, <2>2
<1>17. ScanOK'
  <2>1. dist'[dir][cur] = dist[dir][cur]  BY <1>1, <1>3, <1>7
  <2>2. dist[dir][cur] + MaxCost <= Cap(dir)
        /\ \A u \in settled[dir] : Reduced(dir, u) <= Reduced(dir, cur)
    BY <1>1, <1>3 DEF ScanOK
  <2>3. \A u \in settled[dir] :
          2 * dist'[dir][u] + Shift(dir, u) <= 2 * dist'[dir][cur] + Shift(dir, cur)
    BY <1>1, <1>3, <1>7, <1>15, <2>2 DEF Reduced
  <2>4. Cap(dir)' = Cap(dir)  BY <1>2 DEF Cap
  <2> QED  BY <1>1, <1>2, <2>1, <2>2, <2>3, <2>4 DEF ScanOK, Reduced, Shift
<1>18. EdgesRelaxed'
  <2> SUFFICES ASSUME NEW e \in Dir, NEW y \in Arcs, From(e, y) \in settled[e]
               PROVE  \/ e = dir /\ y \in scan'
                      \/ dist'[e][To(e, y)] <= dist'[e][From(e, y)] + query.cost[y]
    BY <1>2, <1>6 DEF EdgesRelaxed, From, To
  <2>1. /\ To(e, y) \in Node /\ From(e, y) \in Node /\ query.cost[y] \in Nat
    BY <1>3, ArcFacts
  <2>2. /\ dist'[e][From(e, y)] = dist[e][From(e, y)]
        /\ dist'[e][To(e, y)] <= dist[e][To(e, y)]
        /\ dist'[e][To(e, y)] \in Nat
    BY <1>7, <2>1
  <2>3. dist[e][From(e, y)] \in Nat /\ dist[e][To(e, y)] \in Nat
    BY <1>5, <2>1
  <2>4. CASE e = dir /\ y = a
    <3>1. dist'[e][To(e, y)] <= label  BY <1>1, <1>5, <2>1, <2>3, <2>4
    <3> QED  BY <1>1, <2>2, <2>4, <3>1
  <2>5. CASE e = dir /\ y \in scan /\ y # a  BY <1>1, <2>5
  <2>6. CASE ~(e = dir /\ y \in scan)
    <3>1. dist[e][To(e, y)] <= dist[e][From(e, y)] + query.cost[y]
      BY <1>3, <2>6 DEF EdgesRelaxed
    <3> QED  BY <2>1, <2>2, <2>3, <3>1
  <2> QED  BY <2>4, <2>5, <2>6
<1>19. IncumbentTight'
  <2>1. "F" \in Dir /\ "B" \in Dir  BY DEF Dir
  <2>2. best \in Nat /\ best <= inf  BY <1>3, <1>4 DEF TypeOK, Word, inf
  <2>3. \A v \in Node : v # x =>
          /\ dist'["F"][v] = dist["F"][v] /\ dist'["B"][v] = dist["B"][v]
          /\ Key("F", v)' = Key("F", v) /\ Key("B", v)' = Key("B", v)
    BY <1>5, <1>6, <2>1 DEF Key
  <2>4. CASE /\ dist'["F"][x] # inf /\ dist'["B"][x] # inf
             /\ best' = dist'["F"][x] + dist'["B"][x]
             /\ best' < best
             /\ meet' = x
             /\ bestReduced' = Key("F", x)' + Key("B", x)'
    <3>1. best' \in Nat /\ best' # inf  BY <1>7, <2>1, <2>2, <2>4
    <3>2. ASSUME NEW v \in Node, dist'["F"][v] # inf, dist'["B"][v] # inf
          PROVE  best' <= dist'["F"][v] + dist'["B"][v]
      <4>1. CASE v = x  BY <2>4, <3>1, <4>1
      <4>2. CASE v # x
        <5>1. best <= dist'["F"][v] + dist'["B"][v]
          BY <1>3, <2>3, <3>2, <4>2 DEF IncumbentTight
        <5>2. dist'["F"][v] + dist'["B"][v] \in Nat  BY <1>7, <2>1
        <5> QED  BY <2>2, <2>4, <3>1, <5>1, <5>2
      <4> QED  BY <4>1, <4>2
    <3> QED  BY <2>4, <3>1, <3>2 DEF IncumbentTight
  <2>5. CASE UNCHANGED <<best, meet, bestReduced>>
    <3>1. ASSUME NEW v \in Node, dist'["F"][v] # inf, dist'["B"][v] # inf
          PROVE  best' <= dist'["F"][v] + dist'["B"][v]
      <4>1. CASE v = x  BY <1>10, <3>1, <4>1
      <4>2. CASE v # x  BY <1>3, <2>3, <2>5, <3>1, <4>2 DEF IncumbentTight
      <4> QED  BY <4>1, <4>2
    <3>2. ASSUME best # inf, NEW m \in Node, m = meet
          PROVE  /\ best = dist'["F"][m] + dist'["B"][m]
                 /\ bestReduced = Key("F", m)' + Key("B", m)'
      <4>1. /\ best = dist["F"][m] + dist["B"][m]
            /\ bestReduced = Key("F", m) + Key("B", m)
        BY <1>3, <3>2 DEF IncumbentTight
      <4>2. CASE m # x  BY <2>3, <4>1, <4>2
      <4>3. CASE m = x
        <5>1. /\ dist["F"][x] \in Nat /\ dist["B"][x] \in Nat
              /\ dist["F"][x] <= inf /\ dist["B"][x] <= inf
              /\ dist'["F"][x] \in Nat /\ dist'["B"][x] \in Nat
              /\ dist'["F"][x] <= dist["F"][x] /\ dist'["B"][x] <= dist["B"][x]
          BY <1>5, <1>7, <2>1
        <5>2. dist["F"][x] # inf /\ dist["B"][x] # inf
          BY <1>4, <2>2, <3>2, <4>1, <4>3, <5>1
        <5>3. dist'["F"][x] # inf /\ dist'["B"][x] # inf
          BY <5>1, <5>2
        <5>4. best <= dist'["F"][x] + dist'["B"][x]  BY <1>10, <2>5, <5>3
        <5>5. dist'["F"][x] = dist["F"][x] /\ dist'["B"][x] = dist["B"][x]
          <6>1. dist["F"][x] + dist["B"][x] <= dist'["F"][x] + dist'["B"][x]
            BY <4>1, <4>3, <5>4
          <6> QED  BY <5>1, <6>1
        <5>6. Key("F", x)' = Key("F", x) /\ Key("B", x)' = Key("B", x)
          BY <1>6, <2>1, <5>5 DEF Key
        <5> QED  BY <4>1, <4>3, <5>5, <5>6
      <4> QED  BY <4>2, <4>3
    <3>4. best # inf => meet \in Node  BY <1>3 DEF IncumbentTight
    <3>3. best = inf => meet = NoNode /\ bestReduced = inf
      BY <1>3 DEF IncumbentTight
    <3> QED  BY <2>5, <3>1, <3>2, <3>3, <3>4 DEF IncumbentTight
  <2> QED  BY <1>10, <2>4, <2>5
<1>20. ParentsTight'
  <2> SUFFICES ASSUME NEW e \in Dir, NEW v \in Node
               PROVE  IF dist'[e][v] = inf \/ v = Root(e) THEN parent'[e][v] = NoNode
                      ELSE \E y \in Arcs :
                             /\ To(e, y) = v /\ From(e, y) = parent'[e][v]
                             /\ parent'[e][v] \in settled[e]
                             /\ dist'[e][v] = dist'[e][parent'[e][v]] + query.cost[y]
    BY <1>2, <1>6 DEF ParentsTight, From, To
  <2>1. CASE write /\ e = dir /\ v = x
    <3>1. dist'[e][v] = label /\ parent'[e][v] = cur  BY <1>5, <2>1
    <3>2. label # inf /\ v # Root(e)  BY <1>1, <1>4, <2>1
    <3>3. dist'[e][cur] = dist[e][cur]  BY <1>1, <1>7, <2>1
    <3> QED  BY <1>1, <2>1, <3>1, <3>2, <3>3
  <2>2. CASE ~(write /\ e = dir /\ v = x)
    <3>1. dist'[e][v] = dist[e][v] /\ parent'[e][v] = parent[e][v]
      BY <1>5, <2>2
    <3>2. IF dist[e][v] = inf \/ v = Root(e) THEN parent[e][v] = NoNode
          ELSE \E y \in Arcs :
                 /\ To(e, y) = v /\ From(e, y) = parent[e][v]
                 /\ parent[e][v] \in settled[e]
                 /\ dist[e][v] = dist[e][parent[e][v]] + query.cost[y]
      BY <1>3 DEF ParentsTight
    <3>3. parent[e][v] \in settled[e] => dist'[e][parent[e][v]] = dist[e][parent[e][v]]
      BY <1>3, <1>7 DEF TypeOK
    <3> QED  BY <3>1, <3>2, <3>3
  <2> QED  BY <2>1, <2>2
<1>21. AnswerOK' /\ PathOK'  BY <1>2 DEF IInv, AnswerOK, PathOK
<1> QED  BY <1>11, <1>12, <1>13, <1>14, <1>16, <1>17, <1>18, <1>19, <1>20, <1>21
         DEF IInv

-----------------------------------------------------------------------------
(* The invariant, and what follows from it.                                *)

LEMMA NextIInv == IInv /\ [Next]_vars => IInv'
<1> SUFFICES ASSUME IInv, [Next]_vars PROVE IInv'  OBVIOUS
<1>1. CASE AnswerTrivial  BY <1>1, TrivialStep
<1>2. CASE Begin  BY <1>2, BeginStep
<1>3. CASE Settle("F")  BY <1>3, SettleStep DEF Dir
<1>4. CASE Settle("B")  BY <1>4, SettleStep DEF Dir
<1>5. CASE Relax  BY <1>5, RelaxStep
<1>6. CASE StopAtBound  BY <1>6, StopAtBoundStep
<1>7. CASE StopExhausted  BY <1>7, StopExhaustedStep
<1>8. CASE Cancel  BY <1>8, CancelStep
<1>9. CASE WalkLeft  BY <1>9, WalkLeftStep
<1>10. CASE WalkRight  BY <1>10, WalkRightStep
<1>11. CASE Returned \/ UNCHANGED vars  BY <1>11, StutterStep DEF Returned
<1> QED
  BY <1>1, <1>2, <1>3, <1>4, <1>5, <1>6, <1>7, <1>8, <1>9, <1>10, <1>11 DEF Next, Work

\* Every reachable state satisfies the inductive invariant, whatever direction
\* the scheduler picks before each pop.
THEOREM Invariance == Spec => []IInv
<1>1. Init => IInv  BY InitIInv
<1>2. IInv /\ [Next]_vars => IInv'  BY NextIInv
<1> QED  BY <1>1, <1>2, PTL DEF Spec

\* Type correctness.
THEOREM TypeCorrect == Spec => []TypeOK
<1>1. IInv => TypeOK  BY DEF IInv
<1> QED  BY <1>1, Invariance, PTL

\* The incumbent is always the cheapest connection, on both scales.
THEOREM IncumbentAlwaysTight == Spec => []IncumbentTight
<1>1. IInv => IncumbentTight  BY DEF IInv
<1> QED  BY <1>1, Invariance, PTL

\* The parents of every labelled node spell a path of exactly its label.
THEOREM ParentsAlwaysTight == Spec => []ParentsTight
<1>1. IInv => ParentsTight  BY DEF IInv
<1> QED  BY <1>1, Invariance, PTL

\* Neither radix heap is ever asked to accept a key below one it delivered.
THEOREM KeysAlwaysMonotone == Spec => []KeysMonotone
<1>1. ASSUME IInv PROVE KeysMonotone
  <2> SUFFICES ASSUME NEW d \in Dir, NEW u \in settled[d], NEW v \in Open(d)
               PROVE  Key(d, u) <= Key(d, v)
    BY DEF KeysMonotone
  <2>1. TypeOK /\ InRangeNow /\ LabelsBounded /\ SettledFirst  BY <1>1 DEF IInv
  <2>2. u \in Labelled(d) /\ v \in Labelled(d)
    BY <2>1 DEF LabelsBounded, Open, Labelled
  <2>3. Reduced(d, u) <= Reduced(d, v)  BY <2>1 DEF SettledFirst
  <2> QED  BY <2>1, <2>2, <2>3, LabelFacts
<1>2. IInv => KeysMonotone  BY <1>1
<1> QED  BY <1>2, Invariance, PTL

\* The answer is the incumbent, or an incumbent was never found: the walk over the
\* parents neither fails nor goes astray, and the path it returns runs from the
\* source to the target along arcs whose costs telescope to the distance.
THEOREM PathAlwaysExact == Spec => []PathOK
<1>1. IInv => PathOK  BY DEF IInv
<1> QED  BY <1>1, Invariance, PTL

\* No route that was found is reported as missing.
THEOREM IncumbentAlwaysReconstructs == Spec => []IncumbentReconstructs
<1>1. IInv => IncumbentReconstructs  BY DEF IInv, PathOK, IncumbentReconstructs
<1> QED  BY <1>1, Invariance, PTL

\* A settled label is never written again, and neither is its parent
\* (acbs.go:284-402 has no test of its own for it).
THEOREM SettledAlwaysFinal == Spec => SettledIsFinal
<1> DEFINE Kept == \A d \in Dir : \A v \in settled[d] :
                     /\ v \in settled'[d]
                     /\ dist'[d][v] = dist[d][v]
                     /\ parent'[d][v] = parent[d][v]
<1>1. ASSUME IInv, Next PROVE Kept
  <2>1. TypeOK  BY <1>1 DEF IInv
  <2>2. CASE UNCHANGED <<dist, parent, settled>>  BY <2>2
  <2>3. CASE Begin
    BY <1>1, <2>3 DEF IInv, Idle, Started, Begin
  <2>4. ASSUME NEW e \in Dir, Settle(e) PROVE Kept
    <3>1. PICK v \in Node : settled' = [settled EXCEPT ![e] = @ \cup {v}]
      BY <2>4 DEF Settle, Front, Open
    <3>2. \A d \in Dir : settled[d] \subseteq settled'[d]
      <4> SUFFICES ASSUME NEW d \in Dir PROVE settled[d] \subseteq settled'[d]
        OBVIOUS
      <4>1. settled'[d] = IF d = e THEN settled[d] \cup {v} ELSE settled[d]
        BY <2>1, <3>1 DEF TypeOK
      <4> QED  BY <4>1
    <3>3. UNCHANGED <<dist, parent>>  BY <2>4 DEF Settle
    <3> QED  BY <3>2, <3>3
  <2>5. CASE Relax
    <3>1. PICK a \in scan, x \in Node, label \in Nat, write \in BOOLEAN :
            /\ write => x \notin settled[dir] /\ x # Root(dir)
            /\ dist' = IF write THEN [dist EXCEPT ![dir][x] = label] ELSE dist
            /\ parent' = IF write THEN [parent EXCEPT ![dir][x] = cur] ELSE parent
      BY <1>1, <2>5, RelaxEffect
    <3>2. settled' = settled /\ \A d \in Dir : settled[d] \subseteq Node
      BY <2>1, <2>5 DEF Relax, TypeOK
    <3>3. CASE ~write  BY <3>1, <3>2, <3>3
    <3>4. CASE write
      <4> SUFFICES ASSUME NEW d \in Dir, NEW v \in settled[d]
                   PROVE  dist'[d][v] = dist[d][v] /\ parent'[d][v] = parent[d][v]
        BY <3>2
      <4>1. d # dir \/ v # x  BY <3>1, <3>4
      <4>2. v \in Node  BY <3>2
      <4> QED  BY <2>1, <3>1, <3>4, <4>1, <4>2 DEF TypeOK
    <3> QED  BY <3>3, <3>4
  <2> QED
    BY <1>1, <2>2, <2>3, <2>4, <2>5
       DEF Next, Work, AnswerTrivial, StopAtBound, StopExhausted, Cancel, Returned,
           WalkLeft, WalkRight, searchVars, vars, Dir
<1>2. ASSUME IInv, [Next]_vars PROVE [Kept]_vars  BY <1>1, <1>2
<1>3. Spec => [][Next]_vars  BY DEF Spec
<1>4. Spec => [][Kept]_vars  BY <1>2, <1>3, Invariance, PTL
<1> QED  BY <1>4 DEF SettledIsFinal
-----------------------------------------------------------------------------
(* Facts about a search at rest *)

LEMMA SumsOnKeyScale ==
  ASSUME NEW m1 \in Nat, NEW m2 \in Nat, NEW v1 \in Nat, NEW v2 \in Nat,
         NEW a1 \in Int, NEW a2 \in Int, NEW b1 \in Int, NEW b2 \in Int,
         NEW s \in Int, a1 + a2 = s, b1 + b2 = s, m1 + m2 <= v1 + v2
  PROVE  /\ (2 * m1 + a1) + (2 * m2 + a2) = 2 * (m1 + m2) + s
         /\ (2 * m1 + a1) + (2 * m2 + a2) <= (2 * v1 + b1) + (2 * v2 + b2)
OBVIOUS

\* On the scale of the keys too, the incumbent is the cheapest connection.
LEMMA ReducedIncumbent ==
  ASSUME IInv, best # inf, NEW v \in Labelled("F"), v \in Labelled("B")
  PROVE  /\ bestReduced = 2 * best + (query.phi[query.dst] - query.phi[query.src])
         /\ bestReduced <= Reduced("F", v) + Reduced("B", v)
         /\ bestReduced \in Int /\ best \in Nat
<1>1. TypeOK /\ InRangeNow /\ LabelsBounded /\ IncumbentTight /\ "F" \in Dir /\ "B" \in Dir
  BY DEF IInv, Dir
<1>2. /\ meet \in Node
      /\ best = dist["F"][meet] + dist["B"][meet]
      /\ bestReduced = Key("F", meet) + Key("B", meet)
      /\ best <= dist["F"][v] + dist["B"][v]
  BY <1>1 DEF IncumbentTight, Labelled
<1>3. meet \in Labelled("F") /\ meet \in Labelled("B")
  BY <1>1, <1>2, WidthAssumption DEF TypeOK, Word, Labelled, inf
<1>4. \A e \in Dir : \A u \in Node :
        /\ Shift(e, u) \in Int
        /\ Shift("F", u) + Shift("B", u) = query.phi[query.dst] - query.phi[query.src]
        /\ query.phi[query.src] \in Int /\ query.phi[query.dst] \in Int
  BY <1>1, ShiftFacts
<1>5. /\ dist["F"][meet] \in Nat /\ dist["B"][meet] \in Nat
      /\ dist["F"][v] \in Nat /\ dist["B"][v] \in Nat /\ v \in Node
      /\ Key("F", meet) = 2 * dist["F"][meet] + Shift("F", meet)
      /\ Key("B", meet) = 2 * dist["B"][meet] + Shift("B", meet)
      /\ Reduced("F", v) = 2 * dist["F"][v] + Shift("F", v)
      /\ Reduced("B", v) = 2 * dist["B"][v] + Shift("B", v)
  BY <1>1, <1>3, LabelFacts DEF Reduced
<1>6. /\ Shift("F", meet) \in Int /\ Shift("B", meet) \in Int
      /\ Shift("F", v) \in Int /\ Shift("B", v) \in Int
      /\ Shift("F", meet) + Shift("B", meet) = query.phi[query.dst] - query.phi[query.src]
      /\ Shift("F", v) + Shift("B", v) = query.phi[query.dst] - query.phi[query.src]
      /\ query.phi[query.dst] - query.phi[query.src] \in Int
  BY <1>1, <1>2, <1>4, <1>5
<1>7. dist["F"][meet] + dist["B"][meet] <= dist["F"][v] + dist["B"][v]  BY <1>2
<1>8. /\ Key("F", meet) + Key("B", meet) =
            2 * (dist["F"][meet] + dist["B"][meet])
              + (query.phi[query.dst] - query.phi[query.src])
      /\ Key("F", meet) + Key("B", meet) <= Reduced("F", v) + Reduced("B", v)
  BY <1>5, <1>6, <1>7, SumsOnKeyScale
<1>9. best \in Nat /\ bestReduced \in Int  BY <1>2, <1>5, <1>6
<1> QED  BY <1>2, <1>8, <1>9

\* An arc of a graph at rest: both searches have relaxed it if they settled the
\* node it leaves.
LEMMA ArcAtRest ==
  ASSUME IInv, scan = {}, NEW d \in Dir, NEW a \in Arcs, From(d, a) \in settled[d]
  PROVE  /\ To(d, a) \in Labelled(d)
         /\ dist[d][To(d, a)] <= dist[d][From(d, a)] + query.cost[a]
         /\ Reduced(d, To(d, a)) <= Reduced(d, From(d, a)) + 2 * query.cost[a]
              + Shift(d, To(d, a)) - Shift(d, From(d, a))
<1>1. TypeOK /\ InRangeNow /\ LabelsBounded /\ EdgesRelaxed  BY DEF IInv
<1>2. /\ From(d, a) \in Node /\ To(d, a) \in Node
      /\ query.cost[a] \in Nat /\ query.cost[a] <= MaxCost
  BY <1>1, ArcFacts
<1>3. From(d, a) \in Labelled(d)  BY <1>1 DEF LabelsBounded
<1>4. dist[d][To(d, a)] <= dist[d][From(d, a)] + query.cost[a]
  BY <1>1 DEF EdgesRelaxed
<1>5. dist[d][From(d, a)] \in Nat /\ dist[d][To(d, a)] \in Nat
  BY <1>1, <1>2, WidthAssumption DEF TypeOK, Word
<1>6. /\ Shift(d, To(d, a)) \in Int /\ Shift(d, From(d, a)) \in Int
  BY <1>1, <1>2, ShiftFacts
<1>7. dist[d][From(d, a)] <= MaxLabel  BY <1>1, <1>3, LabelFacts
<1>8. MaxCost <= MaxLabel
  <2>3. {From(d, a)} \in SUBSET Node  BY <1>2
  <2>1. Cardinality(Node) \in Nat /\ Cardinality({From(d, a)}) = 1
        /\ Cardinality({From(d, a)}) <= Cardinality(Node)
    BY <2>3, NodeAssumption, FS_CardinalityType, FS_Singleton, FS_Subset
  <2>2. MaxCost * 1 <= MaxCost * Cardinality(Node)
    BY <2>1, CostTimesMonotone
  <2> QED  BY <2>2, RangeAssumption DEF MaxLabel
<1>9. dist[d][To(d, a)] # inf
  BY <1>2, <1>4, <1>5, <1>7, <1>8, MaxLabelType, RangeAssumption, WidthAssumption
     DEF inf
<1> QED  BY <1>2, <1>4, <1>5, <1>6, <1>9 DEF Labelled, Reduced

\* The fronts have the least labels of the nodes that may still be delivered.
LEMMA FrontFacts ==
  ASSUME IInv, NEW d \in Dir, NEW f \in Front(d)
  PROVE  /\ f \in Open(d) /\ f \in Labelled(d) /\ f \in Node /\ f \notin settled[d]
         /\ \A w \in Labelled(d) \ settled[d] : Reduced(d, f) <= Reduced(d, w)
<1>1. TypeOK /\ InRangeNow /\ LabelsBounded  BY DEF IInv
<1>2. f \in Open(d) /\ f \in Labelled(d) /\ f \in Node /\ f \notin settled[d]
  BY DEF Front, Open, Labelled
<1>3. ASSUME NEW w \in Labelled(d) \ settled[d]
      PROVE  Reduced(d, f) <= Reduced(d, w)
  <2>1. w \in Open(d) /\ w \in Labelled(d)  BY DEF Open, Labelled
  <2>2. Key(d, f) <= Key(d, w)  BY <2>1 DEF Front
  <2> QED  BY <1>1, <1>2, <2>1, <2>2, LabelFacts
<1> QED  BY <1>2, <1>3

\* A connection is never cheaper than the incumbent.
LEMMA ConnectionFacts ==
  ASSUME IInv, NEW v \in Labelled("F"), v \in Labelled("B")
  PROVE  best # inf /\ best <= dist["F"][v] + dist["B"][v]
         /\ bestReduced <= Reduced("F", v) + Reduced("B", v)
<1>1. /\ TypeOK /\ InRangeNow /\ LabelsBounded /\ IncumbentTight /\ "F" \in Dir /\ "B" \in Dir
  BY DEF IInv, Dir
<1>2. /\ dist["F"][v] \in Nat /\ dist["F"][v] <= MaxLabel
      /\ dist["B"][v] \in Nat /\ dist["B"][v] <= MaxLabel /\ v \in Node
  BY <1>1, LabelFacts
<1>3. best <= dist["F"][v] + dist["B"][v]  BY <1>1, <1>2 DEF IncumbentTight, Labelled
<1>4. best # inf
  BY <1>1, <1>2, <1>3, MaxLabelType, RangeAssumption, WidthAssumption DEF inf, TypeOK, Word
<1> QED  BY <1>3, <1>4, ReducedIncumbent

LEMMA BestReducedFacts ==
  ASSUME IInv, best # inf
  PROVE  /\ bestReduced = 2 * best + (query.phi[query.dst] - query.phi[query.src])
         /\ bestReduced \in Int /\ best \in Nat
<1>1. TypeOK /\ IncumbentTight  BY DEF IInv
<1>2. meet \in Node /\ best = dist["F"][meet] + dist["B"][meet]  BY <1>1 DEF IncumbentTight
<1>3. meet \in Labelled("F") /\ meet \in Labelled("B")
  BY <1>1, <1>2, WidthAssumption DEF TypeOK, Word, Labelled, inf, Dir
<1> QED  BY <1>3, ReducedIncumbent

-----------------------------------------------------------------------------
(* One more arc keeps each certificate *)

\* Where a walk stands after one more arc, on both scales.
LEMMA ArcWalked ==
  ASSUME IInv, NEW a \in Arcs, NEW c \in Nat
  PROVE  LET u == a[1]
             v == a[2]
         IN  /\ u \in Node /\ v \in Node /\ query.cost[a] \in Nat /\ c + query.cost[a] \in Nat
             /\ Shift("F", u) \in Int /\ Shift("F", v) \in Int
             /\ Walked(u, c) \in Int /\ Walked(v, c + query.cost[a]) \in Int
             /\ Walked(v, c + query.cost[a]) =
                  Walked(u, c) + 2 * query.cost[a] + Shift("F", v) - Shift("F", u)
             /\ Walked(u, c) <= Walked(v, c + query.cost[a])
<1>1. TypeOK /\ InRangeNow /\ "F" \in Dir  BY DEF IInv, Dir
<1>2. From("F", a) = a[1] /\ To("F", a) = a[2]  BY DEF From, To
<1>3. /\ a[1] \in Node /\ a[2] \in Node /\ query.cost[a] \in Nat
      /\ Shift("F", a[1]) <= 2 * query.cost[a] + Shift("F", a[2])
  BY <1>1, <1>2, ArcFacts
<1>4. Shift("F", a[1]) \in Int /\ Shift("F", a[2]) \in Int  BY <1>1, <1>3, ShiftFacts
<1> QED  BY <1>3, <1>4 DEF Walked

LEMMA ArcKeepsFront ==
  ASSUME IInv, scan = {}, NEW f \in Front("F"), NEW b \in Front("B"),
         NEW a \in Arcs, NEW c \in Nat, FrontCertificate(f, b, a[1], c)
  PROVE  FrontCertificate(f, b, a[2], c + query.cost[a])
<1> DEFINE u == a[1]
           v == a[2]
           cost == query.cost[a]
           before == Walked(u, c)
           after == Walked(v, c + cost)
<1>1. /\ u \in Node /\ v \in Node /\ cost \in Nat
      /\ Shift("F", u) \in Int /\ Shift("F", v) \in Int
      /\ before \in Int /\ after \in Int
      /\ after = before + 2 * cost + Shift("F", v) - Shift("F", u)
      /\ before <= after
  BY ArcWalked
<1>2. /\ u \in settled["F"] => Reduced("F", u) <= before
      /\ u \notin settled["F"] => Reduced("F", f) <= before
      /\ u \notin settled["F"] /\ u \in Labelled("B") =>
           \/ Reduced("F", f) + Reduced("B", b) <= before + Reduced("B", u)
           \/ best # inf /\ bestReduced <= before + Reduced("B", u)
  BY DEF FrontCertificate
<1>3. TypeOK /\ InRangeNow /\ LabelsBounded /\ SettledFirst /\ "F" \in Dir /\ "B" \in Dir
  BY DEF IInv, Dir
<1>4. /\ From("F", a) = u /\ To("F", a) = v /\ From("B", a) = v /\ To("B", a) = u
  BY DEF From, To
<1>5. /\ f \in Labelled("F") /\ f \in Open("F") /\ b \in Labelled("B")
      /\ \A w \in Labelled("F") \ settled["F"] : Reduced("F", f) <= Reduced("F", w)
      /\ \A w \in Labelled("B") \ settled["B"] : Reduced("B", b) <= Reduced("B", w)
  BY <1>3, FrontFacts
<1>6. \A d \in Dir : \A w \in Labelled(d) : Reduced(d, w) \in Nat  BY <1>3, LabelFacts
<1>7. bestReduced \in Int  BY <1>3, WidthAssumption DEF TypeOK, Word
<1> HIDE DEF u, v, cost, before, after
<1>8. ASSUME v \in settled["F"] PROVE Reduced("F", v) <= after
  <2>1. v \in Labelled("F")  BY <1>3, <1>8 DEF LabelsBounded
  <2>2. CASE u \in settled["F"]
    <3>1. Reduced("F", v) <= Reduced("F", u) + 2 * cost + Shift("F", v) - Shift("F", u)
      BY <1>3, <1>4, <2>2, ArcAtRest DEF cost
    <3>2. u \in Labelled("F")  BY <1>3, <2>2 DEF LabelsBounded
    <3>3. Reduced("F", u) \in Nat /\ Reduced("F", v) \in Nat  BY <1>3, <1>6, <2>1, <3>2
    <3> QED  BY <1>1, <1>2, <2>2, <3>1, <3>3
  <2>3. CASE u \notin settled["F"]
    <3>1. Reduced("F", v) <= Reduced("F", f)  BY <1>3, <1>5, <1>8 DEF SettledFirst
    <3>2. Reduced("F", f) \in Nat /\ Reduced("F", v) \in Nat  BY <1>3, <1>5, <1>6, <2>1
    <3> QED  BY <1>1, <1>2, <2>3, <3>1, <3>2
  <2> QED  BY <2>2, <2>3
<1>9. ASSUME v \notin settled["F"], u \in settled["F"]
      PROVE  v \in Labelled("F") /\ Reduced("F", v) <= after
  <2>1. /\ v \in Labelled("F")
        /\ Reduced("F", v) <= Reduced("F", u) + 2 * cost + Shift("F", v) - Shift("F", u)
    BY <1>3, <1>4, <1>9, ArcAtRest DEF cost
  <2>2. u \in Labelled("F")  BY <1>3, <1>9 DEF LabelsBounded
  <2>3. Reduced("F", u) \in Nat /\ Reduced("F", v) \in Nat  BY <1>3, <1>6, <2>1, <2>2
  <2> QED  BY <1>1, <1>2, <1>9, <2>1, <2>3
<1>10. ASSUME v \notin settled["F"] PROVE Reduced("F", f) <= after
  <2>1. Reduced("F", f) \in Nat  BY <1>3, <1>5, <1>6
  <2>2. CASE u \in settled["F"]
    <3>1. Reduced("F", f) <= Reduced("F", v) /\ Reduced("F", v) <= after
          /\ Reduced("F", v) \in Nat
      BY <1>3, <1>5, <1>6, <1>9, <1>10, <2>2
    <3> QED  BY <1>1, <2>1, <3>1
  <2>3. CASE u \notin settled["F"]  BY <1>1, <1>2, <2>1, <2>3
  <2> QED  BY <2>2, <2>3
<1>11. ASSUME v \notin settled["F"], v \in Labelled("B")
       PROVE  \/ Reduced("F", f) + Reduced("B", b) <= after + Reduced("B", v)
              \/ best # inf /\ bestReduced <= after + Reduced("B", v)
  <2>1. Reduced("B", v) \in Nat /\ Reduced("B", b) \in Nat /\ Reduced("F", f) \in Nat
    BY <1>3, <1>5, <1>6, <1>11
  <2>2. CASE u \in settled["F"]
    <3>1. v \in Labelled("F") /\ Reduced("F", v) <= after /\ Reduced("F", v) \in Nat
      BY <1>3, <1>6, <1>9, <1>11, <2>2
    <3>2. best # inf /\ bestReduced <= Reduced("F", v) + Reduced("B", v)
      BY <1>11, <3>1, ConnectionFacts
    <3> QED  BY <1>1, <1>7, <2>1, <3>1, <3>2
  <2>3. CASE u \notin settled["F"] /\ v \in settled["B"]
    <3>1. /\ u \in Labelled("B")
          /\ Reduced("B", u) <= Reduced("B", v) + 2 * cost + Shift("B", u) - Shift("B", v)
      BY <1>3, <1>4, <2>3, ArcAtRest DEF cost
    <3>2. \/ Reduced("F", f) + Reduced("B", b) <= before + Reduced("B", u)
          \/ best # inf /\ bestReduced <= before + Reduced("B", u)
      BY <1>2, <2>3, <3>1
    <3>3. /\ Shift("B", u) \in Int /\ Shift("B", v) \in Int
          /\ Shift("F", u) + Shift("B", u) = Shift("F", v) + Shift("B", v)
      BY <1>1, <1>3, ShiftFacts
    <3>4. Reduced("B", u) \in Nat  BY <1>3, <1>6, <3>1
    <3>5. before + Reduced("B", u) <= after + Reduced("B", v)
      BY <1>1, <2>1, <3>1, <3>3, <3>4
    <3> QED  BY <1>1, <1>7, <2>1, <3>2, <3>4, <3>5
  <2>4. CASE u \notin settled["F"] /\ v \notin settled["B"]
    <3>1. Reduced("B", b) <= Reduced("B", v)  BY <1>5, <1>11, <2>4
    <3>2. Reduced("F", f) <= after  BY <1>10, <1>11
    <3> QED  BY <1>1, <2>1, <3>1, <3>2
  <2> QED  BY <2>2, <2>3, <2>4
<1> QED  BY <1>8, <1>10, <1>11 DEF FrontCertificate, v, cost, after

LEMMA ArcKeepsForward ==
  ASSUME IInv, scan = {}, NEW a \in Arcs, NEW c \in Nat, ForwardCertificate(a[1], c)
  PROVE  ForwardCertificate(a[2], c + query.cost[a])
<1>1. LabelsBounded /\ TypeOK /\ InRangeNow /\ "F" \in Dir  BY DEF IInv, Dir
<1>2. From("F", a) = a[1] /\ To("F", a) = a[2] /\ query.cost[a] \in Nat
  BY ArcWalked DEF From, To
<1>3. /\ a[2] \in Labelled("F")
      /\ dist["F"][a[2]] <= dist["F"][a[1]] + query.cost[a]
  BY <1>1, <1>2, ArcAtRest DEF ForwardCertificate
<1>4. a[2] \in settled["F"]  BY <1>3 DEF ForwardCertificate, Open, Labelled
<1>5. a[1] \in Labelled("F")  BY <1>1 DEF LabelsBounded, ForwardCertificate
<1>6. dist["F"][a[1]] \in Nat /\ dist["F"][a[2]] \in Nat  BY <1>1, <1>3, <1>5, LabelFacts
<1> QED  BY <1>2, <1>3, <1>4, <1>6 DEF ForwardCertificate

LEMMA ArcKeepsBackward ==
  ASSUME IInv, scan = {}, NEW a \in Arcs, NEW c \in Nat, BackwardCertificate(a[1], c)
  PROVE  BackwardCertificate(a[2], c + query.cost[a])
<1>1. LabelsBounded /\ TypeOK /\ InRangeNow /\ "B" \in Dir  BY DEF IInv, Dir
<1>2. /\ From("B", a) = a[2] /\ To("B", a) = a[1] /\ query.cost[a] \in Nat
      /\ a[1] \in Node /\ a[2] \in Node
  BY ArcWalked DEF From, To
<1>3. ASSUME a[2] \in settled["B"]
      PROVE  query.src \in settled["B"]
             /\ dist["B"][query.src] <= (c + query.cost[a]) + dist["B"][a[2]]
  <2>1. /\ a[1] \in Labelled("B")
        /\ dist["B"][a[1]] <= dist["B"][a[2]] + query.cost[a]
    BY <1>1, <1>2, <1>3, ArcAtRest
  <2>2. a[1] \in settled["B"]  BY <1>2, <2>1 DEF BackwardCertificate, Open, Labelled
  <2>3. query.src \in settled["B"] /\ dist["B"][query.src] <= c + dist["B"][a[1]]
    BY <2>2 DEF BackwardCertificate
  <2>4. query.src \in Labelled("B") /\ a[2] \in Labelled("B")
    BY <1>1, <1>3, <2>3 DEF LabelsBounded
  <2>5. /\ dist["B"][query.src] \in Nat /\ dist["B"][a[1]] \in Nat
        /\ dist["B"][a[2]] \in Nat
    BY <1>1, <2>1, <2>4, LabelFacts
  <2> QED  BY <1>2, <2>1, <2>3, <2>5
<1> QED  BY <1>3 DEF BackwardCertificate

LEMMA ArcKeepsCertificate ==
  ASSUME IInv, scan = {}, NEW a \in Arcs, NEW c \in Nat, Certificate(a[1], c)
  PROVE  Certificate(a[2], c + query.cost[a])
BY ArcKeepsFront, ArcKeepsForward, ArcKeepsBackward DEF Certificate

-----------------------------------------------------------------------------
(* Certificates at the source and at the target *)

LEMMA RootFacts ==
  ASSUME IInv, Started
  PROVE  /\ query.src \in Labelled("F") /\ query.dst \in Labelled("B")
         /\ query.src \in Node /\ query.dst \in Node
         /\ dist["F"][query.src] = 0 /\ dist["B"][query.dst] = 0
         /\ Reduced("F", query.src) = 0 /\ Reduced("B", query.dst) = 0
         /\ Walked(query.src, 0) = 0
         /\ \A c : Walked(query.dst, c) = 2 * c + (query.phi[query.dst] - query.phi[query.src])
         /\ query.phi[query.dst] - query.phi[query.src] \in Int
<1>1. TypeOK /\ InRangeNow /\ RootsLabelled /\ "F" \in Dir /\ "B" \in Dir  BY DEF IInv, Dir
<1>2. Root("F") = query.src /\ Root("B") = query.dst  BY DEF Root
<1>3. /\ query.src \in Node /\ query.dst \in Node
      /\ Shift("F", query.src) = 0 /\ Shift("B", query.dst) = 0
      /\ query.phi[query.src] \in Int /\ query.phi[query.dst] \in Int
  <2>1. query.src \in Node /\ query.dst \in Node  BY <1>1 DEF TypeOK, IsQuery
  <2>2. Shift("F", Root("F")) = 0 /\ Shift("B", Root("B")) = 0  BY <1>1, <2>1, ShiftFacts
  <2>3. query.phi[query.src] \in Int /\ query.phi[query.dst] \in Int
    BY <1>1, <2>1, ShiftFacts
  <2> QED  BY <1>2, <2>1, <2>2, <2>3
<1>4. dist["F"][query.src] = 0 /\ dist["B"][query.dst] = 0
  BY <1>1, <1>2 DEF RootsLabelled
<1>5. inf # 0  BY RangeAssumption, MaxLabelType, WidthAssumption DEF inf
<1>6. Shift("F", query.dst) = query.phi[query.dst] - query.phi[query.src]  BY DEF Shift
<1> QED  BY <1>3, <1>4, <1>5, <1>6 DEF Labelled, Reduced, Walked

LEMMA FrontAtSource ==
  ASSUME IInv, Started, NEW f \in Front("F"), NEW b \in Front("B")
  PROVE  FrontCertificate(f, b, query.src, 0)
<1> DEFINE s == query.src
<1>1. /\ s \in Labelled("F") /\ Reduced("F", s) = 0 /\ Walked(s, 0) = 0
  BY RootFacts
<1>2. "F" \in Dir  BY DEF Dir
<1> HIDE DEF s
<1>3. s \notin settled["F"] => Reduced("F", f) <= Reduced("F", s)  BY <1>1, <1>2, FrontFacts
<1>4. s \in Labelled("B") => best # inf /\ bestReduced <= Reduced("F", s) + Reduced("B", s)
  BY <1>1, ConnectionFacts
<1>5. FrontCertificate(f, b, s, 0)  BY <1>1, <1>3, <1>4 DEF FrontCertificate
<1> QED  BY <1>5 DEF s

LEMMA CertificateAtSource ==
  ASSUME IInv, Started, Stopped
  PROVE  Certificate(query.src, 0)
<1>1. LabelsBounded /\ TypeOK /\ InRangeNow /\ "F" \in Dir /\ "B" \in Dir  BY DEF IInv, Dir
<1>2. /\ query.src \in Labelled("F") /\ query.src \in Node /\ dist["F"][query.src] = 0
  BY RootFacts
<1>3. CASE Open("F") = {}
  <2>1. query.src \in settled["F"]  BY <1>2, <1>3 DEF Open, Labelled
  <2> QED  BY <1>2, <1>3, <2>1 DEF Certificate, ForwardCertificate
<1>4. CASE Open("B") = {}
  <2>1. query.src \in settled["B"] => dist["B"][query.src] \in Nat
    BY <1>1, LabelFacts DEF LabelsBounded
  <2> QED  BY <1>4, <2>1 DEF Certificate, BackwardCertificate
<1>5. CASE \E f \in Front("F"), b \in Front("B") : BoundReached(f, b)
  BY <1>5, FrontAtSource DEF Certificate
<1> QED
  <2>1. \A d \in Dir : d = "F" \/ d = "B"  BY DEF Dir
  <2> QED  BY <1>3, <1>4, <1>5, <2>1 DEF Stopped, Exhausted

\* A walk that has come to the target costs at least the incumbent, or at least the
\* sum of the two fronts.
LEMMA FrontAtTarget ==
  ASSUME IInv, Started, NEW f \in Front("F"), NEW b \in Front("B"),
         NEW c \in Nat, FrontCertificate(f, b, query.dst, c)
  PROVE  \/ best # inf /\ best <= c
         \/ Reduced("F", f) + Reduced("B", b) <=
              2 * c + (query.phi[query.dst] - query.phi[query.src])
<1> DEFINE t == query.dst
           shift == query.phi[query.dst] - query.phi[query.src]
<1>1. /\ t \in Labelled("B") /\ dist["B"][t] = 0 /\ Reduced("B", t) = 0
      /\ Walked(t, c) = 2 * c + shift /\ shift \in Int
  BY RootFacts
<1>2. TypeOK /\ InRangeNow /\ LabelsBounded /\ "F" \in Dir /\ "B" \in Dir  BY DEF IInv, Dir
<1>3. Shift("F", t) = shift  BY DEF Shift
<1>4. Reduced("F", f) \in Nat /\ Reduced("B", b) \in Nat
  BY <1>2, FrontFacts, LabelFacts
<1>5. FrontCertificate(f, b, t, c)  OBVIOUS
<1> HIDE DEF t, shift
<1>6. CASE t \in settled["F"]
  <2>1. t \in Labelled("F")  BY <1>2, <1>6 DEF LabelsBounded
  <2>2. dist["F"][t] \in Nat  BY <1>2, <2>1, LabelFacts
  <2>3. dist["F"][t] <= c  BY <1>1, <1>3, <1>5, <1>6, <2>2 DEF FrontCertificate, Reduced
  <2>4. best # inf /\ best <= dist["F"][t] + dist["B"][t]  BY <1>1, <2>1, ConnectionFacts
  <2>5. best \in Nat  BY <2>4, BestReducedFacts
  <2> QED  BY <1>1, <2>2, <2>3, <2>4, <2>5
<1>7. CASE t \notin settled["F"]
  <2>1. \/ Reduced("F", f) + Reduced("B", b) <= (2 * c + shift) + 0
        \/ best # inf /\ bestReduced <= (2 * c + shift) + 0
    BY <1>1, <1>5, <1>7 DEF FrontCertificate
  <2>2. CASE best # inf /\ bestReduced <= (2 * c + shift) + 0
    <3>1. bestReduced = 2 * best + shift /\ best \in Nat  BY <2>2, BestReducedFacts DEF shift
    <3> QED  BY <1>1, <2>2, <3>1
  <2>3. CASE Reduced("F", f) + Reduced("B", b) <= (2 * c + shift) + 0
    BY <1>1, <1>4, <2>3 DEF shift
  <2> QED  BY <2>1, <2>2, <2>3
<1> QED  BY <1>6, <1>7

LEMMA CertificateAtTarget ==
  ASSUME IInv, Started, NEW c \in Nat, Certificate(query.dst, c)
  PROVE  best # inf /\ best <= c
<1>1. /\ TypeOK /\ InRangeNow /\ LabelsBounded /\ IncumbentTight /\ "F" \in Dir /\ "B" \in Dir
  BY DEF IInv, Dir
<1>2. /\ query.src \in Labelled("F") /\ query.dst \in Labelled("B")
      /\ query.src \in Node /\ query.dst \in Node
      /\ dist["F"][query.src] = 0 /\ dist["B"][query.dst] = 0
      /\ query.phi[query.dst] - query.phi[query.src] \in Int
  BY RootFacts
<1>3. CASE \E f \in Front("F"), b \in Front("B") :
             BoundReached(f, b) /\ FrontCertificate(f, b, query.dst, c)
  <2>1. PICK f \in Front("F"), b \in Front("B") :
          BoundReached(f, b) /\ FrontCertificate(f, b, query.dst, c)
    BY <1>3
  <2>2. f \in Labelled("F") /\ b \in Labelled("B")  BY <1>1, FrontFacts
  <2>3. bestReduced # inf /\ bestReduced <= Reduced("F", f) + Reduced("B", b)
        /\ Reduced("F", f) \in Nat /\ Reduced("B", b) \in Nat
    <3>1. bestReduced # inf /\ Reduced("F", f) + Reduced("B", b) >= bestReduced
      BY <1>1, <2>1, <2>2, BoundFacts
    <3>2. Reduced("F", f) \in Nat /\ Reduced("B", b) \in Nat  BY <1>1, <2>2, LabelFacts
    <3>3. bestReduced \in Int  BY <1>1, WidthAssumption DEF TypeOK, Word
    <3> QED  BY <3>1, <3>2, <3>3
  <2>4. best # inf  BY <1>1, <2>3 DEF IncumbentTight
  <2>5. bestReduced = 2 * best + (query.phi[query.dst] - query.phi[query.src]) /\ best \in Nat
    BY <2>4, BestReducedFacts
  <2>6. \/ best <= c
        \/ Reduced("F", f) + Reduced("B", b) <=
             2 * c + (query.phi[query.dst] - query.phi[query.src])
    BY <2>1, FrontAtTarget
  <2> QED  BY <1>2, <2>3, <2>4, <2>5, <2>6
<1>4. CASE ForwardCertificate(query.dst, c)
  <2>1. query.dst \in Labelled("F") /\ dist["F"][query.dst] <= c
    BY <1>1, <1>4 DEF ForwardCertificate, LabelsBounded
  <2>2. dist["F"][query.dst] \in Nat  BY <1>1, <2>1, LabelFacts
  <2>3. best # inf /\ best <= dist["F"][query.dst] + 0  BY <1>2, <2>1, ConnectionFacts
  <2>4. best \in Nat  BY <2>3, BestReducedFacts
  <2> QED  BY <2>1, <2>2, <2>3, <2>4
<1>5. CASE BackwardCertificate(query.dst, c)
  <2>1. query.dst \in settled["B"]
    BY <1>2, <1>5 DEF BackwardCertificate, Open, Labelled
  <2>2. query.src \in settled["B"] /\ dist["B"][query.src] <= c + 0
    BY <1>2, <1>5, <2>1 DEF BackwardCertificate
  <2>3. query.src \in Labelled("B")  BY <1>1, <2>2 DEF LabelsBounded
  <2>4. dist["B"][query.src] \in Nat  BY <1>1, <2>3, LabelFacts
  <2>5. best # inf /\ best <= 0 + dist["B"][query.src]  BY <1>2, <2>3, ConnectionFacts
  <2>6. best \in Nat  BY <2>5, BestReducedFacts
  <2> QED  BY <2>2, <2>4, <2>5, <2>6
<1> QED  BY <1>3, <1>4, <1>5 DEF Certificate

-----------------------------------------------------------------------------
(* The traveller *)

\* A certificate speaks of the search and the walk, and of nothing else.
LEMMA CertificateKept ==
  ASSUME UNCHANGED <<query, dist, settled, best, bestReduced>>, NEW v, NEW c,
         at' = v, driven' = c, Certificate(v, c)
  PROVE  Certificate(at, driven)'
<1>1. "F" \in Dir /\ "B" \in Dir  BY DEF Dir
<1>2. \A d \in Dir : Open(d)' = Open(d) /\ Labelled(d)' = Labelled(d)
  BY DEF Open, Labelled
<1>3. \A d \in Dir : \A w : Key(d, w)' = Key(d, w) /\ Reduced(d, w)' = Reduced(d, w)
  BY DEF Key, Shift, Reduced
<1>4. \A d \in Dir : Front(d)' = Front(d)  BY <1>2, <1>3 DEF Front, Open
<1>5. /\ Walked(at, driven)' = Walked(v, c)
      /\ Reduced("F", at)' = Reduced("F", v) /\ Reduced("B", at)' = Reduced("B", v)
  BY DEF Walked, Reduced, Shift
<1>6. CASE \E f \in Front("F"), b \in Front("B") : BoundReached(f, b) /\ FrontCertificate(f, b, v, c)
  <2>1. PICK f \in Front("F"), b \in Front("B") : BoundReached(f, b) /\ FrontCertificate(f, b, v, c)
    BY <1>6
  <2>2. BoundReached(f, b)'  BY <1>1, <1>3, <2>1 DEF BoundReached
  <2>3. FrontCertificate(f, b, at, driven)'
    BY <1>1, <1>2, <1>3, <1>5, <2>1 DEF FrontCertificate
  <2> QED  BY <1>1, <1>4, <2>2, <2>3 DEF Certificate
<1>7. CASE ForwardCertificate(v, c)
  BY <1>1, <1>2, <1>7 DEF Certificate, ForwardCertificate
<1>8. CASE BackwardCertificate(v, c)
  BY <1>1, <1>2, <1>8 DEF Certificate, BackwardCertificate
<1> QED  BY <1>6, <1>7, <1>8 DEF Certificate

LEMMA InitTInv == TInit => TInv
<1> SUFFICES ASSUME TInit PROVE TInv  OBVIOUS
<1>1. IInv  BY InitIInv DEF TInit
<1>2. ~Started /\ pc = "start"  BY DEF TInit, Init, Started
<1>3. query.src \in Node  BY <1>1 DEF IInv, TypeOK, IsQuery
<1> QED
  BY <1>1, <1>2, <1>3
     DEF TInv, TInit, AnswerShape, TravellerOK, Certified

\* A step that ends the search finds a certificate in the stopping condition.
LEMMA StopCertified ==
  ASSUME TInv, pc = "search", Stopped,
         UNCHANGED <<query, dist, settled, best, bestReduced, at, driven>>
  PROVE  Certified'
<1>1. IInv /\ Started /\ at = query.src /\ driven = 0  BY DEF TInv, TravellerOK
<1>2. Certificate(query.src, 0)  BY <1>1, CertificateAtSource
<1>3. PICK v, c : v = at /\ c = driven /\ Certificate(v, c)  BY <1>1, <1>2
<1>4. Certificate(at, driven)'  BY <1>3, CertificateKept
<1> QED  BY <1>4 DEF Certified

\* A traveller at rest keeps his certificate as long as the search does.
LEMMA CertifiedKept ==
  ASSUME Certified, Started' <=> Started, result # Cancelled, Started,
         pc \notin {"start", "search"},
         UNCHANGED <<query, dist, settled, best, bestReduced, at, driven>>
  PROVE  Certified'
<1>1. Certificate(at, driven)  BY DEF Certified
<1>2. PICK v, c : v = at /\ c = driven /\ Certificate(v, c)  BY <1>1
<1>3. Certificate(at, driven)'  BY <1>2, CertificateKept
<1> QED  BY <1>3 DEF Certified

LEMMA CertifiedAtRest ==
  ASSUME Certified, UNCHANGED vars, UNCHANGED <<at, driven>>
  PROVE  Certified'
<1>1. /\ UNCHANGED <<query, pc, dist, settled, best, bestReduced, result>>
      /\ Started' <=> Started /\ Cancelled' = Cancelled
  BY DEF vars, searchVars, Started, Cancelled, Reply
<1>2. CASE Started /\ pc \notin {"start", "search"} /\ result # Cancelled
  BY <1>1, <1>2, CertifiedKept
<1>3. CASE ~(Started /\ pc \notin {"start", "search"} /\ result # Cancelled)
  BY <1>1, <1>3 DEF Certified
<1> QED  BY <1>2, <1>3

LEMMA SearchStepTInv ==
  ASSUME TInv, Next, UNCHANGED <<at, driven>>
  PROVE  TInv'
<1>1. IInv /\ AnswerShape /\ TravellerOK /\ Certified /\ TypeOK /\ Idle /\ AnswerOK
  BY DEF TInv, IInv
<1>2. IInv'  BY <1>1, NextIInv
<1>3. CASE AnswerTrivial
  <2>1. ~Started'  BY <1>3 DEF AnswerTrivial, Started
  <2>2. AnswerShape'  BY <1>3, <2>1 DEF AnswerShape, AnswerTrivial, Reply
  <2>3. TravellerOK'  BY <1>1, <1>3 DEF TravellerOK, AnswerTrivial
  <2> QED  BY <1>2, <2>1, <2>2, <2>3 DEF TInv, Certified
<1>4. CASE Begin
  <2>1. pc' = "search" /\ Started' /\ pc = "start" /\ query' = query
    BY <1>4 DEF Begin, Started
  <2> QED
    BY <1>1, <1>2, <2>1 DEF TInv, AnswerShape, TravellerOK, Certified
<1>5. CASE Settle("F") \/ Settle("B") \/ Relax
  <2>1. pc = "search" /\ pc' = "search" /\ query' = query /\ (Started' <=> Started)
    BY <1>5 DEF Settle, Relax, Started
  <2> QED
    BY <1>1, <1>2, <2>1 DEF TInv, AnswerShape, TravellerOK, Certified
<1>6. CASE StopAtBound \/ StopExhausted
  <2>1. /\ pc = "search" /\ pc' \in {"left", "done"}
        /\ UNCHANGED <<query, dist, settled, best, bestReduced>>
    BY <1>6 DEF StopAtBound, StopExhausted, Conclude, searchVars
  <2>2. Started /\ Started'  BY <1>1, <2>1 DEF TravellerOK, Started
  <2>3. Stopped  BY <1>6 DEF StopAtBound, StopExhausted, Stopped
  <2>4. Certified'  BY <2>1, <2>3, StopCertified
  <2> QED  BY <1>1, <1>2, <2>1, <2>2, <2>4 DEF TInv, AnswerShape, TravellerOK
<1>7. CASE Cancel
  <2>1. pc = "search" /\ pc' = "done" /\ result' = Cancelled /\ query' = query
    BY <1>7 DEF Cancel
  <2>2. Started'  BY <1>1, <2>1 DEF TravellerOK, Started
  <2>3. Cancelled' = Cancelled  BY DEF Cancelled, Reply
  <2>4. Certified' /\ AnswerShape'  BY <2>1, <2>2, <2>3 DEF Certified, AnswerShape
  <2> QED  BY <1>1, <1>2, <2>1, <2>2, <2>4 DEF TInv, TravellerOK
<1>8. CASE WalkLeft \/ WalkRight
  <2>1. /\ pc \in {"left", "right"} /\ pc' \in {"left", "right", "done"}
        /\ UNCHANGED <<query, dist, settled, best, bestReduced>>
    BY <1>8 DEF WalkLeft, WalkRight, GiveUp, searchVars
  <2>2. Started /\ Started'  BY <1>1, <2>1 DEF TravellerOK, Started
  <2>3. result = Pending /\ Pending # Cancelled
    BY <1>1, <2>1 DEF AnswerOK, Pending, Cancelled, Reply
  <2>5. Certified'  BY <1>1, <2>1, <2>2, <2>3, CertifiedKept
  <2> QED  BY <1>1, <1>2, <2>1, <2>2, <2>5 DEF TInv, AnswerShape, TravellerOK
<1>9. CASE Returned
  <2>1. UNCHANGED vars /\ UNCHANGED <<at, driven>>  BY <1>9 DEF Returned
  <2>2. Certified'  BY <1>1, <2>1, CertifiedAtRest
  <2>3. AnswerShape' /\ TravellerOK'
    BY <1>1, <2>1 DEF AnswerShape, TravellerOK, vars, Started
  <2> QED  BY <1>2, <2>2, <2>3 DEF TInv
<1> QED
  BY <1>3, <1>4, <1>5, <1>6, <1>7, <1>8, <1>9 DEF Next, Work

LEMMA DriveStepTInv ==
  ASSUME TInv, Drive
  PROVE  TInv'
<1>1. /\ IInv /\ AnswerShape /\ TravellerOK /\ Certified /\ AnswerOK
      /\ at \in Node /\ driven \in Nat
  BY DEF TInv, IInv, TravellerOK
<1>2. UNCHANGED vars /\ pc = "done"  BY DEF Drive
<1>3. PICK a \in Arcs : a[1] = at /\ at' = a[2] /\ driven' = driven + query.cost[a]
  BY DEF Drive
<1>4. IInv'  BY <1>1, <1>2, StutterStep
<1>5. AnswerShape'  BY <1>1, <1>2 DEF AnswerShape, vars, Started
<1>6. TravellerOK'
  <2>1. at' \in Node /\ driven' \in Nat  BY <1>1, <1>3, ArcWalked
  <2> QED  BY <1>2, <2>1 DEF TravellerOK, vars
<1>7. Certified'
  <2>1. Started' <=> Started  BY <1>2 DEF vars, Started
  <2>2. result' = result /\ Cancelled' = Cancelled
    BY <1>2 DEF vars, Cancelled, Reply
  <2> SUFFICES ASSUME Started, result # Cancelled
               PROVE  Certificate(at, driven)'
    BY <1>2, <2>1, <2>2 DEF Certified
  <2>3. scan = {}  BY <1>1, <1>2 DEF AnswerOK
  <2>4. Certificate(at, driven)  BY <1>1, <1>2 DEF Certified
  <2>5. Certificate(a[1], driven)  BY <1>3, <2>4
  <2>6. Certificate(a[2], driven + query.cost[a])
    BY <1>1, <2>3, <2>5, ArcKeepsCertificate
  <2>7. PICK v, c : v = a[2] /\ c = driven + query.cost[a] /\ Certificate(v, c)
    BY <2>6
  <2>8. UNCHANGED <<query, dist, settled, best, bestReduced>>  BY <1>2 DEF vars, searchVars
  <2> QED  BY <1>3, <2>7, <2>8, CertificateKept
<1> QED  BY <1>4, <1>5, <1>6, <1>7 DEF TInv

LEMMA NextTInv == TInv /\ [TNext]_tvars => TInv'
<1> SUFFICES ASSUME TInv, [TNext]_tvars PROVE TInv'  OBVIOUS
<1>1. CASE Next /\ UNCHANGED <<at, driven>>  BY <1>1, SearchStepTInv
<1>2. CASE Drive  BY <1>2, DriveStepTInv
<1>3. CASE UNCHANGED tvars
  <2>1. UNCHANGED vars /\ UNCHANGED <<at, driven>>  BY <1>3 DEF tvars
  <2>2. IInv /\ AnswerShape /\ TravellerOK /\ Certified
    BY DEF TInv, IInv
  <2>3. IInv'  BY <2>1, <2>2, StutterStep
  <2>4. Certified'  BY <2>1, <2>2, CertifiedAtRest
  <2>5. AnswerShape' /\ TravellerOK'
    BY <2>1, <2>2 DEF AnswerShape, TravellerOK, vars, Started
  <2> QED  BY <2>3, <2>4, <2>5 DEF TInv
<1> QED  BY <1>1, <1>2, <1>3 DEF TNext

\* The invariant of the search and its traveller (acbs.go:127-511).
THEOREM TravellerInvariance == TSpec => []TInv
<1>1. TInit => TInv  BY InitTInv
<1>2. TInv /\ [TNext]_tvars => TInv'  BY NextTInv
<1> QED  BY <1>1, <1>2, PTL DEF TSpec

\* The search is exact: nobody reaches the target for less than the distance
\* it reports, nor at all when it reports that there is no route
\* (acbs.go:181-195, 489-511).
THEOREM Optimal == TSpec => []NoShortcut
<1>1. ASSUME TInv, Answered, at = query.dst
      PROVE  result.status = "reachable" /\ result.distance <= driven
  <2>1. /\ pc = "done" /\ result.status \in {"reachable", "unreachable"}
        /\ result # Cancelled /\ AnswerShape /\ PathOK /\ driven \in Nat
    BY <1>1 DEF Answered, Cancelled, Reply, TInv, IInv, TravellerOK
  <2>2. CASE Started
    <3>1. Certificate(query.dst, driven)  BY <1>1, <2>1, <2>2 DEF TInv, Certified
    <3>2. best # inf /\ best <= driven
      BY <1>1, <2>1, <2>2, <3>1, CertificateAtTarget DEF TInv
    <3> QED  BY <2>1, <2>2, <3>2 DEF PathOK
  <2>3. CASE ~Started  BY <2>1, <2>3 DEF AnswerShape
  <2> QED  BY <2>2, <2>3
<1>2. TInv => NoShortcut  BY <1>1 DEF NoShortcut
<1> QED  BY <1>2, TravellerInvariance, PTL
-----------------------------------------------------------------------------
(* The labels, the incumbent and the reconstructed path are walks          *)

\* A path that is spelled by the labels, from the source to the target, is a route
\* of the cost of the incumbent.
LEMMA SpelledRoute ==
  ASSUME IInv, Started, best # inf, NEW p \in Seq(Node), p # <<>>, Spelled(p),
         p[1] = query.src, p[Len(p)] = query.dst
  PROVE  Oracle!IsRoute(query, p) /\ Oracle!RouteCost(query, p) = best
<1>1. /\ TypeOK /\ InRangeNow /\ LabelsBounded /\ IncumbentTight /\ IsQuery(query)
      /\ "F" \in Dir /\ "B" \in Dir
  BY DEF IInv, TypeOK, Dir
<1>2. Len(p) \in Nat /\ Len(p) > 0 /\ \A i \in 1 .. Len(p) : p[i] \in Node  OBVIOUS
<1>3. PICK k \in 1 .. Len(p) :
        /\ p[k] = meet
        /\ \A i \in 1 .. Len(p) - 1 :
             /\ <<p[i], p[i + 1]>> \in Arcs
             /\ IF i < k
                THEN dist["F"][p[i + 1]] = dist["F"][p[i]] + query.cost[<<p[i], p[i + 1]>>]
                ELSE dist["B"][p[i]] = dist["B"][p[i + 1]] + query.cost[<<p[i], p[i + 1]>>]
  BY DEF Spelled
<1>4. best = dist["F"][meet] + dist["B"][meet]  BY <1>1 DEF IncumbentTight
<1>5. \A v \in Node : dist["F"][v] \in Int /\ dist["B"][v] \in Int
  BY <1>1, WidthAssumption DEF TypeOK, Word
<1>6. dist["F"][query.src] = 0 /\ dist["B"][query.dst] = 0  BY RootFacts
<1> DEFINE n == Len(p)
           g == [i \in 1 .. n |-> IF i <= k THEN dist["F"][p[i]] ELSE best - dist["B"][p[i]]]
<1>7. best \in Int  BY <1>1, WidthAssumption DEF TypeOK, Word
<1>8. n \in Nat /\ n > 0 /\ k \in 1 .. n /\ k \in Nat  BY <1>2
<1>9. g[1] = 0
  <2>1. 1 <= k /\ 1 \in 1 .. n  BY <1>8
  <2> QED  BY <1>6, <2>1
<1>10. g[n] = best
  <2>1. CASE n <= k
    <3>1. n = k  BY <1>8, <2>1
    <3>2. g[n] = dist["F"][p[n]]  BY <1>8, <2>1
    <3>3. p[n] = query.dst /\ p[n] = meet  BY <1>3, <3>1
    <3> QED  BY <1>4, <1>5, <1>6, <3>2, <3>3, <1>2, <1>8
  <2>2. CASE ~(n <= k)
    <3>1. g[n] = best - dist["B"][p[n]]  BY <1>8, <2>2
    <3> QED  BY <1>6, <1>7, <3>1
  <2> QED  BY <2>1, <2>2
<1>11. g \in [1 .. n -> Int]
  <2>1. \A i \in 1 .. n : dist["F"][p[i]] \in Int /\ best - dist["B"][p[i]] \in Int
    BY <1>2, <1>5, <1>7
  <2> QED  BY <2>1
<1>12. ASSUME NEW i \in 1 .. n - 1
       PROVE  g[i + 1] = g[i] + query.cost[<<p[i], p[i + 1]>>]
  <2>1. i \in 1 .. n /\ i + 1 \in 1 .. n /\ i \in Nat  BY <1>8
  <2>2. p[i] \in Node /\ p[i + 1] \in Node  BY <1>2, <2>1
  <2>3. query.cost[<<p[i], p[i + 1]>>] \in Int
    <3>1. <<p[i], p[i + 1]>> \in Arcs  BY <1>3
    <3> QED  BY <1>1, <3>1, ArcFacts
  <2>4. CASE i < k
    <3>1. i <= k /\ i + 1 <= k  BY <1>8, <2>1, <2>4
    <3>2. dist["F"][p[i + 1]] = dist["F"][p[i]] + query.cost[<<p[i], p[i + 1]>>]
      BY <1>3, <2>4
    <3> QED  BY <2>1, <3>1, <3>2
  <2>5. CASE ~(i < k)
    <3>1. ~(i + 1 <= k)  BY <1>8, <2>1, <2>5
    <3>2. g[i + 1] = best - dist["B"][p[i + 1]]  BY <2>1, <3>1
    <3>3. dist["B"][p[i]] = dist["B"][p[i + 1]] + query.cost[<<p[i], p[i + 1]>>]
      BY <1>3, <2>5
    <3>4. g[i] = best - dist["B"][p[i]]
      <4>1. CASE i = k
        <5>1. g[i] = dist["F"][meet] /\ p[i] = meet  BY <1>3, <1>8, <2>1, <4>1
        <5>2. meet \in Node  BY <2>2, <5>1
        <5> QED  BY <1>4, <1>5, <5>1, <5>2
      <4>2. CASE i # k
        <5>1. ~(i <= k)  BY <1>8, <2>1, <2>5, <4>2
        <5> QED  BY <2>1, <5>1
      <4> QED  BY <4>1, <4>2
    <3> QED  BY <1>5, <1>7, <2>2, <2>3, <3>2, <3>3, <3>4
  <2> QED  BY <2>4, <2>5
<1>13. Oracle!RouteCost(query, p) = g[n]
  <2> HIDE DEF g
  <2> QED  BY <1>1, <1>2, <1>9, <1>11, <1>12, RouteCostFacts
<1>14. Oracle!IsRoute(query, p)  BY <1>3 DEF Oracle!IsRoute, Arcs
<1> QED  BY <1>10, <1>13, <1>14

\* A forward label is the cost of a walk to its node, a backward label the cost of
\* walking on to the target.
LEMMA ForwardLabelsWalked ==
  ASSUME IInv, Started, NEW v \in Labelled("F")
  PROVE  <<v, dist["F"][v]>> \in Walks(query)
<1>1. /\ TypeOK /\ InRangeNow /\ LabelsBounded /\ ParentsTight /\ IsQuery(query)
      /\ "F" \in Dir
  BY DEF IInv, TypeOK, Dir
<1> DEFINE missing == {u \in Labelled("F") : <<u, dist["F"][u]>> \notin Walks(query)}
           T == {dist["F"][u] : u \in missing}
<1> SUFFICES ASSUME missing # {} PROVE FALSE  OBVIOUS
<1>2. \A u \in Labelled("F") : dist["F"][u] \in Nat /\ u \in Node  BY <1>1, LabelFacts
<1>3. T \subseteq Nat /\ T # {}  BY <1>2
<1>4. PICK least \in T : \A c \in T : least <= c
  <2> HIDE DEF T
  <2> QED  BY <1>3, LeastNumber
<1>5. PICK u \in missing : least = dist["F"][u]  BY <1>4
<1>6. Root("F") = query.src  BY DEF Root
<1>7. u # Root("F")
  <2>1. dist["F"][query.src] = 0  BY RootFacts
  <2> QED  BY <1>1, <1>5, <1>6, <2>1, WalksClosed DEF ClosedUnder
<1>8. PICK a \in Arcs : /\ To("F", a) = u /\ From("F", a) = parent["F"][u]
                        /\ dist["F"][u] = dist["F"][parent["F"][u]] + query.cost[a]
  BY <1>1, <1>5, <1>7, ParentFacts
<1>9. a[2] = u /\ a[1] \in Labelled("F") /\ dist["F"][u] = dist["F"][a[1]] + query.cost[a]
  BY <1>1, <1>5, <1>7, <1>8, ParentFacts DEF From, To
<1>10. query.cost[a] \in Nat /\ query.cost[a] > 0  BY <1>1, QueryArc DEF Arcs
<1>11. dist["F"][a[1]] \in Nat /\ dist["F"][a[1]] < dist["F"][u]
  BY <1>2, <1>9, <1>10
<1>12. a[1] \notin missing
  <2>1. a[1] \in missing => least <= dist["F"][a[1]]  BY <1>4
  <2> QED  BY <1>2, <1>5, <1>11, <2>1
<1>13. <<a[1], dist["F"][a[1]]>> \in Walks(query)  BY <1>9, <1>12
<1>14. <<a[2], dist["F"][a[1]] + query.cost[a]>> \in Walks(query)
  BY <1>1, <1>11, <1>13, WalksClosed DEF ClosedUnder, Arcs
<1> QED  BY <1>5, <1>9, <1>14

LEMMA BackwardLabelsWalked ==
  ASSUME IInv, Started, NEW v \in Labelled("B"), NEW c \in Nat, <<v, c>> \in Walks(query)
  PROVE  <<query.dst, c + dist["B"][v]>> \in Walks(query)
<1>1. /\ TypeOK /\ InRangeNow /\ LabelsBounded /\ ParentsTight /\ IsQuery(query)
      /\ "B" \in Dir
  BY DEF IInv, TypeOK, Dir
<1> DEFINE missing == {u \in Labelled("B") :
             \E b \in Nat : /\ <<u, b>> \in Walks(query)
                            /\ <<query.dst, b + dist["B"][u]>> \notin Walks(query)}
           T == {dist["B"][u] : u \in missing}
<1> SUFFICES ASSUME missing # {} PROVE FALSE  OBVIOUS
<1>2. \A u \in Labelled("B") : dist["B"][u] \in Nat /\ u \in Node  BY <1>1, LabelFacts
<1>3. T \subseteq Nat /\ T # {}  BY <1>2
<1>4. PICK least \in T : \A x \in T : least <= x
  <2> HIDE DEF T
  <2> QED  BY <1>3, LeastNumber
<1>5. PICK u \in missing : least = dist["B"][u]  BY <1>4
<1>6. PICK b \in Nat : /\ <<u, b>> \in Walks(query)
                       /\ <<query.dst, b + dist["B"][u]>> \notin Walks(query)
  BY <1>5
<1>7. u # Root("B")
  <2>1. dist["B"][query.dst] = 0  BY RootFacts
  <2>2. Root("B") = query.dst  BY DEF Root
  <2> QED  BY <1>6, <2>1, <2>2
<1>8. PICK a \in Arcs : /\ To("B", a) = u /\ From("B", a) = parent["B"][u]
                        /\ dist["B"][u] = dist["B"][parent["B"][u]] + query.cost[a]
  BY <1>1, <1>5, <1>7, ParentFacts
<1>9. a[1] = u /\ a[2] \in Labelled("B") /\ dist["B"][u] = dist["B"][a[2]] + query.cost[a]
  BY <1>1, <1>5, <1>7, <1>8, ParentFacts DEF From, To
<1>10. query.cost[a] \in Nat /\ query.cost[a] > 0  BY <1>1, QueryArc DEF Arcs
<1>11. dist["B"][a[2]] \in Nat /\ dist["B"][a[2]] < dist["B"][u]
  BY <1>2, <1>9, <1>10
<1>12. a[2] \notin missing
  <2>1. a[2] \in missing => least <= dist["B"][a[2]]  BY <1>4
  <2>2. dist["B"][u] \in Nat  BY <1>2, <1>5
  <2> HIDE DEF missing
  <2> QED  BY <1>5, <1>11, <2>1, <2>2
<1>13. <<a[2], b + query.cost[a]>> \in Walks(query)
  BY <1>1, <1>6, <1>9, WalksClosed DEF ClosedUnder, Arcs
<1>14. b + query.cost[a] \in Nat  BY <1>10
<1>15. <<query.dst, (b + query.cost[a]) + dist["B"][a[2]]>> \in Walks(query)
  BY <1>9, <1>12, <1>13, <1>14
<1>16. (b + query.cost[a]) + dist["B"][a[2]] = b + dist["B"][u]
  BY <1>9, <1>10, <1>11
<1> QED  BY <1>6, <1>15, <1>16

LEMMA IncumbentWalked ==
  ASSUME IInv, Started, best # inf
  PROVE  best \in Nat /\ <<query.dst, best>> \in Walks(query)
<1>1. TypeOK /\ InRangeNow /\ LabelsBounded /\ IncumbentTight /\ "F" \in Dir  BY DEF IInv, Dir
<1>2. meet \in Labelled("F") /\ meet \in Labelled("B")  BY <1>1, MeetLabelled
<1>3. best = dist["F"][meet] + dist["B"][meet]  BY <1>1 DEF IncumbentTight
<1>4. dist["F"][meet] \in Nat  BY <1>1, <1>2, LabelFacts
<1>5. <<query.dst, best>> \in Walks(query)
  BY <1>2, <1>3, <1>4, ForwardLabelsWalked, BackwardLabelsWalked
<1>6. best \in Nat  BY BestReducedFacts
<1> QED  BY <1>5, <1>6

-----------------------------------------------------------------------------
(* What a search that has stopped knows                                    *)

\* When the loop ends, no walk to the target is cheaper than the incumbent: the
\* walks with a certificate are closed under the arcs.
LEMMA StoppedOptimal ==
  ASSUME IInv, Started, Stopped, scan = {}, NEW x \in Walks(query), x[1] = query.dst
  PROVE  best # inf /\ best <= x[2]
<1> DEFINE W == {y \in Arrival : Certificate(y[1], y[2])}
<1>1. IsQuery(query)  BY DEF IInv, TypeOK
<1>2. ClosedUnder(query, W)
  <2>1. <<query.src, 0>> \in W
    <3>1. Certificate(query.src, 0)  BY CertificateAtSource
    <3> QED  BY <1>1, <3>1 DEF Arrival, IsQuery
  <2>2. ASSUME NEW a \in DOMAIN query.cost, NEW c \in Nat, <<a[1], c>> \in W
        PROVE  <<a[2], c + query.cost[a]>> \in W
    <3>1. Certificate(a[1], c)  BY <2>2
    <3>2. Certificate(a[2], c + query.cost[a])  BY <3>1, ArcKeepsCertificate DEF Arcs
    <3>3. <<a[2], c + query.cost[a]>> \in Arrival  BY <1>1, QueryArc DEF Arrival
    <3> QED  BY <3>2, <3>3
  <2> HIDE DEF W
  <2> QED  BY <2>1, <2>2 DEF ClosedUnder
<1>3. x \in W  BY <1>2 DEF Walks
<1>4. x[2] \in Nat /\ Certificate(query.dst, x[2])  BY <1>3, ArrivalPair
<1> QED  BY <1>4, CertificateAtTarget

\* So the incumbent is the distance.
LEMMA StoppedExact ==
  ASSUME IInv, Started, Stopped, scan = {}
  PROVE  Oracle!Distance(query) = IF best = inf THEN Oracle!NoRoute ELSE best
<1> DEFINE d == Oracle!Distance(query)
<1>1. IsQuery(query)  BY DEF IInv, TypeOK
<1>2. /\ d \in Costs
      /\ d \in Nat => <<query.dst, d>> \in Walks(query)
      /\ \A x \in Walks(query) : x[1] = query.dst => d \in Nat /\ d <= x[2]
  BY <1>1, BellmanExact DEF Cheapest
<1> HIDE DEF d
<1>3. d \in Nat => best # inf /\ best <= d
  <2> HAVE d \in Nat
  <2>1. <<query.dst, d>> \in Walks(query)  BY <1>2
  <2>2. <<query.dst, d>>[1] = query.dst /\ <<query.dst, d>>[2] = d  OBVIOUS
  <2> QED  BY <2>1, <2>2, StoppedOptimal
<1>4. best # inf => best \in Nat /\ d \in Nat /\ d <= best
  <2> HAVE best # inf
  <2>1. best \in Nat /\ <<query.dst, best>> \in Walks(query)  BY IncumbentWalked
  <2>2. <<query.dst, best>>[1] = query.dst /\ <<query.dst, best>>[2] = best  OBVIOUS
  <2> QED  BY <1>2, <2>1, <2>2
<1>5. d = IF best = inf THEN Oracle!NoRoute ELSE best  BY <1>2, <1>3, <1>4 DEF Costs
<1> QED  BY <1>5 DEF d

\* A sum of keys that reaches the incumbent is worth at least the incumbent on the
\* original scale.
LEMMA BoundRecovers ==
  ASSUME NEW r \in Nat, NEW b \in Nat, NEW x \in Int, NEW y \in Int,
         2 * b + (y - x) <= r, 2 * b <= MaxUint64
  PROVE  b <= reducedToOriginalLowerBound(r, x, y)
<1> DEFINE shift == y - x
<1>1. MaxUint64 \in Nat /\ shift \in Int /\ 2 * b + shift <= r  BY WidthAssumption
<1>2. \A n \in Nat : 2 * b <= n => b <= n \div 2  OBVIOUS
<1>3. reducedToOriginalLowerBound(r, x, y) =
        IF shift < 0 THEN saturatingAdd(r, -shift) \div 2
        ELSE IF shift >= r THEN 0 ELSE (r - shift) \div 2
  BY DEF reducedToOriginalLowerBound
<1> HIDE DEF shift
<1>4. CASE shift < 0
  <2>1. saturatingAdd(r, -shift) \in Nat /\ 2 * b <= saturatingAdd(r, -shift)
    BY <1>1, <1>4 DEF saturatingAdd
  <2> QED  BY <1>2, <1>3, <1>4, <2>1
<1>5. CASE shift >= 0 /\ shift >= r
  <2>1. b = 0  BY <1>1, <1>5
  <2>2. reducedToOriginalLowerBound(r, x, y) = 0  BY <1>1, <1>3, <1>5
  <2> QED  BY <2>1, <2>2
<1>6. CASE shift >= 0 /\ ~(shift >= r)
  <2>1. r - shift \in Nat /\ 2 * b <= r - shift  BY <1>1, <1>6
  <2>2. reducedToOriginalLowerBound(r, x, y) = (r - shift) \div 2  BY <1>1, <1>3, <1>6
  <2> QED  BY <1>2, <2>1, <2>2
<1> QED  BY <1>1, <1>4, <1>5, <1>6

\* From the stop on, the proof bound has no gap to the incumbent.
NoGap == pc \in {"left", "right"} => lower = best

LEMMA NoGapAtBound ==
  ASSUME IInv, StopAtBound
  PROVE  NoGap'
<1>1. /\ TypeOK /\ InRangeNow /\ LabelsBounded /\ IncumbentTight
      /\ "F" \in Dir /\ "B" \in Dir
  BY DEF IInv, Dir
<1> DEFINE bound(f, b) == reducedToOriginalLowerBound(
                            saturatingAdd(Key("F", f), Key("B", b)),
                            query.phi[query.src], query.phi[query.dst])
<1>2. PICK f \in Front("F"), b \in Front("B") :
        BoundReached(f, b) /\ Conclude(IF bound(f, b) > best THEN best ELSE bound(f, b))
  BY DEF StopAtBound
<1>3. best' = best /\ pc = "search"  BY DEF StopAtBound, searchVars
<1>4. CASE best = inf \/ meet = NoNode
  BY <1>2, <1>4 DEF Conclude, NoGap
<1>5. CASE ~(best = inf \/ meet = NoNode)
  <2>1. lower' = IF bound(f, b) > best THEN best ELSE bound(f, b)
    BY <1>2, <1>5 DEF Conclude
  <2>2. f \in Labelled("F") /\ b \in Labelled("B")  BY <1>1, FrontFacts DEF IInv
  <2>3. /\ saturatingAdd(Key("F", f), Key("B", b)) = Reduced("F", f) + Reduced("B", b)
        /\ Reduced("F", f) + Reduced("B", b) >= bestReduced
    BY <1>1, <1>2, <2>2, BoundFacts
  <2>4. Reduced("F", f) \in Nat /\ Reduced("B", b) \in Nat  BY <1>1, <2>2, LabelFacts
  <2>5. bestReduced = 2 * best + (query.phi[query.dst] - query.phi[query.src])
        /\ bestReduced \in Int /\ best \in Nat
    BY <1>5, BestReducedFacts
  <2>6. 2 * best <= MaxUint64
    <3>1. meet \in Labelled("F") /\ meet \in Labelled("B")  BY <1>1, <1>5, MeetLabelled
    <3>2. /\ dist["F"][meet] \in Nat /\ dist["F"][meet] <= MaxLabel
          /\ dist["B"][meet] \in Nat /\ dist["B"][meet] <= MaxLabel
      BY <1>1, <3>1, LabelFacts
    <3>3. best = dist["F"][meet] + dist["B"][meet]  BY <1>1, <1>5 DEF IncumbentTight
    <3> QED  BY <3>2, <3>3, MaxLabelType, RangeAssumption, WidthAssumption
  <2>7. query.phi[query.src] \in Int /\ query.phi[query.dst] \in Int
    BY <1>1 DEF TypeOK, IsQuery
  <2>8. Reduced("F", f) + Reduced("B", b) \in Nat
        /\ 2 * best + (query.phi[query.dst] - query.phi[query.src])
             <= Reduced("F", f) + Reduced("B", b)
    BY <2>3, <2>4, <2>5
  <2>9. best <= bound(f, b)  BY <2>3, <2>5, <2>6, <2>7, <2>8, BoundRecovers
  <2>10. bound(f, b) \in Int
    <3>1. Key("F", f) \in Word /\ Key("B", b) \in Word
      <4>1. f \in Node /\ b \in Node  BY <1>1, <2>2, LabelFacts
      <4>2. /\ dist["F"][f] \in Word /\ dist["B"][b] \in Word
            /\ Shift("F", f) \in Int /\ Shift("B", b) \in Int
        BY <1>1, <4>1, ShiftFacts DEF TypeOK
      <4> QED  BY <4>2, DoubledType DEF Key
    <3>2. bound(f, b) \in Word  BY <2>7, <3>1, SaturatingAddType, LowerBoundType
    <3> QED  BY <3>2, WidthAssumption DEF Word
  <2> HIDE DEF bound
  <2>11. lower' = best  BY <2>1, <2>5, <2>9, <2>10
  <2> QED  BY <1>3, <2>11 DEF NoGap
<1> QED  BY <1>4, <1>5

LEMMA NoGapStep ==
  ASSUME IInv, NoGap, [Next]_vars
  PROVE  NoGap'
<1>1. CASE AnswerTrivial  BY <1>1 DEF AnswerTrivial, NoGap
<1>2. CASE Begin  BY <1>2 DEF Begin, NoGap
<1>3. CASE Settle("F") \/ Settle("B") \/ Relax  BY <1>3 DEF Settle, Relax, NoGap
<1>4. CASE StopAtBound  BY <1>4, NoGapAtBound
<1>5. CASE StopExhausted  BY <1>5 DEF StopExhausted, Conclude, NoGap, searchVars
<1>6. CASE Cancel  BY <1>6 DEF Cancel, NoGap
<1>7. CASE WalkLeft \/ WalkRight
  <2>1. pc \in {"left", "right"} /\ UNCHANGED <<best, lower>>
    BY <1>7 DEF WalkLeft, WalkRight, searchVars
  <2> QED  BY <2>1 DEF NoGap
<1>8. CASE Returned \/ UNCHANGED vars
  BY <1>8 DEF Returned, vars, searchVars, NoGap
<1> QED
  BY <1>1, <1>2, <1>3, <1>4, <1>5, <1>6, <1>7, <1>8 DEF Next, Work

-----------------------------------------------------------------------------
(* The search answers as an exact search must                              *)

LEMMA RecordedReply ==
  ASSUME NEW s, NEW d, NEW p, NEW l
  PROVE  /\ Reply(s, d, p, l).status = s /\ Reply(s, d, p, l).distance = d
         /\ Reply(s, d, p, l).path = p /\ Reply(s, d, p, l).lower = l
BY DEF Reply

LEMMA TrivialAnswers ==
  ASSUME IInv, AnswerTrivial
  PROVE  Oracle!Reply
<1>1. IsQuery(query) /\ pc = "start" /\ result = Pending  BY DEF IInv, TypeOK, AnswerOK, AnswerTrivial
<1>2. /\ query.src = query.dst /\ query.src \in Node /\ query' = query
      /\ result' = Reply("reachable", 0, <<query.src>>, 0)
  BY <1>1 DEF AnswerTrivial, IsQuery
<1> DEFINE d == Oracle!Distance(query)
           p == <<query.src>>
           g == [i \in 1 .. Len(p) |-> 0]
<1>3. d = 0
  <2>1. <<query.dst, 0>> \in Walks(query)  BY <1>1, <1>2, WalksClosed DEF ClosedUnder
  <2>2. <<query.dst, 0>>[1] = query.dst /\ <<query.dst, 0>>[2] = 0  OBVIOUS
  <2>3. d \in Nat /\ d <= 0  BY <1>1, <2>1, <2>2, BellmanExact
  <2> HIDE DEF d
  <2> QED  BY <2>3
<1>4. /\ p \in Seq(Node) /\ p # <<>> /\ Len(p) = 1 /\ p[1] = query.src  BY <1>2
<1>5. Oracle!IsRoute(query, p)  BY <1>2, <1>4 DEF Oracle!IsRoute
<1>6. Oracle!RouteCost(query, p) = 0
  <2>1. g \in [1 .. Len(p) -> Int] /\ g[1] = 0 /\ g[Len(p)] = 0  BY <1>4
  <2>2. /\ Len(p) \in Nat /\ Len(p) > 0
        /\ \A i \in 1 .. Len(p) - 1 : g[i + 1] = g[i] + query.cost[<<p[i], p[i + 1]>>]
    <3>1. 1 .. Len(p) - 1 = {}  BY <1>4
    <3> QED  BY <1>4, <3>1
  <2> HIDE DEF g, p
  <2>3. Oracle!RouteCost(query, p) = g[Len(p)]  BY <1>1, <1>4, <2>1, <2>2, RouteCostFacts
  <2> QED  BY <2>1, <2>3
<1>7. Oracle!Correct(query, result')
  <2>1. /\ result'.status = "reachable" /\ result'.distance = 0
        /\ result'.path = p /\ result'.lower = 0
    BY <1>2, RecordedReply
  <2> QED  BY <1>3, <1>5, <1>6, <2>1 DEF Oracle!Correct
<1> QED  BY <1>1, <1>2, <1>7, RecordedReply DEF Oracle!Reply, Pending

LEMMA ConcludeAnswers ==
  ASSUME IInv, StopAtBound \/ StopExhausted
  PROVE  Oracle!Reply \/ UNCHANGED <<query, result>>
<1>1. /\ pc = "search" /\ scan = {} /\ query' = query
      /\ \E bound : Conclude(bound)
  BY DEF StopAtBound, StopExhausted
<1>2. PICK bound : Conclude(bound)  BY <1>1
<1>3. Started /\ Stopped /\ result = Pending /\ IncumbentTight /\ TypeOK
  <2>1. Started  BY <1>1 DEF IInv, Idle
  <2>2. Stopped  BY DEF StopAtBound, StopExhausted, Stopped
  <2> QED  BY <1>1, <2>1, <2>2 DEF IInv, AnswerOK
<1>4. CASE best = inf \/ meet = NoNode
  <2>1. best = inf  BY <1>3, <1>4, NodeAssumption DEF IncumbentTight
  <2>2. Oracle!Distance(query) = Oracle!NoRoute  BY <1>1, <1>3, <2>1, StoppedExact
  <2>3. result' = Reply("unreachable", 0, <<>>, 0)  BY <1>2, <1>4 DEF Conclude
  <2>4. result'.status = "unreachable" /\ result'.path = <<>>  BY <2>3, RecordedReply
  <2>5. Oracle!Correct(query, result')  BY <2>2, <2>4 DEF Oracle!Correct
  <2> QED  BY <1>1, <1>3, <2>5, RecordedReply DEF Oracle!Reply, Pending
<1>5. CASE ~(best = inf \/ meet = NoNode)
  BY <1>1, <1>2, <1>5 DEF Conclude
<1> QED  BY <1>4, <1>5

LEMMA CancelAnswers ==
  ASSUME IInv, Cancel
  PROVE  Oracle!Reply
<1>1. pc = "search" /\ query' = query /\ result' = Cancelled /\ result = Pending
  BY DEF Cancel, IInv, AnswerOK
<1>2. result'.status = "cancelled" /\ result'.path = <<>>
  BY <1>1, RecordedReply DEF Cancelled
<1> QED  BY <1>1, <1>2, RecordedReply DEF Oracle!Reply, Oracle!Correct, Pending

LEMMA WalkAnswers ==
  ASSUME IInv, NoGap, WalkLeft \/ WalkRight
  PROVE  Oracle!Reply \/ UNCHANGED <<query, result>>
<1>1. /\ pc \in {"left", "right"} /\ UNCHANGED <<query, searchVars, lower>>
  BY DEF WalkLeft, WalkRight
<1>2. /\ TypeOK /\ PathOK /\ AnswerOK /\ best # inf /\ path # <<>> /\ Spelled(path)
      /\ path \in Seq(Node) /\ result = Pending
  BY <1>1 DEF IInv, PathOK, TypeOK, AnswerOK
<1>3. Started /\ Stopped /\ scan = {}
  <2>1. Started  BY <1>1 DEF IInv, Idle
  <2>2. result # Cancelled  BY <1>2, RecordedReply DEF Pending, Cancelled
  <2> QED  BY <1>1, <1>2, <2>1, <2>2 DEF AnswerOK
<1>4. ~GiveUp
  <2> SUFFICES ASSUME GiveUp PROVE FALSE  OBVIOUS
  <2>1. pc' = "done" /\ result'.status = "unreachable"  BY RecordedReply DEF GiveUp
  <2>2. IInv'  BY NextIInv DEF Next, Work
  <2>3. best' = inf'  BY <2>1, <2>2 DEF IInv, PathOK
  <2> QED  BY <1>1, <1>2, <2>3 DEF searchVars, inf
<1>5. CASE UNCHANGED result  BY <1>1, <1>5
<1>6. CASE result' # result
  <2>1. /\ pc = "right" /\ path[Len(path)] = query.dst
        /\ result' = Reply("reachable", best, path, lower)
    BY <1>4, <1>6 DEF WalkLeft, WalkRight
  <2>2. path[1] = query.src  BY <1>2, <2>1 DEF PathOK
  <2>3. Oracle!IsRoute(query, path) /\ Oracle!RouteCost(query, path) = best
    BY <1>2, <1>3, <2>1, <2>2, SpelledRoute
  <2>4. Oracle!Distance(query) = best  BY <1>2, <1>3, StoppedExact
  <2>5. lower = best  BY <2>1 DEF NoGap
  <2>6. /\ result'.status = "reachable" /\ result'.distance = best
        /\ result'.path = path /\ result'.lower = best
    BY <2>1, <2>5, RecordedReply
  <2>7. Oracle!Correct(query, result')  BY <2>3, <2>4, <2>6 DEF Oracle!Correct
  <2> QED  BY <1>1, <1>2, <2>7, RecordedReply DEF Oracle!Reply, Pending
<1> QED  BY <1>5, <1>6

LEMMA StepAnswers ==
  ASSUME IInv, NoGap, [Next]_vars
  PROVE  [Oracle!Reply]_<<query, result>>
<1>1. CASE AnswerTrivial  BY <1>1, TrivialAnswers
<1>2. CASE Begin  BY <1>2 DEF Begin
<1>3. CASE Settle("F") \/ Settle("B") \/ Relax  BY <1>3 DEF Settle, Relax
<1>4. CASE StopAtBound \/ StopExhausted  BY <1>4, ConcludeAnswers
<1>5. CASE Cancel  BY <1>5, CancelAnswers
<1>6. CASE WalkLeft \/ WalkRight  BY <1>6, WalkAnswers
<1>7. CASE Returned \/ UNCHANGED vars  BY <1>7 DEF Returned, vars
<1> QED
  BY <1>1, <1>2, <1>3, <1>4, <1>5, <1>6, <1>7 DEF Next, Work

\* The search implements the exact search: one answer, which is a shortest route
\* with the distance of Bellman's recurrence, its own cost and a bound without a
\* gap, or that there is no route (README.md, "Returns a shortest path";
\* acbs.go:127-511).
THEOREM SearchIsExact == Spec => AnswersExactly
<1>1. Init => Oracle!Init /\ NoGap
  <2> SUFFICES ASSUME Init PROVE Oracle!Init /\ NoGap  OBVIOUS
  <2>1. result = Pending /\ pc = "start"  BY DEF Init
  <2>2. result.status = "pending"  BY <2>1, RecordedReply DEF Pending
  <2> QED  BY <2>1, <2>2 DEF Oracle!Init, NoGap
<1>2. IInv /\ NoGap /\ [Next]_vars => NoGap' /\ [Oracle!Reply]_<<query, result>>
  BY NoGapStep, StepAnswers
<1> QED  BY <1>1, <1>2, Invariance, PTL DEF Spec, AnswersExactly, Oracle!Spec

-----------------------------------------------------------------------------
(* The lower bound while the search is still running                       *)

\* A sum that the unclamped bound dominates is dominated by the clamped one too.
LEMMA ClampedUpper ==
  ASSUME NEW r \in Nat, NEW c \in Nat, NEW delta \in Int,
         r <= MaxUint64, r <= 2 * c + delta
  PROVE  r <= doubledPlusSigned(c, delta)
<1>1. MaxUint64 \in Nat  BY WidthAssumption
<1>2. CASE c > MaxUint64 \div 2  BY <1>1, <1>2 DEF doubledPlusSigned, inf
<1>3. CASE ~(c > MaxUint64 \div 2) /\ delta >= 0
  <2>1. doubledPlusSigned(c, delta) = saturatingAdd(2 * c, delta)
    BY <1>3 DEF doubledPlusSigned
  <2>2. r <= saturatingAdd(2 * c, delta)  BY <1>1, <1>3 DEF saturatingAdd
  <2> QED  BY <2>1, <2>2
<1>4. CASE ~(c > MaxUint64 \div 2) /\ ~(delta >= 0)
  <2>1. doubledPlusSigned(c, delta) = IF -delta >= 2 * c THEN 0 ELSE 2 * c + delta
    BY <1>4 DEF doubledPlusSigned
  <2> QED  BY <1>4, <2>1
<1> QED  BY <1>2, <1>3, <1>4

LEMMA BoundAtRest ==
  ASSUME IInv, pc = "search", scan = {}, NEW f \in Front("F"), NEW b \in Front("B"),
         Oracle!Distance(query) \in Nat, Oracle!Distance(query) # best
  PROVE  Key("F", f) + Key("B", b) <= originalToReducedUpperBound(
           Oracle!Distance(query), query.phi[query.src], query.phi[query.dst])
<1> DEFINE d == Oracle!Distance(query)
           W == {y \in Arrival : FrontCertificate(f, b, y[1], y[2])}
<1>1. /\ Started /\ IsQuery(query) /\ TypeOK /\ InRangeNow /\ LabelsBounded
      /\ "F" \in Dir /\ "B" \in Dir
  BY DEF IInv, TypeOK, Idle, Dir
<1>2. ClosedUnder(query, W)
  <2>1. <<query.src, 0>> \in W
    <3>1. FrontCertificate(f, b, query.src, 0)  BY <1>1, FrontAtSource
    <3> QED  BY <1>1, <3>1 DEF Arrival, IsQuery
  <2>2. ASSUME NEW a \in DOMAIN query.cost, NEW c \in Nat, <<a[1], c>> \in W
        PROVE  <<a[2], c + query.cost[a]>> \in W
    <3>1. FrontCertificate(f, b, a[1], c)  BY <2>2
    <3>2. FrontCertificate(f, b, a[2], c + query.cost[a])
      BY <3>1, ArcKeepsFront DEF Arcs
    <3>3. <<a[2], c + query.cost[a]>> \in Arrival  BY <1>1, QueryArc DEF Arrival
    <3> QED  BY <3>2, <3>3
  <2> HIDE DEF W
  <2> QED  BY <2>1, <2>2 DEF ClosedUnder
<1>3. /\ d \in Nat /\ d # best /\ <<query.dst, d>> \in Walks(query)
      /\ \A x \in Walks(query) : x[1] = query.dst => d <= x[2]
  BY <1>1, BellmanExact DEF Cheapest
<1> HIDE DEF d
<1>4. <<query.dst, d>> \in W
  <2> HIDE DEF W
  <2>1. W \in SUBSET Arrival  BY DEF W
  <2> QED  BY <1>2, <1>3, <2>1 DEF Walks
<1>5. FrontCertificate(f, b, query.dst, d)  BY <1>4
<1>6. ~(best # inf /\ best <= d)
  <2> SUFFICES ASSUME best # inf, best <= d PROVE FALSE  OBVIOUS
  <2>1. best \in Nat /\ <<query.dst, best>> \in Walks(query)  BY <1>1, IncumbentWalked
  <2>2. <<query.dst, best>>[1] = query.dst /\ <<query.dst, best>>[2] = best  OBVIOUS
  <2>3. d <= best  BY <1>3, <2>1, <2>2
  <2> QED  BY <1>3, <2>1, <2>3
<1>7. Reduced("F", f) + Reduced("B", b) <=
        2 * d + (query.phi[query.dst] - query.phi[query.src])
  BY <1>1, <1>3, <1>5, <1>6, FrontAtTarget
<1>8. f \in Labelled("F") /\ b \in Labelled("B")  BY <1>1, FrontFacts
<1>9. /\ Key("F", f) = Reduced("F", f) /\ Key("B", b) = Reduced("B", b)
      /\ Reduced("F", f) \in Nat /\ Reduced("F", f) <= 2 * MaxLabel + MaxPhi
      /\ Reduced("B", b) \in Nat /\ Reduced("B", b) <= 2 * MaxLabel + MaxPhi
  BY <1>1, <1>8, LabelFacts
<1>10. Reduced("F", f) + Reduced("B", b) \in Nat
       /\ Reduced("F", f) + Reduced("B", b) <= MaxUint64
  BY <1>9, MaxLabelType, RangeAssumption, WidthAssumption
<1>11. query.phi[query.dst] - query.phi[query.src] \in Int  BY <1>1, RootFacts
<1>12. Reduced("F", f) + Reduced("B", b) <=
         doubledPlusSigned(d, query.phi[query.dst] - query.phi[query.src])
  BY <1>3, <1>7, <1>10, <1>11, ClampedUpper
<1> QED  BY <1>9, <1>12 DEF originalToReducedUpperBound, d

\* The coupled lower bound never overtakes the distance while the incumbent is
\* worse (docs/CORRECTNESS.md; acbs.go:225-251): the loop cannot be left too early.
THEOREM LowerBoundAlwaysValid == Spec => []LowerBoundValid
<1>1. IInv => LowerBoundValid
  <2> SUFFICES ASSUME IInv, pc = "search", scan = {},
                      Oracle!Distance(query) \notin {best, Oracle!NoRoute},
                      NEW f \in Front("F"), NEW b \in Front("B")
               PROVE  Key("F", f) + Key("B", b) <= originalToReducedUpperBound(
                        Oracle!Distance(query), query.phi[query.src], query.phi[query.dst])
    BY DEF LowerBoundValid
  <2>1. Oracle!Distance(query) \in Costs  BY BellmanExact DEF IInv, TypeOK
  <2>2. Oracle!Distance(query) \in Nat /\ Oracle!Distance(query) # best
    BY <2>1 DEF Costs
  <2> QED  BY <2>2, BoundAtRest
<1> QED  BY <1>1, Invariance, PTL

-----------------------------------------------------------------------------
(* The scheduler                                                           *)

\* The types on which the step mapping rests.  An entry is never written for a
\* label that does not fit the word.
SearchTypes ==
  /\ IsQuery(query)
  /\ dist \in [Dir -> [Node -> Word]]
  /\ settled \in [Dir -> SUBSET Node]
  /\ heap \in [Dir -> SUBSET (Node \X (Word \ {inf}))]
  /\ dir \in Dir /\ cur \in Node \cup {NoNode}
  /\ scan \subseteq {a \in Arcs : From(dir, a) = cur}
  /\ phase \in {"outer", "chunk"} /\ last \in Dir \cup {"none"}
  /\ phase = "chunk" => last \in Dir

\* LabelsQueued, also before and after the search.
Queued ==
  \A d \in Dir : /\ \A v \in Open(d) : <<v, dist[d][v]>> \in heap[d]
                 /\ \A e \in heap[d] : dist[d][e[1]] <= e[2]

\* The workspace is clean when the call begins.
Blank == pc = "start" => \A d \in Dir : \A v \in Node : dist[d][v] = inf

HInv == SearchTypes /\ Queued /\ Blank

-----------------------------------------------------------------------------
(* The heaps against the labels.                                           *)

LEMMA DirTypes ==
  ASSUME SearchTypes, NEW d \in Dir
  PROVE  /\ Other(d) \in Dir /\ Other(d) # d /\ Dir = {d, Other(d)}
         /\ dist[d] \in [Node -> Word] /\ settled[d] \subseteq Node
         /\ heap[d] \subseteq Node \X (Word \ {inf}) /\ Root(d) \in Node
BY DEF SearchTypes, Dir, Other, Root, IsQuery

\* The entries that peekValid may deliver are those of the open nodes.
LEMMA FreshIsOpen ==
  ASSUME HInv, NEW d \in Dir
  PROVE  /\ \A e \in Fresh(d) : e[1] \in Open(d) /\ e = <<e[1], dist[d][e[1]]>>
         /\ \A v \in Open(d) : <<v, dist[d][v]>> \in Fresh(d)
<1>1. heap[d] \subseteq Node \X (Word \ {inf})  BY DirTypes DEF HInv
<1>2. ASSUME NEW e \in Fresh(d)
      PROVE  e[1] \in Open(d) /\ e = <<e[1], dist[d][e[1]]>>
  <2>1. e \in Node \X (Word \ {inf}) /\ e[2] = dist[d][e[1]] /\ e[1] \notin settled[d]
    BY <1>1 DEF Fresh
  <2> QED  BY <2>1 DEF Open
<1>3. ASSUME NEW v \in Open(d)
      PROVE  <<v, dist[d][v]>> \in Fresh(d)
  BY DEF HInv, Queued, Fresh, Open
<1> QED  BY <1>2, <1>3

\* Hence the top of a heap is a front node of the free search, under the same
\* key, and a heap is dry when no node is open.
LEMMA TopIsFront ==
  ASSUME HInv, NEW d \in Dir
  PROVE  /\ \A e \in Tops(d) : /\ e[1] \in Front(d) /\ e = <<e[1], dist[d][e[1]]>>
                               /\ EntryKey(d, e) = Key(d, e[1])
         /\ Fresh(d) = {} <=> Open(d) = {}
<1>1. ASSUME NEW e \in Tops(d)
      PROVE  /\ e[1] \in Front(d) /\ e = <<e[1], dist[d][e[1]]>>
             /\ EntryKey(d, e) = Key(d, e[1])
  <2>1. e \in Fresh(d) /\ \A f \in Fresh(d) : EntryKey(d, e) <= EntryKey(d, f)
    BY DEF Tops
  <2>2. e[1] \in Open(d) /\ e = <<e[1], dist[d][e[1]]>>  BY <2>1, FreshIsOpen
  <2>3. EntryKey(d, e) = Key(d, e[1])  BY <2>2 DEF EntryKey, Key
  <2>4. ASSUME NEW w \in Open(d)
        PROVE  Key(d, e[1]) <= Key(d, w)
    <3> DEFINE f == <<w, dist[d][w]>>
    <3>1. f \in Fresh(d)  BY FreshIsOpen
    <3>2. EntryKey(d, f) = Key(d, w)  BY DEF EntryKey, Key
    <3> QED  BY <2>1, <2>3, <3>1, <3>2
  <2> QED  BY <2>2, <2>3, <2>4 DEF Front
<1>2. Fresh(d) = {} <=> Open(d) = {}  BY FreshIsOpen
<1> QED  BY <1>1, <1>2

\* A peek drops stale entries only.
LEMMA PeekKeepsFresh ==
  ASSUME NEW d \in Dir, NEW h \in Peeked(d)
  PROVE  h \subseteq heap[d] /\ Fresh(d) \subseteq h
<1>1. CASE Fresh(d) = {}  BY <1>1 DEF Peeked
<1>2. CASE Fresh(d) # {}
  <2> DEFINE stale == heap[d] \ Fresh(d)
             k == EntryKey(d, CHOOSE e \in Tops(d) : TRUE)
             ahead == {e \in stale : EntryKey(d, e) < k}
             level == {e \in stale : EntryKey(d, e) = k}
  <2>1. h \in {heap[d] \ (ahead \cup s) : s \in SUBSET level}  BY <1>2, Zenon DEF Peeked
  <2>2. PICK s \in SUBSET level : h = heap[d] \ (ahead \cup s)  BY <2>1
  <2>3. ahead \subseteq stale /\ level \subseteq stale  OBVIOUS
  <2>4. Fresh(d) \subseteq heap[d]  BY DEF Fresh
  <2> HIDE DEF ahead, level
  <2> QED  BY <2>2, <2>3, <2>4
<1> QED  BY <1>1, <1>2

LEMMA PeekBothKeepsFresh ==
  ASSUME HInv, NEW h \in PeekedBoth
  PROVE  /\ h \in [Dir -> SUBSET (Node \X (Word \ {inf}))]
         /\ \A d \in Dir : h[d] \subseteq heap[d] /\ Fresh(d) \subseteq h[d]
<1>1. PICK f \in Peeked("F"), b \in Peeked("B") : h = [d \in Dir |-> IF d = "F" THEN f ELSE b]
  BY DEF PeekedBoth
<1>2. \A d \in Dir : h[d] \in Peeked(d)  BY <1>1 DEF Dir
<1>3. \A d \in Dir : h[d] \subseteq heap[d] /\ Fresh(d) \subseteq h[d]
  BY <1>2, PeekKeepsFresh
<1>4. \A d \in Dir : heap[d] \subseteq Node \X (Word \ {inf})  BY DirTypes DEF HInv
<1>5. h = [d \in Dir |-> h[d]]  BY <1>1
<1> QED  BY <1>3, <1>4, <1>5

\* A peek between two steps of the search loses nothing.
LEMMA PeekKeepsHInv ==
  ASSUME HInv, heap' \in PeekedBoth, pc = "search", pc' # "start",
         UNCHANGED <<query, dist, settled, dir, cur, scan>>,
         phase' \in {"outer", "chunk"}, last' \in Dir \cup {"none"},
         phase' = "chunk" => last' \in Dir
  PROVE  HInv'
<1>1. /\ heap' \in [Dir -> SUBSET (Node \X (Word \ {inf}))]
      /\ \A d \in Dir : heap'[d] \subseteq heap[d] /\ Fresh(d) \subseteq heap'[d]
  BY PeekBothKeepsFresh
<1>2. \A d \in Dir : Open(d)' = Open(d)  BY DEF Open
<1>3. SearchTypes'  BY <1>1 DEF HInv, SearchTypes, Arcs, From
<1>4. ASSUME NEW d \in Dir
      PROVE  /\ \A v \in Open(d)' : <<v, dist'[d][v]>> \in heap'[d]
             /\ \A e \in heap'[d] : dist'[d][e[1]] <= e[2]
  BY <1>1, <1>2, FreshIsOpen DEF HInv, Queued
<1> QED  BY <1>3, <1>4 DEF HInv, Queued, Blank

-----------------------------------------------------------------------------
(* Each step of the call is one of the free search, or moves the schedule  *)
(* only.                                                                   *)

LEMMA InitHInv == ACBSInit => HInv
<1> SUFFICES ASSUME ACBSInit PROVE HInv  OBVIOUS
<1>1. IsQuery(query)  BY QueryAssumption DEF ACBSInit, Init
<1>2. inf \in Word  BY WidthAssumption DEF inf, Word
<1>3. SearchTypes  BY <1>1, <1>2 DEF ACBSInit, Init, SearchTypes, Dir
<1>4. Queued /\ Blank  BY DEF ACBSInit, Init, Queued, Open, Blank
<1> QED  BY <1>3, <1>4 DEF HInv

LEMMA EnterStep == HInv /\ Enter => HInv'
<1> SUFFICES ASSUME HInv, Enter PROVE HInv'  OBVIOUS
<1>1. \A d \in Dir : Root(d) \in Node  BY DirTypes DEF HInv
<1>2. 0 \in Word \ {inf} /\ inf \in Word  BY WidthAssumption DEF Word, inf
<1>3. /\ dist' = [d \in Dir |-> [dist[d] EXCEPT ![Root(d)] = 0]]
      /\ heap' = [d \in Dir |-> {<<Root(d), 0>>}]
      /\ UNCHANGED <<query, settled, dir, cur, scan, phase, last>>
  BY DEF Enter, Begin, schedVars
<1>4. \A d \in Dir : dist[d] \in [Node -> Word]  BY DEF HInv, SearchTypes
<1>5. SearchTypes'
  <2>1. dist' \in [Dir -> [Node -> Word]]  BY <1>2, <1>3, <1>4
  <2>2. heap' \in [Dir -> SUBSET (Node \X (Word \ {inf}))]  BY <1>1, <1>2, <1>3
  <2> QED  BY <1>3, <2>1, <2>2 DEF HInv, SearchTypes, Arcs, From
<1>6. Queued'
  <2> SUFFICES ASSUME NEW d \in Dir
               PROVE  /\ \A v \in Open(d)' : <<v, dist'[d][v]>> \in heap'[d]
                      /\ \A e \in heap'[d] : dist'[d][e[1]] <= e[2]
    BY DEF Queued
  <2>1. dist'[d] = [dist[d] EXCEPT ![Root(d)] = 0] /\ heap'[d] = {<<Root(d), 0>>}
    BY <1>3
  <2>2. \A v \in Node : dist[d][v] = inf /\ dist[d] \in [Node -> Word]
    BY <1>4 DEF HInv, Blank, Enter, Begin
  <2>3. Open(d)' \subseteq {Root(d)}  BY <2>1, <2>2 DEF Open
  <2>4. dist'[d][Root(d)] = 0  BY <1>1, <2>1, <2>2
  <2> QED  BY <2>1, <2>3, <2>4
<1>7. Blank'  BY DEF Blank, Enter, Begin
<1> QED  BY <1>5, <1>6, <1>7 DEF HInv

\* What is popped is a front node, and the other entries stay.
LEMMA PopStep == HInv /\ Pop => HInv' /\ (Settle("F") \/ Settle("B"))
<1> SUFFICES ASSUME HInv, Pop PROVE HInv' /\ (Settle("F") \/ Settle("B"))  OBVIOUS
<1>1. /\ pc = "search" /\ phase = "chunk" /\ scan = {} /\ last \in Dir
      /\ UNCHANGED <<query, pc, dist, parent, lower, path, result, phase, last>>
  BY DEF Pop, Searching, schedVars, HInv, SearchTypes
<1> DEFINE node(f, b) == IF last = "F" THEN f[1] ELSE b[1]
<1>2. PICK h \in PeekedBoth, f \in Tops("F"), b \in Tops("B") :
        LET e == IF last = "F" THEN f ELSE b
            v == e[1]
        IN  /\ ~Reached(f, b)
            /\ heap' = [h EXCEPT ![last] = @ \ {e}]
            /\ dir' = last /\ cur' = v
            /\ settled' = [settled EXCEPT ![last] = @ \cup {v}]
            /\ UpdateBest(v, dist)
            /\ scan' = IF Pruned(last, v, dist[last][v], best') THEN {} ELSE Edges(last, v)
  BY Zenon DEF Pop
<1>3. "F" \in Dir /\ "B" \in Dir  BY DEF Dir
<1>4. /\ f[1] \in Front("F") /\ f = <<f[1], dist["F"][f[1]]>> /\ EntryKey("F", f) = Key("F", f[1])
      /\ b[1] \in Front("B") /\ b = <<b[1], dist["B"][b[1]]>> /\ EntryKey("B", b) = Key("B", b[1])
  BY <1>3, TopIsFront
<1> DEFINE e == IF last = "F" THEN f ELSE b
           v == e[1]
<1>5. e = <<v, dist[last][v]>> /\ v \in Open(last) /\ v \in Node
  BY <1>1, <1>4 DEF Dir, Front, Open
<1>6. /\ heap' = [h EXCEPT ![last] = @ \ {e}]
      /\ dir' = last /\ cur' = v
      /\ settled' = [settled EXCEPT ![last] = @ \cup {v}]
      /\ UpdateBest(v, dist)
      /\ scan' = IF Pruned(last, v, dist[last][v], best') THEN {} ELSE Edges(last, v)
  BY <1>2
<1>7. ~BoundReached(f[1], b[1])
  BY <1>2, <1>4 DEF Reached, LowerBound, BoundReached
<1>8. Settle(last)
  <2>1. v = IF last = "F" THEN f[1] ELSE b[1]  OBVIOUS
  <2> HIDE DEF v, e
  <2> QED  BY <1>1, <1>4, <1>6, <1>7, <2>1, Zenon DEF Settle
<1>9. /\ h \in [Dir -> SUBSET (Node \X (Word \ {inf}))]
      /\ \A d \in Dir : h[d] \subseteq heap[d] /\ Fresh(d) \subseteq h[d]
  BY PeekBothKeepsFresh
<1> HIDE DEF v, e
<1>10. SearchTypes'
  <2>1. heap' \in [Dir -> SUBSET (Node \X (Word \ {inf}))]  BY <1>1, <1>6, <1>9
  <2>2. settled' \in [Dir -> SUBSET Node]  BY <1>1, <1>5, <1>6 DEF HInv, SearchTypes
  <2>3. scan' \subseteq {a \in Arcs' : From(dir', a) = cur'}
    BY <1>1, <1>6 DEF Edges, From, Arcs
  <2> QED  BY <1>1, <1>5, <1>6, <2>1, <2>2, <2>3 DEF HInv, SearchTypes
<1>11. Queued'
  <2> SUFFICES ASSUME NEW d \in Dir
               PROVE  /\ \A u \in Open(d)' : <<u, dist'[d][u]>> \in heap'[d]
                      /\ \A x \in heap'[d] : dist'[d][x[1]] <= x[2]
    BY DEF Queued
  <2>1. heap'[d] = IF d = last THEN h[d] \ {e} ELSE h[d]  BY <1>1, <1>6, <1>9
  <2>2. settled'[d] = IF d = last THEN settled[d] \cup {v} ELSE settled[d]
    BY <1>1, <1>6 DEF HInv, SearchTypes
  <2>3. Open(d)' \subseteq Open(d) /\ (d = last => v \notin Open(d)')
    BY <1>1, <2>2 DEF Open
  <2>4. \A u \in Open(d) : <<u, dist[d][u]>> \in h[d]  BY <1>9, FreshIsOpen
  <2>5. \A x \in heap'[d] : dist[d][x[1]] <= x[2]  BY <1>9, <2>1 DEF HInv, Queued
  <2>6. \A u \in Open(d)' : <<u, dist[d][u]>> \in heap'[d]
    BY <1>5, <2>1, <2>3, <2>4
  <2> QED  BY <1>1, <2>5, <2>6
<1>12. Blank'  BY <1>1 DEF Blank
<1> QED  BY <1>1, <1>8, <1>10, <1>11, <1>12 DEF HInv, Dir

\* A label that improves is pushed with it; the old entry is stale from then on.
LEMMA ScheduledRelaxStep == HInv /\ RelaxAndPush => HInv' /\ Relax
<1> SUFFICES ASSUME HInv, RelaxAndPush PROVE HInv' /\ Relax  OBVIOUS
<1>1. /\ pc = "search" /\ phase = "chunk"
      /\ UNCHANGED <<query, pc, settled, dir, cur, lower, path, result, phase, last>>
  BY DEF RelaxAndPush, schedVars
<1> DEFINE v(a) == To(dir, a)
           label(a) == dist[dir][cur] + query.cost[a]
           fits(a) == dist[dir][cur] <= inf - query.cost[a]
           write(a) == fits(a) /\ label(a) < dist[dir][v(a)] /\ ~Pruned(dir, v(a), label(a), best)
<1>2. PICK a \in scan :
        /\ scan' = scan \ {a}
        /\ dist' = IF write(a) THEN [dist EXCEPT ![dir][v(a)] = label(a)] ELSE dist
        /\ parent' = IF write(a) THEN [parent EXCEPT ![dir][v(a)] = cur] ELSE parent
        /\ heap' = IF write(a) THEN Pushed(dir, v(a), label(a)) ELSE heap
        /\ IF fits(a) /\ dist[Other(dir)][v(a)] # inf THEN UpdateBest(v(a), dist')
           ELSE UNCHANGED <<best, meet, bestReduced>>
  BY Zenon DEF RelaxAndPush
<1>3. /\ dir \in Dir /\ a \in Arcs /\ From(dir, a) = cur
      /\ v(a) \in Node /\ cur \in Node
      /\ query.cost[a] \in Nat \ {0}
  BY DEF HInv, SearchTypes, IsQuery, From, To, Arcs
<1>4. Other(dir) \in Dir /\ Other(dir) # dir /\ Dir = {dir, Other(dir)}
  BY <1>3, DirTypes DEF HInv
<1>5. dist \in [Dir -> [Node -> Word]] /\ heap \in [Dir -> SUBSET (Node \X (Word \ {inf}))]
  BY DEF HInv, SearchTypes
<1>6. dist[dir][cur] \in Nat /\ dist[dir][v(a)] \in Word /\ inf \in Nat
  BY <1>3, <1>5, WidthAssumption DEF Word, inf
<1> HIDE DEF v, label, fits, write
<1>7. dist'[Other(dir)][v(a)] = dist[Other(dir)][v(a)]
  BY <1>2, <1>3, <1>4, <1>5
<1>8. IF fits(a) THEN UpdateBest(v(a), dist') ELSE UNCHANGED <<best, meet, bestReduced>>
  <2>1. CASE fits(a) /\ dist[Other(dir)][v(a)] = inf
    <3>1. ~Improves(v(a), dist')  BY <1>4, <1>7, <2>1 DEF Improves, Dir
    <3>2. UNCHANGED <<best, meet, bestReduced>>  BY <1>2, <2>1
    <3> QED  BY <3>1, <3>2 DEF UpdateBest
  <2> QED  BY <1>2, <2>1
<1>9. Relax
  BY <1>1, <1>2, <1>8, Zenon DEF Relax, v, label, fits, write
<1>10. write(a) => label(a) \in Word \ {inf} /\ label(a) < dist[dir][v(a)]
  BY <1>3, <1>6, WidthAssumption DEF write, label, fits, Word, inf
<1>11. \A d \in Dir : heap'[d] = IF write(a) /\ d = dir THEN heap[d] \cup {<<v(a), label(a)>>}
                                 ELSE heap[d]
  BY <1>2, <1>3, <1>5 DEF Pushed
<1>12. \A d \in Dir : \A u \in Node :
         dist'[d][u] = IF write(a) /\ d = dir /\ u = v(a) THEN label(a) ELSE dist[d][u]
  BY <1>2, <1>3, <1>5
<1>13. SearchTypes'
  <2>1. heap' \in [Dir -> SUBSET (Node \X (Word \ {inf}))]
    BY <1>2, <1>3, <1>5, <1>10 DEF Pushed
  <2>2. dist' \in [Dir -> [Node -> Word]]  BY <1>2, <1>3, <1>5, <1>10
  <2> QED  BY <1>1, <1>2, <2>1, <2>2 DEF HInv, SearchTypes, Arcs, From
<1>14. Queued'
  <2> SUFFICES ASSUME NEW d \in Dir
               PROVE  /\ \A u \in Open(d)' : <<u, dist'[d][u]>> \in heap'[d]
                      /\ \A x \in heap'[d] : dist'[d][x[1]] <= x[2]
    BY DEF Queued
  <2>1. ASSUME NEW u \in Open(d)'
        PROVE  <<u, dist'[d][u]>> \in heap'[d]
    <3>1. u \in Node /\ u \notin settled[d] /\ dist'[d][u] # inf  BY <1>1 DEF Open
    <3>2. CASE write(a) /\ d = dir /\ u = v(a)  BY <1>11, <1>12, <3>1, <3>2
    <3>3. CASE ~(write(a) /\ d = dir /\ u = v(a))
      <4>1. dist'[d][u] = dist[d][u]  BY <1>12, <3>1, <3>3
      <4>2. u \in Open(d)  BY <3>1, <4>1 DEF Open
      <4> QED  BY <1>11, <4>1, <4>2 DEF HInv, Queued
    <3> QED  BY <3>2, <3>3
  <2>2. ASSUME NEW x \in heap'[d]
        PROVE  dist'[d][x[1]] <= x[2]
    <3>1. x \in Node \X (Word \ {inf})  BY <1>13 DEF SearchTypes
    <3>2. x[1] \in Node /\ x[2] \in Nat /\ dist[d][x[1]] \in Nat
      BY <1>5, <3>1, WidthAssumption DEF Word
    <3>3. CASE x \in heap[d]
      <4>1. dist[d][x[1]] <= x[2]  BY <3>3 DEF HInv, Queued
      <4>2. dist'[d][x[1]] <= dist[d][x[1]]
        BY <1>10, <1>12, <3>2, WidthAssumption DEF Word
      <4>3. dist'[d][x[1]] \in Nat  BY <1>13, <3>2, WidthAssumption DEF SearchTypes, Word
      <4> QED  BY <3>2, <4>1, <4>2, <4>3
    <3>4. CASE x \notin heap[d]
      <4>1. write(a) /\ d = dir /\ x = <<v(a), label(a)>>  BY <1>11, <3>4
      <4>2. dist'[d][x[1]] = label(a) /\ x[2] = label(a)  BY <1>3, <1>12, <4>1
      <4> QED  BY <3>2, <4>2
    <3> QED  BY <3>3, <3>4
  <2> QED  BY <2>1, <2>2
<1>15. Blank'  BY <1>1 DEF Blank
<1> QED  BY <1>9, <1>13, <1>14, <1>15 DEF HInv

\* The loop is left where the free search may leave it.
LEMMA StopStep == HInv /\ Stop => HInv' /\ (StopAtBound \/ StopExhausted)
<1> SUFFICES ASSUME HInv, Stop PROVE HInv' /\ (StopAtBound \/ StopExhausted)  OBVIOUS
<1>1. /\ pc = "search" /\ scan = {} /\ heap' \in PeekedBoth
      /\ UNCHANGED <<query, searchVars, phase, last>>
  BY DEF Stop, Searching, schedVars
<1>2. "F" \in Dir /\ "B" \in Dir  BY DEF Dir
<1>3. ASSUME Dry /\ Conclude(best)
      PROVE  StopExhausted
  <2>1. Exhausted  BY <1>3, TopIsFront DEF Dry, Exhausted
  <2> QED  BY <1>1, <1>3, <2>1 DEF StopExhausted
<1>4. ASSUME NEW f \in Tops("F"), NEW b \in Tops("B"),
             LET bound == reducedToOriginalLowerBound(
                            LowerBound(f, b), query.phi[query.src], query.phi[query.dst])
             IN  Reached(f, b) /\ Conclude(IF bound > best THEN best ELSE bound)
      PROVE  StopAtBound
  <2>1. /\ f[1] \in Front("F") /\ EntryKey("F", f) = Key("F", f[1])
        /\ b[1] \in Front("B") /\ EntryKey("B", b) = Key("B", b[1])
    BY <1>2, TopIsFront
  <2>2. LowerBound(f, b) = saturatingAdd(Key("F", f[1]), Key("B", b[1]))
    BY <2>1 DEF LowerBound
  <2>3. BoundReached(f[1], b[1])  BY <1>4, <2>2 DEF Reached, BoundReached
  <2> QED  BY <1>1, <1>4, <2>1, <2>2, <2>3 DEF StopAtBound
<1>5. StopAtBound \/ StopExhausted  BY <1>3, <1>4, Zenon DEF Stop
<1>6. pc' # "start"
  <2>1. \A x : Conclude(x) => pc' # "start"  BY DEF Conclude
  <2> QED  BY <2>1, Zenon DEF Stop
<1>7. HInv'
  BY <1>1, <1>6, PeekKeepsHInv DEF searchVars, HInv, SearchTypes
<1> QED  BY <1>5, <1>7

LEMMA PollStep == HInv /\ Poll => HInv' /\ Cancel
<1> SUFFICES ASSUME HInv, Poll PROVE HInv' /\ Cancel  OBVIOUS
<1>1. /\ pc = "search" /\ scan = {} /\ heap' \in PeekedBoth
      /\ pc' = "done" /\ result' = Cancelled
      /\ UNCHANGED <<query, searchVars, lower, path, phase, last>>
  BY DEF Poll, Searching, schedVars
<1>2. PICK f \in Tops("F"), b \in Tops("B") : ~Reached(f, b)  BY DEF Poll
<1>3. /\ f[1] \in Front("F") /\ EntryKey("F", f) = Key("F", f[1])
      /\ b[1] \in Front("B") /\ EntryKey("B", b) = Key("B", b[1])
  BY TopIsFront DEF Dir
<1>4. ~BoundReached(f[1], b[1])
  BY <1>2, <1>3 DEF Reached, LowerBound, BoundReached
<1>5. HInv'
  BY <1>1, PeekKeepsHInv DEF searchVars, HInv, SearchTypes
<1> QED  BY <1>1, <1>3, <1>4, <1>5 DEF Cancel

\* A chunk begins and ends without a step of the search.
LEMMA BeginChunkStep == HInv /\ BeginChunk => HInv' /\ UNCHANGED vars
<1> SUFFICES ASSUME HInv, BeginChunk PROVE HInv' /\ UNCHANGED vars  OBVIOUS
<1>1. /\ pc = "search" /\ scan = {} /\ heap' \in PeekedBoth
      /\ phase' = "chunk" /\ UNCHANGED vars
  BY DEF BeginChunk, Searching
<1>2. PICK f \in Tops("F"), b \in Tops("B") :
        last' = IF guard'.now \/ ~opts.adaptive THEN StaticDirection(f, b, heap')
                ELSE AdaptiveDirection(f, b, heap')
  BY Zenon DEF BeginChunk
<1>3. last' \in Dir
  <2>1. StaticDirection(f, b, heap') \in Dir  BY DEF StaticDirection, Dir
  <2>2. AdaptiveDirection(f, b, heap') \in Dir
    BY <2>1 DEF AdaptiveDirection, Dir
  <2> QED  BY <1>2, <2>1, <2>2
<1> QED
  BY <1>1, <1>3, PeekKeepsHInv DEF vars, searchVars

LEMMA EndChunkStep == HInv /\ EndChunk => HInv' /\ UNCHANGED vars
<1> SUFFICES ASSUME HInv, EndChunk PROVE HInv' /\ UNCHANGED vars  OBVIOUS
<1>1. /\ pc = "search" /\ heap' \in PeekedBoth
      /\ phase' = "outer" /\ UNCHANGED <<vars, last>>
  BY DEF EndChunk, Searching
<1> QED
  BY <1>1, PeekKeepsHInv DEF vars, searchVars, HInv, SearchTypes

\* The steps that leave heaps and labels alone.
LEMMA OtherStep ==
  ASSUME HInv, UNCHANGED <<query, dist, settled, dir, cur, scan, heap, phase, last>>,
         pc' # "start" \/ pc' = pc
  PROVE  HInv'
<1>1. SearchTypes'  BY DEF HInv, SearchTypes, Arcs, From
<1>2. Queued'  BY DEF HInv, Queued, Open
<1>3. Blank'  BY DEF HInv, Blank
<1> QED  BY <1>1, <1>2, <1>3 DEF HInv

LEMMA ScheduledTrivialStep == HInv /\ Trivial => HInv' /\ AnswerTrivial
<1> SUFFICES ASSUME HInv, Trivial PROVE HInv' /\ AnswerTrivial  OBVIOUS
<1>1. /\ AnswerTrivial /\ pc' = "done"
      /\ UNCHANGED <<query, dist, settled, dir, cur, scan, heap, phase, last>>
  BY DEF Trivial, AnswerTrivial, searchVars, schedVars
<1> QED  BY <1>1, OtherStep

LEMMA WalkStep == HInv /\ Walk => HInv' /\ (WalkLeft \/ WalkRight)
<1> SUFFICES ASSUME HInv, Walk PROVE HInv' /\ (WalkLeft \/ WalkRight)  OBVIOUS
<1>1. /\ WalkLeft \/ WalkRight
      /\ UNCHANGED <<query, dist, settled, dir, cur, scan, heap, phase, last>>
  BY DEF Walk, WalkLeft, WalkRight, searchVars, schedVars
<1>2. pc' # "start" \/ pc' = pc  BY <1>1 DEF WalkLeft, WalkRight, GiveUp
<1> QED  BY <1>1, <1>2, OtherStep

LEMMA IdleStep == HInv /\ UNCHANGED avars => HInv' /\ UNCHANGED vars
BY OtherStep DEF avars, vars, searchVars, schedVars

\* A step of the scheduled search is a step of the free one, or none.
LEMMA StepMapping == HInv /\ [ACBSNext]_avars => HInv' /\ [Next]_vars
<1> SUFFICES ASSUME HInv, [ACBSNext]_avars PROVE HInv' /\ [Next]_vars  OBVIOUS
<1>1. CASE Trivial  BY <1>1, ScheduledTrivialStep DEF Next, Work
<1>2. CASE Enter
  BY <1>2, EnterStep DEF Enter, Next, Work
<1>3. CASE BeginChunk  BY <1>3, BeginChunkStep
<1>4. CASE Pop  BY <1>4, PopStep DEF Next, Work
<1>5. CASE RelaxAndPush  BY <1>5, ScheduledRelaxStep DEF Next, Work
<1>6. CASE EndChunk  BY <1>6, EndChunkStep
<1>7. CASE Stop  BY <1>7, StopStep DEF Next, Work
<1>8. CASE Walk  BY <1>8, WalkStep DEF Next, Work
<1>9. CASE Poll  BY <1>9, PollStep DEF Next
<1>10. CASE Finished \/ UNCHANGED avars
  <2>1. UNCHANGED avars  BY <1>10 DEF Finished
  <2> QED  BY <2>1, IdleStep
<1> QED
  BY <1>1, <1>2, <1>3, <1>4, <1>5, <1>6, <1>7, <1>8, <1>9, <1>10 DEF ACBSNext, Run

\* No label is lost between the arrays and the heaps with their stale entries
\* (acbs.go:224-345, peekValid acbs.go:645-656).
THEOREM LabelsAlwaysQueued == ACBSSpec => []LabelsQueued
<1>1. ACBSInit => HInv  BY InitHInv
<1>2. HInv /\ [ACBSNext]_avars => HInv'  BY StepMapping
<1>3. HInv => LabelsQueued  BY DEF HInv, Queued, LabelsQueued
<1> QED  BY <1>1, <1>2, <1>3, PTL DEF ACBSSpec

\* The scheduled search, with its heaps, budgets, scores and guard, is one of the
\* schedules of the free search: what holds of every schedule holds of this one
\* (acbs.go:127-511).
THEOREM ScheduleIsFree == ACBSSpec => Spec
<1>1. ACBSInit => Init /\ HInv  BY InitHInv DEF ACBSInit
<1>2. HInv /\ [ACBSNext]_avars => HInv' /\ [Next]_vars  BY StepMapping
<1> QED  BY <1>1, <1>2, PTL DEF ACBSSpec, Spec

-----------------------------------------------------------------------------
(* The scheduler.                                                          *)

SchedTypes ==
  /\ opts \in Options
  /\ phase \in {"outer", "chunk"} /\ last \in Dir \cup {"none"}
  /\ chunks \in Nat /\ guardChunks \in Nat /\ consecutive \in Nat
  /\ sampled \in [Dir -> BOOLEAN]
  /\ guard \in [triggered : BOOLEAN, active : BOOLEAN, left : Nat, now : BOOLEAN]

\* Where the alternation is in force.
Alternating == opts.adaptive /\ ~opts.noAlternation /\ guardChunks = 0

\* The warm-up: forward once, then backward once; a direction has its first sample
\* when its first chunk is over.
WarmUp ==
  /\ last = "none" => consecutive = 0 /\ phase = "outer" /\ ~sampled["F"]
  /\ sampled["B"] => sampled["F"]
  /\ ~sampled["F"] /\ last # "none" => phase = "chunk" /\ last = "F" /\ consecutive = 1
  /\ sampled["F"] /\ ~sampled["B"] =>
       last = (IF phase = "outer" THEN "F" ELSE "B") /\ consecutive = 1

\* Chunks of the guard's window that are spent or still to come; the one that runs
\* is still on the account of left.
Account ==
  guardChunks + (IF guard.active THEN guard.left ELSE 0)
    <= GuardWindow + (IF phase = "chunk" /\ guard.now THEN 1 ELSE 0)

GuardBooks ==
  /\ guard.active => guard.triggered
  /\ ~guard.triggered => guardChunks = 0 /\ ~guard.now
  /\ guard.triggered => opts.guard # "none" /\ chunks > GuardStart
  /\ phase = "chunk" /\ guard.now => guard.active
  /\ opts.guard = "bounded" /\ guard.triggered =>
       Account /\ (guard.active => guard.left > 0)

SInv ==
  /\ SchedTypes
  /\ Alternating => WarmUp /\ consecutive <= MaxConsecutive
  /\ GuardBooks

LEMMA TuningTypes ==
  /\ MaxConsecutive \in Nat \ {0} /\ GuardStart \in Nat \ {0} /\ GuardWindow \in Nat \ {0}
  /\ \A o \in Options : o.guard \in Guards
BY TuningAssumption DEF IsOptions

LEMMA InitSInv == ACBSInit => SInv
<1> SUFFICES ASSUME ACBSInit PROVE SInv  OBVIOUS
<1>1. SchedTypes  BY DEF ACBSInit, SchedTypes, Dir
<1>2. WarmUp /\ consecutive <= MaxConsecutive
  BY TuningTypes DEF ACBSInit, WarmUp, Dir
<1>3. GuardBooks  BY DEF ACBSInit, GuardBooks
<1> QED  BY <1>1, <1>2, <1>3 DEF SInv

\* The guard on entry to a chunk is armed once, late, and with its whole window.
LEMMA GuardEnteredFacts ==
  ASSUME SInv
  PROVE  /\ GuardEntered \in [triggered : BOOLEAN, active : BOOLEAN, left : Nat, now : BOOLEAN]
         /\ GuardEntered.now => GuardEntered.active
         /\ \/ /\ GuardEntered.triggered = guard.triggered /\ GuardEntered.active = guard.active
               /\ GuardEntered.left = guard.left
            \/ /\ GuardEntered.triggered /\ GuardEntered.now /\ ~guard.triggered
               /\ opts.guard # "none" /\ chunks >= GuardStart
               /\ opts.guard = "bounded" => GuardEntered.left = GuardWindow
<1>1. guard \in [triggered : BOOLEAN, active : BOOLEAN, left : Nat, now : BOOLEAN]
  BY DEF SInv, SchedTypes
<1>2. CASE opts.guard # "none" /\ ~guard.triggered /\ bestReduced = inf /\ ShouldEngage
  <2>1. GuardEntered = [triggered |-> TRUE, active |-> TRUE, now |-> TRUE,
                        left |-> IF opts.guard = "bounded" THEN GuardWindow ELSE 0]
    BY <1>2 DEF GuardEntered
  <2>2. chunks >= GuardStart  BY <1>2 DEF ShouldEngage
  <2> QED  BY <1>2, <2>1, <2>2, TuningTypes
<1>3. CASE ~(opts.guard # "none" /\ ~guard.triggered /\ bestReduced = inf /\ ShouldEngage)
  <2>1. GuardEntered = [triggered |-> guard.triggered, active |-> guard.active,
                        left |-> guard.left, now |-> guard.active /\ bestReduced = inf]
    BY <1>3 DEF GuardEntered
  <2> QED  BY <1>1, <2>1
<1> QED  BY <1>2, <1>3

LEMMA BeginChunkSched == SInv /\ BeginChunk => SInv'
<1> SUFFICES ASSUME SInv, BeginChunk PROVE SInv'  OBVIOUS
<1>1. /\ phase = "outer" /\ phase' = "chunk" /\ chunks' = chunks + 1
      /\ guard' = GuardEntered
      /\ guardChunks' = guardChunks + (IF guard'.now THEN 1 ELSE 0)
      /\ UNCHANGED <<opts, sampled>>
  BY DEF BeginChunk, Searching
<1>2. PICK f \in Tops("F"), b \in Tops("B") :
        LET d == IF guard'.now \/ ~opts.adaptive THEN StaticDirection(f, b, heap')
                 ELSE AdaptiveDirection(f, b, heap')
        IN  last' = d /\ consecutive' = IF d = last THEN consecutive + 1 ELSE 1
  BY Zenon DEF BeginChunk
<1>3. StaticDirection(f, b, heap') \in Dir  BY DEF StaticDirection, Dir
<1>4. AdaptiveDirection(f, b, heap') \in Dir
  BY <1>3 DEF AdaptiveDirection, Dir
<1>5. SchedTypes'
  BY <1>1, <1>2, <1>3, <1>4, GuardEnteredFacts DEF SInv, SchedTypes
<1>6. ASSUME Alternating'
      PROVE  WarmUp' /\ consecutive' <= MaxConsecutive
  <2>1. guardChunks = 0 /\ ~guard'.now /\ Alternating
    BY <1>1, <1>5, <1>6 DEF Alternating, SInv, SchedTypes
  <2>2. last' = AdaptiveDirection(f, b, heap')  BY <1>1, <1>2, <1>6, <2>1 DEF Alternating
  <2>3. /\ WarmUp /\ consecutive <= MaxConsecutive /\ consecutive \in Nat
        /\ sampled \in [Dir -> BOOLEAN] /\ MaxConsecutive \in Nat \ {0}
    BY <2>1, TuningTypes DEF SInv, SchedTypes
  <2>4. CASE ~sampled["F"]
    <3>1. last' = "F" /\ last = "none"
      BY <1>1, <2>2, <2>3, <2>4 DEF AdaptiveDirection, WarmUp
    <3>2. consecutive' = 1  BY <1>2, <3>1
    <3> QED  BY <1>1, <2>3, <2>4, <3>1, <3>2 DEF WarmUp
  <2>5. CASE sampled["F"] /\ ~sampled["B"]
    <3>1. last' = "B" /\ last = "F"
      BY <1>1, <2>2, <2>3, <2>5 DEF AdaptiveDirection, WarmUp
    <3>2. consecutive' = 1  BY <1>2, <3>1
    <3> QED  BY <1>1, <2>3, <2>5, <3>1, <3>2 DEF WarmUp
  <2>6. CASE sampled["F"] /\ sampled["B"]
    <3>1. last \in Dir  BY <2>3, <2>6 DEF WarmUp, SInv, SchedTypes
    <3>2. consecutive >= MaxConsecutive => last' # last
      BY <2>1, <2>2, <2>6, <3>1 DEF AdaptiveDirection, Dir, Alternating
    <3>3. consecutive' <= MaxConsecutive  BY <1>2, <2>3, <3>2
    <3>4. last' # "none"  BY <1>4, <2>2 DEF Dir
    <3> QED  BY <1>1, <2>6, <3>3, <3>4 DEF WarmUp
  <2> QED  BY <2>3, <2>4, <2>5, <2>6
<1>7. GuardBooks'
  <2>1. /\ chunks \in Nat /\ guardChunks \in Nat
        /\ guard \in [triggered : BOOLEAN, active : BOOLEAN, left : Nat, now : BOOLEAN]
    BY DEF SInv, SchedTypes
  <2>2. guard' \in [triggered : BOOLEAN, active : BOOLEAN, left : Nat, now : BOOLEAN]
    BY <1>5 DEF SchedTypes
  <2>3. guard'.now => guard'.active  BY <1>1, GuardEnteredFacts
  <2>4. CASE /\ guard'.triggered = guard.triggered /\ guard'.active = guard.active
             /\ guard'.left = guard.left
    BY <1>1, <2>1, <2>2, <2>3, <2>4, TuningTypes DEF SInv, GuardBooks, Account
  <2>5. CASE /\ guard'.triggered /\ guard'.now /\ ~guard.triggered
             /\ opts.guard # "none" /\ chunks >= GuardStart
             /\ opts.guard = "bounded" => guard'.left = GuardWindow
    BY <1>1, <2>1, <2>2, <2>3, <2>5, TuningTypes DEF SInv, GuardBooks, Account
  <2> QED  BY <1>1, <2>4, <2>5, GuardEnteredFacts
<1> QED  BY <1>5, <1>6, <1>7 DEF SInv

\* A chunk that ends gives its direction a sample and takes itself off the window.
LEMMA EndChunkSched == SInv /\ EndChunk => SInv'
<1> SUFFICES ASSUME SInv, EndChunk PROVE SInv'  OBVIOUS
<1>1. /\ phase = "chunk" /\ phase' = "outer" /\ guard' = GuardLeft
      /\ UNCHANGED <<opts, chunks, guardChunks, last, consecutive>>
  BY DEF EndChunk, Searching
<1>2. /\ SchedTypes
      /\ guard \in [triggered : BOOLEAN, active : BOOLEAN, left : Nat, now : BOOLEAN]
      /\ sampled \in [Dir -> BOOLEAN] /\ chunks \in Nat /\ guardChunks \in Nat
  BY DEF SInv, SchedTypes
<1>3. IF opts.adaptive THEN sampled' = [sampled EXCEPT ![last] = TRUE]
      ELSE UNCHANGED sampled
  BY DEF EndChunk
<1>4. /\ guard' \in [triggered : BOOLEAN, active : BOOLEAN, left : Nat, now : BOOLEAN]
      /\ guard'.triggered = guard.triggered
      /\ ~guard.now => guard' = guard
      /\ guard.now => \/ ~guard'.active
                      \/ /\ guard.left # 1 /\ guard'.active
                         /\ guard'.left = IF guard.left > 0 THEN guard.left - 1 ELSE 0
  <2>1. CASE ~guard.now  BY <1>1, <1>2, <2>1 DEF GuardLeft
  <2>2. CASE guard.now /\ bestReduced # inf
    <3>1. guard' = [triggered |-> guard.triggered, active |-> FALSE,
                    left |-> guard.left, now |-> TRUE]
      BY <1>1, <2>2 DEF GuardLeft
    <3> QED  BY <1>2, <2>2, <3>1
  <2>3. CASE guard.now /\ bestReduced = inf
    <3>1. guard' = [triggered |-> guard.triggered, active |-> guard.left # 1, now |-> TRUE,
                    left |-> IF guard.left > 0 THEN guard.left - 1 ELSE 0]
      BY <1>1, <2>3 DEF GuardLeft
    <3>2. (IF guard.left > 0 THEN guard.left - 1 ELSE 0) \in Nat  BY <1>2
    <3> QED  BY <1>2, <2>3, <3>1, <3>2
  <2> QED  BY <2>1, <2>2, <2>3
<1>5. SchedTypes'  BY <1>1, <1>2, <1>3, <1>4 DEF SchedTypes
<1>6. ASSUME Alternating'
      PROVE  WarmUp' /\ consecutive' <= MaxConsecutive
  <2>1. WarmUp /\ consecutive <= MaxConsecutive /\ opts.adaptive
    BY <1>1, <1>6 DEF Alternating, SInv
  <2>2. last \in Dir  BY <1>1, <1>2, <2>1 DEF WarmUp, SchedTypes
  <2>3. \A d \in Dir : sampled'[d] = (d = last \/ sampled[d])
    BY <1>2, <1>3, <2>1
  <2> QED  BY <1>1, <1>2, <2>1, <2>2, <2>3 DEF WarmUp, Dir
<1>7. GuardBooks'
  <2>1. CASE ~guard.now  BY <1>1, <1>4, <2>1 DEF SInv, GuardBooks, Account
  <2>2. CASE guard.now
    BY <1>1, <1>2, <1>4, <2>2, TuningTypes DEF SInv, GuardBooks, Account
  <2> QED  BY <2>1, <2>2
<1> QED  BY <1>5, <1>6, <1>7 DEF SInv

\* No other step touches what the scheduler goes by.
LEMMA OtherSched ==
  ASSUME SInv, UNCHANGED <<opts, phase, last, chunks, guardChunks, consecutive, sampled, guard>>
  PROVE  SInv'
BY DEF SInv, SchedTypes, Alternating, WarmUp, GuardBooks, Account

LEMMA NextSInv == SInv /\ [ACBSNext]_avars => SInv'
<1> SUFFICES ASSUME SInv, [ACBSNext]_avars PROVE SInv'  OBVIOUS
<1>1. CASE BeginChunk  BY <1>1, BeginChunkSched
<1>2. CASE EndChunk  BY <1>2, EndChunkSched
<1>3. CASE Trivial \/ Enter \/ Pop \/ RelaxAndPush \/ Stop \/ Walk \/ Poll \/ Finished
           \/ UNCHANGED avars
  <2>1. UNCHANGED <<opts, phase, last, chunks, guardChunks, consecutive, sampled, guard>>
    BY <1>3 DEF Trivial, Enter, Pop, RelaxAndPush, Stop, Walk, Poll, Finished, avars, schedVars
  <2> QED  BY <2>1, OtherSched
<1> QED  BY <1>1, <1>2, <1>3 DEF ACBSNext, Run

LEMMA ScheduleInvariance == ACBSSpec => []SInv
<1>1. ACBSInit => SInv  BY InitSInv
<1>2. SInv /\ [ACBSNext]_avars => SInv'  BY NextSInv
<1> QED  BY <1>1, <1>2, PTL DEF ACBSSpec

\* Neither direction starves, from the first chunk on: the warm-up counts too
\* (docs/PAPER.md 3.3, rule 2; acbs.go:764-795).
THEOREM NeverStarves == ACBSSpec => []NoStarvation
<1>1. SInv => NoStarvation  BY DEF SInv, Alternating, NoStarvation
<1> QED  BY <1>1, ScheduleInvariance, PTL

\* The guard decides for no more chunks than its window in the whole call, though
\* it is armed, suspended and ended in different places (acbs.go:204-222, 477-486).
THEOREM GuardAlwaysContained == ACBSSpec => []GuardContained
<1>1. SInv => GuardContained
  <2> SUFFICES ASSUME SInv PROVE GuardContained  OBVIOUS
  <2>1. /\ guard.left \in Nat /\ guardChunks \in Nat /\ GuardWindow \in Nat \ {0}
        /\ GuardBooks
    BY TuningTypes DEF SInv, SchedTypes
  <2>2. CASE ~guard.triggered  BY <2>1, <2>2 DEF GuardBooks, GuardContained
  <2>3. CASE guard.triggered
    BY <2>1, <2>3 DEF GuardBooks, GuardContained, Account
  <2> QED  BY <2>2, <2>3
<1> QED  BY <1>1, ScheduleInvariance, PTL

\* Under every schedule of the code - direction rules, edge budgets, guards and
\* ablations - the answer is the same (acbs.go:196-487).
THEOREM ScheduledSearchIsExact == ACBSSpec => AnswersExactly
BY ScheduleIsFree, SearchIsExact, PTL
=============================================================================
