--------------------------- MODULE CoupledSearch ---------------------------
(***************************************************************************)
(* Aegis Coupled-Bound Search (internal/search/acbs.go:127-511): one exact *)
(* bidirectional search on the reduced costs of a balanced potential.      *)
(*                                                                         *)
(* This module keeps everything the answer depends on - labels, parents,   *)
(* settled flags, the incumbent, the coupled stopping rule, the optional   *)
(* incumbent pruning - and leaves the scheduler free: before every pop any *)
(* of the two directions may be chosen, which covers every direction rule, *)
(* edge budget, guard and ablation the code offers.  Module ACBS           *)
(* adds the real scheduler and implements this one.                        *)
(*                                                                         *)
(* The forward and backward blocks of the code are mirror images, so the   *)
(* state is indexed by direction: dist["F"] is df and dist["B"] is db, and *)
(* likewise parent (pf, pb) and settled (settledF, settledB).  A heap      *)
(* is abstracted to its valid entries: an improved label is always pushed, *)
(* and peekValid drops an entry that is stale or settled, so the nodes a   *)
(* heap can still deliver are the labelled nodes that are not settled.     *)
(***************************************************************************)
EXTENDS KeyArithmetic, SearchQuery, FiniteSets, Sequences

CONSTANTS NoNode,   \* the index -1
          Queries   \* the calls: (graph, source, target, ablation)

Dir == {"F", "B"}
Other(d) == IF d = "F" THEN "B" ELSE "F"

ASSUME NodeAssumption == IsFiniteSet(Node) /\ NoNode \notin Node
ASSUME QueryAssumption ==
  \A q \in Queries : IsQuery(q) /\ Consistent(q) /\ BoundsConsistent(q)

VARIABLES
  query,        \* the arguments of the call
  pc,           \* "start", "search" (the two loops), "left" or "right" (the two
                \* loops that reconstruct the path) or "done"
  dist,         \* dist[d][v]: df, db
  parent,       \* parent[d][v]: pf, pb
  settled,      \* settled[d]: the nodes with settledF, settledB set
  best, meet,   \* the incumbent and the node where it was found
  bestReduced,  \* the incumbent on the scale of the keys
  dir, cur,     \* the direction and the node popped last
  scan,         \* the arcs of cur that are still to be relaxed
  lower,        \* stats.TerminationLowerBound
  path,         \* the path as far as it has been reconstructed
  result        \* what the call returns

searchVars == <<dist, parent, settled, best, meet, bestReduced, dir, cur, scan>>
vars == <<query, pc, searchVars, lower, path, result>>

Arcs == DOMAIN query.cost
Root(d) == IF d = "F" THEN query.src ELSE query.dst

\* OutEdges in the forward search, InEdges in the backward one.
From(d, a) == IF d = "F" THEN a[1] ELSE a[2]
To(d, a) == IF d = "F" THEN a[2] ELSE a[1]
EdgesBothWays(d, v) == {a \in Arcs : v \in {a[1], a[2]}}   \* fault: InEdges as well
Edges(d, v) == {a \in Arcs : From(d, a) = v}

\* Fault: the backward search shifts by the potential of the forward one.
ShiftOneSided(d, v) == query.phi[v] - query.phi[query.src]

\* The signed part of a reduced key: phi(v)-phi(s) forward, phi(t)-phi(v) backward.
Shift(d, v) == IF d = "F" THEN query.phi[v] - query.phi[query.src]
               ELSE query.phi[query.dst] - query.phi[v]
KeyUndoubled(d, v) == saturatingAdd(dist[d][v], Shift(d, v))   \* fault
Key(d, v) == doubledPlusSigned(dist[d][v], Shift(d, v))
RestBound(d, v) == IF d = "F" THEN query.toDst[v] ELSE query.fromSrc[v]

\* The nodes with a valid heap entry, and those among them the heap may deliver.
Open(d) == {v \in Node : dist[d][v] # inf /\ v \notin settled[d]}
FrontUnordered(d) == Open(d)   \* fault: a queue without an order
Front(d) == {v \in Open(d) : \A w \in Open(d) : Key(d, v) <= Key(d, w)}

\* The stopping rule.
BoundReachedUnscaled(f, b) ==   \* fault: the incumbent on its own scale
  best # inf /\ saturatingAdd(Key("F", f), Key("B", b)) >= best
BoundReached(f, b) ==
  bestReduced # inf /\ saturatingAdd(Key("F", f), Key("B", b)) >= bestReduced

ExhaustedBoth == \A d \in Dir : Open(d) = {}   \* fault: waits for the other heap
Exhausted == \E d \in Dir : Open(d) = {}

\* A connection of the two searches at v, under the labels d, that is strictly
\* better than the incumbent.
ImprovesOnEmpty(v, d) ==   \* fault: the first connection is kept for good
  d["F"][v] # inf /\ d["B"][v] # inf /\ best = inf
Improves(v, d) ==
  /\ d["F"][v] # inf /\ d["B"][v] # inf
  /\ d["F"][v] <= inf - d["B"][v]
  /\ d["F"][v] + d["B"][v] < best

\* It replaces the incumbent.
UpdateBestAtCur(v, d) ==   \* fault: credited to the node being scanned
  IF Improves(v, d)
  THEN best' = d["F"][v] + d["B"][v] /\ meet' = cur /\ UNCHANGED bestReduced
  ELSE UNCHANGED <<best, meet, bestReduced>>
UpdateBest(v, d) ==
  IF Improves(v, d)
  THEN /\ best' = d["F"][v] + d["B"][v]
       /\ meet' = v
       /\ bestReduced' = originalToReducedUpperBound(
            d["F"][v] + d["B"][v], query.phi[query.src], query.phi[query.dst])
  ELSE UNCHANGED <<best, meet, bestReduced>>

Pruned(d, v, label, incumbent) ==
  /\ query.prune
  /\ incumbent # inf
  /\ boundCannotImprove(label, RestBound(d, v), incumbent)

Reply(status, distance, route, bound) ==
  [status |-> status, distance |-> distance, path |-> route, lower |-> bound]
Pending == Reply("pending", 0, <<>>, 0)
Cancelled == Reply("cancelled", 0, <<>>, 0)

-----------------------------------------------------------------------------
\* A workspace as acquireBiWorkspace hands it out.
Init ==
  /\ query \in Queries
  /\ pc = "start"
  /\ dist = [d \in Dir |-> [v \in Node |-> inf]]
  /\ parent = [d \in Dir |-> [v \in Node |-> NoNode]]
  /\ settled = [d \in Dir |-> {}]
  /\ best = inf /\ meet = NoNode /\ bestReduced = inf
  /\ dir = "F" /\ cur = NoNode /\ scan = {}
  /\ lower = 0 /\ path = <<>> /\ result = Pending

\* source == target: answered without a search.
AnswerTrivial ==
  /\ pc = "start" /\ query.src = query.dst
  /\ pc' = "done"
  /\ result' = Reply("reachable", 0, <<query.src>>, 0)
  /\ UNCHANGED <<query, searchVars, lower, path>>

\* Both roots get label 0 and enter their heap.
Begin ==
  /\ pc = "start" /\ query.src # query.dst
  /\ pc' = "search"
  /\ dist' = [d \in Dir |-> [dist[d] EXCEPT ![Root(d)] = 0]]
  /\ UNCHANGED <<query, parent, settled, best, meet, bestReduced,
                 dir, cur, scan, lower, path, result>>

\* Pop the front node of direction d, settle it, try it as a connection and
\* open the scan of its edges, unless the pruning ablation drops it.
Settle(d) ==
  /\ pc = "search" /\ scan = {}
  /\ \E f \in Front("F"), b \in Front("B") :
       LET v == IF d = "F" THEN f ELSE b
       IN  /\ ~BoundReached(f, b)
           /\ dir' = d /\ cur' = v
           /\ settled' = [settled EXCEPT ![d] = @ \cup {v}]
           /\ UpdateBest(v, dist)
           /\ scan' = IF Pruned(d, v, dist[d][v], best') THEN {} ELSE Edges(d, v)
  /\ UNCHANGED <<query, pc, dist, parent, lower, path, result>>

\* Relax one edge of the popped node.  A sum that does not fit the word skips
\* the edge; a label that improves is written unless it is pruned; then, improved
\* or not, the head of the edge is tried as a connection.
Relax ==
  /\ pc = "search"
  /\ \E a \in scan :
       LET v     == To(dir, a)
           label == dist[dir][cur] + query.cost[a]
           fits  == dist[dir][cur] <= inf - query.cost[a]
           write == fits /\ label < dist[dir][v] /\ ~Pruned(dir, v, label, best)
       IN  /\ scan' = scan \ {a}
           /\ dist' = IF write THEN [dist EXCEPT ![dir][v] = label] ELSE dist
           /\ parent' = IF write THEN [parent EXCEPT ![dir][v] = cur] ELSE parent
           /\ IF fits THEN UpdateBest(v, dist')
              ELSE UNCHANGED <<best, meet, bestReduced>>
  /\ UNCHANGED <<query, pc, settled, dir, cur, lower, path, result>>

\* The loop is left: without an incumbent there is no route, with one the path is
\* still to be read off the parents.
Conclude(bound) ==
  IF best = inf \/ meet = NoNode
  THEN /\ pc' = "done" /\ result' = Reply("unreachable", 0, <<>>, 0)
       /\ UNCHANGED <<lower, path>>
  ELSE pc' = "left" /\ path' = <<meet>> /\ lower' = bound /\ UNCHANGED result

\* The coupled bound has reached the incumbent.
StopAtBound ==
  /\ pc = "search" /\ scan = {}
  /\ \E f \in Front("F"), b \in Front("B") :
       LET bound == reducedToOriginalLowerBound(
                      saturatingAdd(Key("F", f), Key("B", b)),
                      query.phi[query.src], query.phi[query.dst])
       IN  /\ BoundReached(f, b)
           /\ Conclude(IF bound > best THEN best ELSE bound)
  /\ UNCHANGED <<query, searchVars>>

\* One of the heaps has no valid entry left.
StopExhausted ==
  /\ pc = "search" /\ scan = {}
  /\ Exhausted
  /\ Conclude(best)
  /\ UNCHANGED <<query, searchVars>>

\* The context is found cancelled at the top of the outer loop, where both
\* heaps are known to deliver and the bound is known not to be reached.
Cancel ==
  /\ pc = "search" /\ scan = {}
  /\ \E f \in Front("F"), b \in Front("B") : ~BoundReached(f, b)
  /\ pc' = "done" /\ result' = Cancelled
  /\ UNCHANGED <<query, searchVars, lower, path>>

\* reconstructBidirectional walks from the meeting node along pf to the source,
\* and gives the path up at a node without a parent.
GiveUp ==
  /\ pc' = "done" /\ result' = Reply("unreachable", 0, <<>>, lower)
  /\ UNCHANGED path

WalkLeft ==
  /\ pc = "left"
  /\ LET v == Head(path)
         p == parent["F"][v]
     IN  IF v = query.src THEN pc' = "right" /\ UNCHANGED <<path, result>>
         ELSE IF p = NoNode THEN GiveUp
         ELSE path' = <<p>> \o path /\ UNCHANGED <<pc, result>>
  /\ UNCHANGED <<query, searchVars, lower>>

\* Then from the meeting node along pb to the target.
WalkRight ==
  /\ pc = "right"
  /\ LET v == path[Len(path)]
         p == parent["B"][v]
     IN  IF v = query.dst
         THEN pc' = "done" /\ result' = Reply("reachable", best, path, lower) /\ UNCHANGED path
         ELSE IF p = NoNode THEN GiveUp
         ELSE path' = Append(path, p) /\ UNCHANGED <<pc, result>>
  /\ UNCHANGED <<query, searchVars, lower>>

Work ==
  \/ AnswerTrivial \/ Begin
  \/ Settle("F") \/ Settle("B")
  \/ Relax
  \/ StopAtBound \/ StopExhausted
  \/ WalkLeft \/ WalkRight

\* The call has returned.
Returned == pc = "done" /\ UNCHANGED vars

Next == Work \/ Cancel \/ Returned

Spec == Init /\ [][Next]_vars

\* The goroutine of the query keeps running; nothing obliges a cancellation.
FairSpec == Spec /\ WF_vars(Work)
-----------------------------------------------------------------------------
(* Properties.                                                             *)

Results == [status : {"pending", "reachable", "unreachable", "cancelled"},
            distance : Word, path : Seq(Node), lower : Word]

\* Every variable keeps its type (the uint64, int32 and bool arrays of
\* biWorkspace, the locals of acbsWithOptions).
TypeOK ==
  /\ IsQuery(query) /\ Consistent(query)
  /\ pc \in {"start", "search", "left", "right", "done"}
  /\ dist \in [Dir -> [Node -> Word]]
  /\ parent \in [Dir -> [Node -> Node \cup {NoNode}]]
  /\ settled \in [Dir -> SUBSET Node]
  /\ best \in Word /\ bestReduced \in Word
  /\ meet \in Node \cup {NoNode}
  /\ dir \in Dir /\ cur \in Node \cup {NoNode}
  /\ scan \subseteq {a \in Arcs : From(dir, a) = cur}
  /\ lower \in Word /\ path \in Seq(Node) /\ result \in Results

\* Keys leave each heap in order: whatever may still be delivered is no smaller
\* than anything delivered before.  radixPush panics otherwise (radix.go:37).
KeysMonotone ==
  \A d \in Dir : \A u \in settled[d], v \in Open(d) : Key(d, u) <= Key(d, v)

\* The incumbent is the cheapest connection of the two searches at all times,
\* although it is looked at for one node per step only, and the two scales
\* agree: bestReduced is the sum of the two keys of the meeting node, so that
\* the stopping rule compares like with like (acbs.go:615-636).
IncumbentTight ==
  /\ \A v \in Node :
       dist["F"][v] # inf /\ dist["B"][v] # inf => best <= dist["F"][v] + dist["B"][v]
  /\ best # inf =>
       /\ meet \in Node
       /\ best = dist["F"][meet] + dist["B"][meet]
       /\ bestReduced = Key("F", meet) + Key("B", meet)
  /\ best = inf => meet = NoNode /\ bestReduced = inf

\* Each label is the label of a settled parent plus one arc, so that the parents
\* of the meeting node spell a route of exactly the reported cost.
ParentsTight ==
  \A d \in Dir : \A v \in Node :
    IF dist[d][v] = inf \/ v = Root(d) THEN parent[d][v] = NoNode
    ELSE \E a \in Arcs :
           /\ To(d, a) = v /\ From(d, a) = parent[d][v]
           /\ parent[d][v] \in settled[d]
           /\ dist[d][v] = dist[d][parent[d][v]] + query.cost[a]

\* An incumbent can always be materialised: the walk over the parents that
\* reconstructBidirectional (search.go:352-394) makes never meets a node without
\* a parent, so no route that was found is reported as missing.
IncumbentReconstructs ==
  pc = "done" /\ result.status = "unreachable" => best = inf

\* Label setting: once a node is settled in a direction, its label and its
\* parent in that direction never change, and it stays settled.
SettledIsFinal ==
  [][\A d \in Dir : \A v \in settled[d] :
       /\ v \in settled'[d]
       /\ dist'[d][v] = dist[d][v]
       /\ parent'[d][v] = parent[d][v]]_vars

\* What an exact search promises.
Oracle == INSTANCE ShortestPath

\* The answer is the one an exact search promises (README.md, "Exact routing").
AnswersExactly == Oracle!Spec

\* A set of arrivals <<node, cost>> that no walk from the source leaves.
Arrival == Node \X Nat
ClosedUnder(q, W) ==
  /\ <<q.src, 0>> \in W
  /\ \A a \in DOMAIN q.cost : \A c \in Nat :
       <<a[1], c>> \in W => <<a[2], c + q.cost[a]>> \in W

\* The coupled lower bound never overtakes the true distance while the incumbent
\* is worse than it (docs/CORRECTNESS.md): the loop may be left only with the
\* optimum in hand.
LowerBoundValid ==
  pc = "search" /\ scan = {} =>
    LET d == Oracle!Distance(query) IN
    \/ d \in {best, Oracle!NoRoute}
    \/ \A f \in Front("F"), b \in Front("B") :
         Key("F", f) + Key("B", b) <= originalToReducedUpperBound(
           d, query.phi[query.src], query.phi[query.dst])
=============================================================================
