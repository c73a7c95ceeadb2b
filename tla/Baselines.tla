----------------------------- MODULE Baselines -----------------------------
(***************************************************************************)
(* The bidirectional searches ACBS is measured against: bidirectional      *)
(* Dijkstra (bidijkstra.go), MEET (meet.go), PB (pb.go), CATCH (catch.go)  *)
(* and multi-bound with its alternating variant (multibound.go).           *)
(*                                                                         *)
(* They keep the labels, parents, settled flags and incumbent of           *)
(* CoupledSearch and differ in the keys of their queues, in the rule that  *)
(* picks a direction, in the test that stops the loop, and in what they do *)
(* at a pop.  All but multi-bound look at a queue's front without dropping *)
(* stale entries, so the stopping tests see stale keys too.                *)
(***************************************************************************)
EXTENDS CoupledSearch

Plain == {"bidijkstra", "meet", "pb"}              \* keys are distances
Reduced == {"multibound", "multibound-static"}     \* keys are those of ACBS
Baseline == Plain \cup Reduced \cup {"catch"}

VARIABLES
  alg,    \* the algorithm of the call
  queue,  \* queue[d]: the entries <<node, distance>> of qf, qb
  turn    \* meet's lastDirection; pb's and multibound-static's forward

bvars == <<vars, alg, queue, turn>>

Wrapped(x) == x % (MaxUint64 + 1)

\* The key of a label.  CATCH adds the geographic bound of the rest of the way.
PrioritySwapped(d, v, label) ==   \* fault: the bound of the way already gone
  IF alg = "catch" THEN saturatingAdd(label, RestBound(Other(d), v)) ELSE label
Priority(d, v, label) ==
  CASE alg \in Plain -> label
    [] alg = "catch" -> saturatingAdd(label, RestBound(d, v))
    [] OTHER -> doubledPlusSigned(label, Shift(d, v))

Stale(d, e) == e[2] # dist[d][e[1]] \/ e[1] \in settled[d]

\* Multi-bound drops stale entries when it peeks.
Visible(d) == IF alg \in Reduced THEN {e \in queue[d] : ~Stale(d, e)} ELSE queue[d]

EntryKey(d, e) == Priority(d, e[1], e[2])
Tops(d) == {e \in Visible(d) : \A x \in Visible(d) : EntryKey(d, e) <= EntryKey(d, x)}
MinKey(d) == IF Visible(d) = {} THEN 0 ELSE EntryKey(d, CHOOSE e \in Tops(d) : TRUE)

\* The condition of the loop: CATCH goes on while either queue has an entry.
RunsOn ==
  IF alg = "catch" THEN \E d \in Dir : Visible(d) # {}
  ELSE \A d \in Dir : Visible(d) # {}

\* A route of cost a + b through v, if it beats the incumbent.  A sum that does
\* not fit the word never does.
RecordFirst(v, a, b) ==   \* fault: the first connection is kept for good
  IF a # inf /\ b # inf /\ best = inf
  THEN best' = a + b /\ meet' = v
  ELSE UNCHANGED <<best, meet>>
Record(v, a, b) ==
  IF a # inf /\ b # inf /\ a + b < best
  THEN best' = a + b /\ meet' = v
  ELSE UNCHANGED <<best, meet>>

-----------------------------------------------------------------------------
BaselineInit ==
  /\ Init
  /\ queue = [d \in Dir |-> {}] /\ turn = "F"

Trivial == AnswerTrivial /\ UNCHANGED <<alg, queue, turn>>

Enter ==
  /\ Begin
  /\ queue' = [d \in Dir |-> {<<Root(d), 0>>}]
  /\ UNCHANGED <<alg, turn>>

Searching == pc = "search" /\ scan = {}

\* MEET does not expand a node whose label alone reaches the incumbent.
Cut(label) == alg = "meet" /\ label >= best

\* MEET tries a popped node against any label of the other side, the others
\* only against a settled one.
TriedAtPop(d, v) == alg = "meet" \/ v \in settled[Other(d)]

\* Pop the front of queue d, whichever of the equal keys that is.
Take(d) ==
  /\ Searching
  /\ \E e \in Tops(d) :
       LET v == e[1]
           label == e[2]
       IN  /\ queue' = [queue EXCEPT ![d] = @ \ {e}]
           /\ turn' = IF alg = "pb" THEN Other(d) ELSE d
           /\ IF Stale(d, e)
              THEN UNCHANGED <<settled, best, meet, dir, cur, scan>>
              ELSE /\ settled' = [settled EXCEPT ![d] = @ \cup {v}]
                   /\ dir' = d /\ cur' = v
                   /\ IF ~Cut(label) /\ TriedAtPop(d, v)
                      THEN Record(v, label, dist[Other(d)][v])
                      ELSE UNCHANGED <<best, meet>>
                   /\ scan' = IF Cut(label) THEN {} ELSE Edges(d, v)
  /\ UNCHANGED <<query, pc, dist, parent, bestReduced, path, result, alg>>

\* The head of an edge is tried with the label along that edge, improved or not.
RelaxEdge ==
  /\ pc = "search"
  /\ \E a \in scan :
       LET v     == To(dir, a)
           label == dist[dir][cur] + query.cost[a]
           fits  == dist[dir][cur] <= inf - query.cost[a]
           write == fits /\ label < dist[dir][v]
       IN  /\ scan' = scan \ {a}
           /\ dist' = IF write THEN [dist EXCEPT ![dir][v] = label] ELSE dist
           /\ parent' = IF write THEN [parent EXCEPT ![dir][v] = cur] ELSE parent
           /\ queue' = IF write THEN [queue EXCEPT ![dir] = @ \cup {<<v, label>>}] ELSE queue
           /\ IF fits THEN Record(v, label, dist[Other(dir)][v])
              ELSE UNCHANGED <<best, meet>>
  /\ UNCHANGED <<query, pc, settled, bestReduced, dir, cur, lower, path, result, alg, turn>>

\* The loop ends.
Halt(published) ==
  /\ Searching
  /\ Conclude(published)
  /\ UNCHANGED <<query, searchVars, alg, queue, turn>>

\* The context is looked at on entry to the loop, every 1024 pops or always.
Abandon ==
  /\ Searching /\ alg \in Baseline /\ (RunsOn \/ alg \in Reduced)
  /\ pc' = "done" /\ result' = Cancelled
  /\ UNCHANGED <<query, searchVars, lower, path, alg, queue, turn>>

\* reconstructBidirectional and pbReconstruct.
Walk ==
  /\ WalkLeft \/ WalkRight
  /\ UNCHANGED <<alg, queue, turn>>

\* A search that picks the forward queue when forward holds, stops when met holds
\* and then publishes bound as its lower bound.
Search(forward, met, bound) ==
  \/ Trivial \/ Enter \/ RelaxEdge \/ Walk
  \/ RunsOn /\ best # inf /\ met /\ Halt(bound)
  \/ RunsOn /\ ~(best # inf /\ met)
       /\ Take(IF forward THEN "F" ELSE "B")
       /\ lower' = IF alg \in Reduced THEN bound ELSE lower
  \/ ~RunsOn /\ Halt(lower)

kF == MinKey("F")
kB == MinKey("B")

bidirectionalDijkstra ==
  /\ alg = "bidijkstra"
  /\ Search(kF <= kB, kF <= best /\ kB <= best /\ kF >= best - kB, 0)

\* The differences of MEET and PB are unsigned and would wrap if the backward key
\* overtook the incumbent.
meetSearch ==
  alg = "meet" /\ Search(kF < kB \/ (kF = kB /\ turn = "F"), kF >= Wrapped(best - kB), 0)

pbByBoth ==   \* fault: waits until each frontier has reached the incumbent
  alg = "pb" /\ Search(turn = "F", kF >= best /\ kB >= best, 0)
pbSearch == alg = "pb" /\ Search(turn = "F", kF >= Wrapped(best - kB), 0)

\* CATCH goes on with one queue when the other is empty; its test wants both.
bothQueued == \A d \in Dir : Visible(d) # {}
catchBySum ==   \* fault: the rule of its own comment
  alg = "catch" /\
    Search(Visible("B") = {} \/ (Visible("F") # {} /\ kF <= kB), bothQueued /\ best <= kF + kB, kF)
catchByKey ==   \* fault: an empty queue wins with its zero key
  alg = "catch" /\ Search(kF <= kB, bothQueued /\ best <= kF /\ best <= kB, kF)
catchRun ==
  /\ alg = "catch"
  /\ Search(Visible("B") = {} \/ (Visible("F") # {} /\ kF <= kB),
            bothQueued /\ best <= kF /\ best <= kB, kF)

\* Multi-bound's f-, g- and b-bounds all come out as the g-bound, which is noted
\* on every turn of the loop.
GBound == reducedToOriginalLowerBound(
            saturatingAdd(kF, kB), query.phi[query.src], query.phi[query.dst])
multiBoundRun ==
  /\ alg \in Reduced
  /\ Search(IF alg = "multibound" THEN kF <= kB ELSE turn = "B", GBound >= best, GBound)

Step == bidirectionalDijkstra \/ meetSearch \/ pbSearch \/ catchRun \/ multiBoundRun
-----------------------------------------------------------------------------
\* No queue panics: whatever a queue may still show, stale entries included where they
\* are not dropped, has a key no smaller than any node it has delivered (radix.go:37,
\* pb.go:60).
QueuesMonotone ==
  \A d \in Dir : \A e \in Visible(d), u \in settled[d] :
    Priority(d, u, dist[d][u]) <= EntryKey(d, e)

\* The incumbent is the cheapest connection whenever the stopping test is made,
\* although each search tries a node only when it touches it, PB and bidirectional
\* Dijkstra only against settled nodes at a pop, and MEET not at all at a cut.
NoConnectionMissed ==
  Searching /\ alg \in Baseline =>
    \A v \in Node : dist["F"][v] # inf /\ dist["B"][v] # inf =>
      best <= dist["F"][v] + dist["B"][v]

\* The unsigned differences of the stopping tests of MEET and PB do not wrap, nor
\* is bidirectional Dijkstra's test disarmed by its guard against that: the
\* nodes of the incumbent's own route keep every frontier at or below it until
\* the test fires (bidijkstra.go:42, meet.go:80, pb.go:183).
DifferencesFit ==
  Searching /\ RunsOn /\ best # inf /\ alg \in Plain =>
    \A d \in Dir : MinKey(d) <= best

\* The bound that a search reports along with its answer is admissible: it does not
\* exceed the distance.  The comment of multi-bound says so of the bounds that it
\* reports the largest of (multibound.go:11-12, 25-26, 184).
PublishedBoundHolds ==
  pc = "done" /\ result.status = "reachable" => result.lower <= result.distance
=============================================================================
