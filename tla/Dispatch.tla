------------------------------ MODULE Dispatch ------------------------------
(***************************************************************************)
(* Run (search.go:113-191), the entry to all searches, over the baselines  *)
(* and the single-source searches, and Select (202-228), the policy of the *)
(* portfolio.  The ACBS variants and the race have modules of their own.   *)
(***************************************************************************)
EXTENDS SingleSource

CONSTANT Calls(_)   \* what Run is called with on a query: algorithm, traits of the graph

\* The features Select looks at; strength and ratio are in hundredths.
Traits == [alg : {"dijkstra", "astar", "aegis-portfolio", "catch"} \cup Plain \cup Reduced,
           small : BOOLEAN,                 \* fewer than 4096 nodes
           perMeter : BOOLEAN,              \* MinCostPerMeter > 0
           diameter : BOOLEAN,              \* DiameterMeters > 0
           strength : 0 .. 100,             \* HeuristicStrength
           time : BOOLEAN,                  \* Metric is the travel time
           ratio : 0 .. 100]                \* distance of the endpoints / diameter

ASSUME CallAssumption == \A q \in Queries : Calls(q) \subseteq Traits

VARIABLE call

dvars == <<svars, call>>

hasGeography == call.perMeter /\ call.diameter

clamp(x, lo, hi) == IF x < lo THEN lo ELSE IF x > hi THEN hi ELSE x
timeAStarRatioLimit == clamp(18 + call.strength, 22, 62)

Select ==
  IF call.small THEN "dijkstra"
  ELSE IF /\ hasGeography /\ call.strength >= 5
          /\ IF call.time THEN call.ratio <= timeAStarRatioLimit ELSE call.strength >= 18
       THEN "astar"
  ELSE "bidijkstra"

DispatchInit ==
  /\ BaselineInit
  /\ call \in Calls(query)
  /\ alg = call.alg
  /\ geometry = call.perMeter
  /\ heap = <<>>

\* The portfolio replaces the algorithm by the one selected.
Portfolio ==
  /\ pc = "start" /\ alg = "aegis-portfolio"
  /\ alg' = Select
  /\ UNCHANGED <<vars, queue, turn, geometry, heap, call>>

\* A* asked for by name is refused on a graph without geometry.
Unusable == call.alg = "astar" /\ ~call.perMeter

Refuse ==
  /\ pc = "start" /\ Unusable
  /\ pc' = "done" /\ result' = Cancelled
  /\ UNCHANGED <<query, searchVars, lower, path, alg, queue, turn, geometry, heap, call>>

Run ==
  \/ Portfolio
  \/ Refuse
  \/ ~Unusable /\ dijkstra /\ UNCHANGED call
  \/ Step /\ UNCHANGED <<geometry, heap, call>>

DispatchNext ==
  \/ Run
  \/ Abandon1 /\ UNCHANGED call
  \/ Abandon /\ UNCHANGED <<geometry, heap, call>>
  \/ Returned /\ UNCHANGED dvars

\* The goroutine of the query keeps running; nothing obliges a cancellation.
DispatchSpec == DispatchInit /\ [][DispatchNext]_dvars /\ WF_dvars(Run)
-----------------------------------------------------------------------------
\* The exact answer, whatever bound is published along with it.
Answers == INSTANCE ShortestPath
             WITH result <- [result EXCEPT !.lower = result.distance]

\* Every search that Run dispatches to is exact (README.md, "Exact routing";
\* docs/CANDIDATES.md, "Correctness"), Dijkstra's and A* with their reopened
\* nodes and the four-ary heap, the portfolio whatever it selects.
BaselinesExact == Answers!Spec

\* No arc costs more than c, no bound or difference of potentials exceeds p, and the
\* keys of the longest labels fit the word.
BoundedBy(q, c, p) ==
  /\ \A a \in DOMAIN q.cost : q.cost[a] <= c
  /\ \A u, v \in Node : q.phi[u] - q.phi[v] <= p
  /\ \A v \in Node : q.toDst[v] <= p /\ q.fromSrc[v] <= p
  /\ 2 * (c * Cardinality(Node)) + p < MaxUint64
=============================================================================
