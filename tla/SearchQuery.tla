---------------------------- MODULE SearchQuery ----------------------------
(***************************************************************************)
(* What a search is asked, and what it assumes of the graph and its        *)
(* geometry (acbs.go:127-210): this is where graph construction and the    *)
(* searches meet.                                                          *)
(***************************************************************************)
EXTENDS Integers

CONSTANT Node   \* the node indices of the graph

\* A query is a graph after Finalize (arcs without duplicates, positive costs),
\* two endpoints, the potential phi (hF - hB, or the projection), the two lower
\* bounds the pruning ablation reads, and whether it is on (acbsOptions.pruning,
\* which only aegis-prune sets).
IsQuery(q) ==
  /\ q.src \in Node /\ q.dst \in Node
  /\ DOMAIN q.cost \subseteq Node \X Node
  /\ q.cost \in [DOMAIN q.cost -> Nat \ {0}]
  /\ q.phi \in [Node -> Int]
  /\ q.toDst \in [Node -> Nat] /\ q.fromSrc \in [Node -> Nat]
  /\ q.prune \in BOOLEAN

\* What the geometry guarantees: no reduced arc cost is negative.
Consistent(q) ==
  \A a \in DOMAIN q.cost : q.phi[a[1]] <= 2 * q.cost[a] + q.phi[a[2]]

\* The pruning bounds never overestimate along an arc.
BoundsConsistent(q) ==
  /\ q.toDst[q.dst] = 0 /\ q.fromSrc[q.src] = 0
  /\ \A a \in DOMAIN q.cost :
       /\ q.toDst[a[1]] <= q.cost[a] + q.toDst[a[2]]
       /\ q.fromSrc[a[2]] <= q.cost[a] + q.fromSrc[a[1]]
=============================================================================
