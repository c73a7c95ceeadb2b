---------------------------- MODULE ShortestPath ----------------------------
(***************************************************************************)
(* What an exact point-to-point search promises (README.md, "Returns a     *)
(* shortest path"; internal/search/search.go:398-420, Validate): one       *)
(* answer per query, which is a shortest route with its exact cost and a   *)
(* proof bound without a gap, or the statement that no route exists, or    *)
(* the cancellation.  How the answer is found is not said here.            *)
(***************************************************************************)
EXTENDS Integers, Sequences, FiniteSets, FiniteSetsExt

CONSTANT Node

VARIABLES query,  \* the question, which is the caller's and stays as it is
          result

NoRoute == -1

IsRoute(q, p) ==
  /\ p # <<>> /\ p[1] = q.src /\ p[Len(p)] = q.dst
  /\ \A i \in 1 .. Len(p) - 1 : <<p[i], p[i + 1]>> \in DOMAIN q.cost

RouteCost(q, p) ==
  LET upTo[i \in 1 .. Len(p)] ==
        IF i = 1 THEN 0 ELSE upTo[i - 1] + q.cost[<<p[i - 1], p[i]>>]
  IN  upTo[Len(p)]

\* Bellman's recurrence: known(v) are the ways to v with one arc more.
Extended(q, shorter) ==
  LET known(v) == {shorter[v]} \cup
        {shorter[a[1]] + q.cost[a] :
           a \in {x \in DOMAIN q.cost : x[2] = v /\ shorter[x[1]] # NoRoute}}
  IN  [v \in Node |-> IF known(v) = {NoRoute} THEN NoRoute
                      ELSE Min(known(v) \ {NoRoute})]

\* Distances from the source, by the number of arcs.
DistancesFrom(q) ==
  LET within[k \in 0 .. Cardinality(Node)] ==
        IF k = 0 THEN [v \in Node |-> IF v = q.src THEN 0 ELSE NoRoute]
        ELSE Extended(q, within[k - 1])
  IN  within[Cardinality(Node)]

Distance(q) == DistancesFrom(q)[q.dst]

Correct(q, r) ==
  \/ /\ r.status = "reachable"
     /\ IsRoute(q, r.path)
     /\ r.distance = Distance(q)
     /\ r.distance = RouteCost(q, r.path)
     /\ r.lower = r.distance
  \/ /\ r.status = "unreachable"
     /\ r.path = <<>>
     /\ Distance(q) = NoRoute
  \/ r.status = "cancelled" /\ r.path = <<>>

Init == result.status = "pending"

Reply ==
  /\ result.status = "pending"
  /\ Correct(query, result')
  /\ UNCHANGED query

Spec == Init /\ [][Reply]_<<query, result>>
=============================================================================
