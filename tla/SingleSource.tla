---------------------------- MODULE SingleSource ----------------------------
(***************************************************************************)
(* Dijkstra's algorithm and A* (dijkstra.go), one procedure with a flag.   *)
(* Unlike the bidirectional searches it keeps no settled set: a node whose *)
(* label improves after it has been expanded is queued and expanded again, *)
(* an entry is stale when its distance is no longer the node's label, and  *)
(* the search ends when it pops the target.                                *)
(*                                                                         *)
(* dist, parent, cur, scan and path are those of CoupledSearch, in the     *)
(* forward direction.                                                      *)
(***************************************************************************)
EXTENDS Baselines, FourAryHeap

VARIABLES geometry,  \* g.MinCostPerMeter > 0
          heap       \* w.q

svars == <<bvars, geometry, heap>>

Single == {"dijkstra", "astar"}

\* The heuristic of A*, rounded down: query.toDst, or nothing without geometry.
heuristic(v) == IF alg = "astar" /\ geometry THEN query.toDst[v] ELSE 0

\* A sum that wraps is replaced by the largest word.
Item(v, label) ==
  [node |-> v, distance |-> label, priority |-> saturatingAdd(label, heuristic(v))]

Open1 ==
  /\ pc = "start" /\ alg \in Single
  /\ pc' = "search"
  /\ dist' = [dist EXCEPT !["F"][query.src] = 0]
  /\ heap' = push(heap, Item(query.src, 0))
  /\ UNCHANGED <<query, parent, settled, best, meet, bestReduced, dir, cur, scan,
                 lower, path, result, alg, queue, turn, geometry>>

Looping == pc = "search" /\ scan = {} /\ alg \in Single

\* The loop is left: no label at the target means no route.
Leave ==
  IF dist["F"][query.dst] = inf
  THEN pc' = "done" /\ result' = Reply("unreachable", 0, <<>>, 0) /\ UNCHANGED path
  ELSE pc' = "left" /\ path' = <<query.dst>> /\ UNCHANGED result

Pop1 ==
  /\ Looping /\ heap # <<>>
  /\ heap' = pop(heap)
  /\ LET v == heap[1].node
         stale == heap[1].distance # dist["F"][v]
     IN  \/ stale /\ UNCHANGED <<cur, scan, pc, path, result>>
         \/ ~stale /\ v = query.dst /\ Leave /\ UNCHANGED <<cur, scan>>
         \/ /\ ~stale /\ v # query.dst
            /\ cur' = v /\ scan' = Edges("F", v)
            /\ UNCHANGED <<pc, path, result>>
  /\ UNCHANGED <<query, dist, parent, settled, best, meet, bestReduced, dir, lower,
                 alg, queue, turn, geometry>>

RunDry1 ==
  /\ Looping /\ heap = <<>>
  /\ Leave
  /\ UNCHANGED <<query, searchVars, lower, alg, queue, turn, geometry, heap>>

Relax1 ==
  /\ pc = "search" /\ alg \in Single
  /\ \E a \in scan :
       LET label == dist["F"][cur] + query.cost[a]
           write == label <= inf /\ label < dist["F"][a[2]]
       IN  /\ scan' = scan \ {a}
           /\ dist' = IF write THEN [dist EXCEPT !["F"][a[2]] = label] ELSE dist
           /\ parent' = IF write THEN [parent EXCEPT !["F"][a[2]] = cur] ELSE parent
           /\ heap' = IF write THEN push(heap, Item(a[2], label)) ELSE heap
  /\ UNCHANGED <<query, pc, settled, best, meet, bestReduced, dir, cur, lower, path,
                 result, alg, queue, turn, geometry>>

\* reconstruct walks the parents back from the target.  It would return no path
\* at a node without a parent, the answer being "reachable" all the same.
Walk1 ==
  /\ pc = "left" /\ alg \in Single
  /\ LET v == Head(path)
         p == parent["F"][v]
         Done(route) == /\ pc' = "done" /\ UNCHANGED path
                        /\ result' = Reply("reachable", dist["F"][query.dst], route, 0)
     IN  IF v = query.src THEN Done(path)
         ELSE IF p = NoNode THEN Done(<<>>)
         ELSE path' = <<p>> \o path /\ UNCHANGED <<pc, result>>
  /\ UNCHANGED <<query, searchVars, lower, alg, queue, turn, geometry, heap>>

\* The context is looked at before every pop that follows 1024 expansions.
Abandon1 ==
  /\ Looping /\ heap # <<>>
  /\ pc' = "done" /\ result' = Cancelled
  /\ UNCHANGED <<query, searchVars, lower, path, alg, queue, turn, geometry, heap>>

dijkstra == Open1 \/ Pop1 \/ RunDry1 \/ Relax1 \/ Walk1
=============================================================================
