----------------------------- MODULE GraphBuild -----------------------------
(***************************************************************************)
(* Graph construction (graph.go): Finalize checks what an importer or Load *)
(* has collected, sorts and deduplicates each adjacency list, compacts the *)
(* lists into arrays of arcs with offsets, in both directions, and finds   *)
(* the least cost per metre; and the geographic lower bounds that the      *)
(* searches derive from it (acbs.go:513-613, dijkstra.go:68-85).           *)
(*                                                                         *)
(* Node indices start at 1.  A node is [id, place], an edge [to, cost]     *)
(* and an adjacency list a sequence of edges.                              *)
(***************************************************************************)
EXTENDS Integers, Sequences, SequencesExt

CONSTANTS Place,        \* latitude and longitude
          Meters(_, _)  \* HaversineMeters, and the chord that ACBS puts for it

ASSUME MetricAssumption ==
  \A p, q, r \in Place :
    /\ Meters(p, q) \in Nat /\ Meters(p, q) = Meters(q, p)
    /\ Meters(p, q) = 0 <=> p = q
    /\ Meters(p, r) <= Meters(p, q) + Meters(q, r)

NoGraph == [ok |-> FALSE]

\* The checks of Finalize.  Costs are unsigned.
Acceptable(nodes, adj) ==
  /\ nodes # <<>> /\ Len(adj) = Len(nodes)
  /\ \A i, j \in DOMAIN nodes : nodes[i].id = nodes[j].id => i = j
  /\ \A i \in DOMAIN adj : \A k \in DOMAIN adj[i] :
       adj[i][k].to \in DOMAIN nodes /\ adj[i][k].cost \in Nat \ {0}

\* A list in the order of a relation: each entry goes behind those that may stand
\* before it.
InOrder(s, order) ==
  LET Behind(t, e) == Cardinality({k \in DOMAIN t : <<t[k], e>> \in order})
      filed[k \in 0 .. Len(s)] ==
        IF k = 0 THEN <<>> ELSE InsertAt(filed[k - 1], Behind(filed[k - 1], s[k]) + 1, s[k])
  IN  filed[Len(s)]

\* The order of edges: by head and cost.
ByHeadAlone(edges) ==   \* fault: by head alone
  {p \in ToSet(edges) \X ToSet(edges) : p[1].to <= p[2].to}
ByHead(edges) ==
  {p \in ToSet(edges) \X ToSet(edges) :
     p[1].to < p[2].to \/ (p[1].to = p[2].to /\ p[1].cost <= p[2].cost)}

\* The first of the edges to a node is kept.
Dedup(edges) ==
  LET s == InOrder(edges, ByHead(edges))
      kept[k \in 0 .. Len(s)] ==
        IF k = 0 THEN <<>>
        ELSE IF kept[k - 1] # <<>> /\ Last(kept[k - 1]).to = s[k].to THEN kept[k - 1]
        ELSE Append(kept[k - 1], s[k])
  IN  kept[Len(s)]

\* Offsets of blocks of the given sizes, and the block of a node.
Offsets(sizes) ==
  LET before[v \in 1 .. Len(sizes) + 1] == IF v = 1 THEN 0 ELSE before[v - 1] + sizes[v - 1]
  IN  before
Block(offsets, edges, v) == SubSeq(edges, offsets[v] + 1, offsets[v + 1])

OutEdges(g, v) == Block(g.outOffsets, g.outEdges, v)
InEdges(g, v) == Block(g.inOffsets, g.inEdges, v)

\* The arcs, tail by tail.
TailByTail(out) ==
  FlattenSeq([v \in DOMAIN out |->
    [k \in DOMAIN out[v] |-> [from |-> v, to |-> out[v][k].to, cost |-> out[v][k].cost]]])

\* The reverse array is filled arc by arc, with a cursor for every head.
Reversed(arcs, inOffsets) ==
  LET Put(r, a) == [edges |-> [r.edges EXCEPT ![r.cursor[a.to] + 1] = [to |-> a.from, cost |-> a.cost]],
                    cursor |-> [r.cursor EXCEPT ![a.to] = @ + 1]]
      filled[k \in 0 .. Len(arcs)] ==
        IF k = 0 THEN [edges |-> [p \in DOMAIN arcs |-> [to |-> 0, cost |-> 0]], cursor |-> inOffsets]
        ELSE Put(filled[k - 1], arcs[k])
  IN  filled[Len(arcs)].edges

\* The costs per metre of the arcs that have a length, as fractions, and the least
\* of them; none (0) if no arc has a length.
Ratios(nodes, adj) ==
  LET length(v, e) == Meters(nodes[v].place, nodes[e.to].place)
  IN  UNION {{<<e.cost, length(v, e)>> : e \in {e \in ToSet(adj[v]) : length(v, e) > 0}} :
               v \in DOMAIN adj}
MinCostOfAnArc(nodes, adj) ==   \* fault: that of the cheapest arc
  IF Ratios(nodes, adj) = {} THEN <<0, 1>>
  ELSE CHOOSE r \in Ratios(nodes, adj) : \A x \in Ratios(nodes, adj) : r[1] <= x[1]
MinCostPerMeter(nodes, adj) ==
  IF Ratios(nodes, adj) = {} THEN <<0, 1>>
  ELSE CHOOSE r \in Ratios(nodes, adj) : \A x \in Ratios(nodes, adj) : r[1] * x[2] <= x[1] * r[2]

\* Some arc has no arc back.
DetectDirected(adj) ==
  \E v \in DOMAIN adj : \E e \in ToSet(adj[v]) : \A b \in ToSet(adj[e.to]) : b.to # v

\* The arrays of both directions, and what is known of them.
Compacted(nodes, out) ==
  LET n == Len(nodes)
      arcs == TailByTail(out)
      inOffsets == Offsets([v \in 1 .. n |-> Cardinality({k \in DOMAIN arcs : arcs[k].to = v})])
  IN  [ok |-> TRUE, nodes |-> nodes, edgeCount |-> Len(FlattenSeq(out)),
       outOffsets |-> Offsets([v \in 1 .. n |-> Len(out[v])]), outEdges |-> FlattenSeq(out),
       inOffsets |-> inOffsets, inEdges |-> Reversed(arcs, inOffsets),
       minCostPerMeter |-> MinCostPerMeter(nodes, out), directed |-> DetectDirected(out)]

Finalize(nodes, adj) ==
  IF ~Acceptable(nodes, adj) THEN NoGraph
  ELSE Compacted(nodes, [v \in DOMAIN nodes |-> Dedup(adj[v])])

\* ---------------------------------------------------------------------------
\* The lower bound of the cost between two nodes, rounded down, and the balanced
\* potential of a query.
lowerBoundCost(g, u, v) ==
  (Meters(g.nodes[u].place, g.nodes[v].place) * g.minCostPerMeter[1]) \div g.minCostPerMeter[2]

\* The query a search makes of the graph.
QueryOn(g, s, t) ==
  [src |-> s, dst |-> t, prune |-> FALSE,
   cost |-> [a \in UNION {{v} \X {e.to : e \in ToSet(OutEdges(g, v))} : v \in DOMAIN g.nodes} |->
              (CHOOSE e \in ToSet(OutEdges(g, a[1])) : e.to = a[2]).cost],
   phi |-> [v \in DOMAIN g.nodes |-> lowerBoundCost(g, v, t) - lowerBoundCost(g, s, v)],
   toDst |-> [v \in DOMAIN g.nodes |-> lowerBoundCost(g, v, t)],
   fromSrc |-> [v \in DOMAIN g.nodes |-> lowerBoundCost(g, s, v)]]
=============================================================================
