------------------------------ MODULE QueryPool ------------------------------
(***************************************************************************)
(* How the benchmark and the stress driver choose their queries            *)
(* (bench.go:449-592): the pool is the largest strongly connected          *)
(* component, by Kosaraju's algorithm with a stack of its own, or all      *)
(* nodes; a query is a source and a target from the pool, the target at    *)
(* random, nearby or far away by the class of the query.                   *)
(***************************************************************************)
EXTENDS SearchRun, GraphBuild, FiniteSets

VARIABLES
  pool,   \* the nodes to draw from
  drawn,  \* how many queries have been drawn
  last    \* the last of them

poolVars == <<pool, drawn, last>>

\* Depth-first search along the arcs, from every node not seen yet.  A frame is a
\* node and the next of its arcs to look at; a node is listed when its frame ends.
DFSStep(g, s) ==
  LET top == Last(s.stack)
      arcs == OutEdges(g, top.v)
      to == arcs[top.next].to
      looked == Append(Front(s.stack), [v |-> top.v, next |-> top.next + 1])
      Visit(stack, v) == [stack |-> Append(stack, [v |-> v, next |-> 1]),
                          seen |-> s.seen \cup {v}, order |-> s.order]
  IN  IF s.stack = <<>>
      THEN LET new == DOMAIN g.nodes \ s.seen
           IN  IF new = {} THEN s ELSE Visit(<<>>, Min(new))
      ELSE IF top.next > Len(arcs)
      THEN [stack |-> Front(s.stack), seen |-> s.seen, order |-> Append(s.order, top.v)]
      ELSE IF to \in s.seen THEN [s EXCEPT !.stack = looked] ELSE Visit(looked, to)

FinishOrder(g) ==
  LET steps == 2 * Len(g.nodes) + g.edgeCount
      state[k \in 0 .. steps] ==
        IF k = 0 THEN [stack |-> <<>>, seen |-> {}, order |-> <<>>] ELSE DFSStep(g, state[k - 1])
  IN  state[steps].order

\* All nodes that are not taken and from which v is reached.
GrownForwards(g, S, taken) ==   \* fault: along the arcs, as in the first pass
  S \cup ({e.to : e \in UNION {ToSet(OutEdges(g, u)) : u \in S}} \ taken)
Grown(g, S, taken) ==
  S \cup ({e.to : e \in UNION {ToSet(InEdges(g, u)) : u \in S}} \ taken)
Flood(g, v, taken) ==
  LET reached[k \in 0 .. Len(g.nodes)] ==
        IF k = 0 THEN {v} ELSE Grown(g, reached[k - 1], taken)
  IN  reached[Len(g.nodes)]

\* The components, from the node that was listed last to that listed first.
Labelled(g, comps, v) ==
  LET taken == UNION ToSet(comps)
  IN  IF v \in taken THEN comps ELSE Append(comps, Flood(g, v, taken))
Components(g) ==
  LET roots == Reverse(FinishOrder(g))
      comps[k \in 0 .. Len(roots)] ==
        IF k = 0 THEN <<>> ELSE Labelled(g, comps[k - 1], roots[k])
  IN  comps[Len(roots)]

\* The first of the largest components.
makePool(g, mode) ==
  IF mode = "all" THEN DOMAIN g.nodes
  ELSE LET comps == Components(g)
       IN  comps[Min({i \in DOMAIN comps : \A c \in ToSet(comps) : Cardinality(c) <= Cardinality(comps[i])})]

\* The targets that may be drawn.  A sample may be any part of the pool, even the
\* source alone, and nearest and farthest are taken from it; among targets at the
\* source's own place the first of the pool is taken for a far one.
chooseTarget(g, nodes, source, class) ==
  LET far(t) == Meters(g.nodes[source].place, g.nodes[t].place)
      Best(S) == {t \in S \ {source} :
                    IF class = "local" THEN \A u \in S \ {source} : far(t) <= far(u)
                    ELSE far(t) > 0 /\ \A u \in S : far(t) >= far(u)}
      others == nodes \ {source}
  IN  IF class = "random" \/ Cardinality(nodes) < 4 THEN others
      ELSE UNION {IF Best(S) = {} THEN {Min(others)} ELSE Best(S) : S \in (SUBSET nodes) \ {{}}}

\* The class of the k-th query of a suite.
Class(suite, k) ==
  IF suite # "mixed" THEN suite ELSE <<"local", "random", "regional">>[((k - 1) % 3) + 1]

\* The queries that may be drawn as the k-th.
Draws(g, nodes, suite, k) ==
  {q \in nodes \X nodes : q[2] \in chooseTarget(g, nodes, q[1], Class(suite, k))}

PoolInit ==
  /\ pool = makePool(cfg.graph, cfg.pairMode)
  /\ drawn = 0 /\ last = <<>>

\* A pool of less than two nodes is refused.
makeQueries ==
  /\ Cardinality(pool) >= 2 /\ drawn < cfg.queries
  /\ drawn' = drawn + 1
  /\ last' \in Draws(cfg.graph, pool, cfg.suite, drawn + 1)
  /\ UNCHANGED pool

\* ---------------------------------------------------------------------------
\* Properties

\* A node is reached from another one if no set that the arcs do not leave has only
\* the latter.
IsClosed(g, S) == \A u \in S : \A e \in ToSet(OutEdges(g, u)) : e.to \in S
Reaches(g, u, v) == \A S \in SUBSET DOMAIN g.nodes : u \in S /\ IsClosed(g, S) => v \in S
StronglyConnected(g, S) == \A u, v \in S : Reaches(g, u, v)

\* Every query of a strongly connected pool has a route there and back between two
\* nodes, and no pool with that property has more nodes; so a reachable answer is
\* due for each (bench.go:449-592).
QueriesRoutable ==
  pool # {} /\ cfg.pairMode = "strongly-connected" =>
    /\ pool \subseteq DOMAIN cfg.graph.nodes /\ StronglyConnected(cfg.graph, pool)
    /\ \A S \in SUBSET DOMAIN cfg.graph.nodes :
         StronglyConnected(cfg.graph, S) => Cardinality(S) <= Cardinality(pool)
    /\ last # <<>> => last[1] # last[2] /\ {last[1], last[2]} \subseteq pool
=============================================================================
