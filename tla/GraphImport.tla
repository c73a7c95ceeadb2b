---------------------------- MODULE GraphImport ----------------------------
(***************************************************************************)
(* The two importers (osmxml.go, dimacs.go).  Each reads its file element  *)
(* by element or line by line, in whatever order the file has them, keeps  *)
(* what it needs and builds the adjacency lists when the file has ended.   *)
(***************************************************************************)
EXTENDS GraphBuild

CONSTANTS
  Elements,     \* the elements and lines that files are made of
  MaxElements,  \* bound: the length of a file
  PerUnit       \* cost units of a metre, 1000 in the code

ASSUME ElementAssumption ==
  \A x \in Elements :
    /\ x.kind = "way" => x.refs \in Seq(ToSet(x.refs))
    /\ x.kind = "p" => x.n \in Nat \ {0}
    /\ x.kind = "a" => x.arc = <<x.arc[1], x.arc[2], x.arc[3]>>
    /\ x.kind = "node" => x.place \in Place

VARIABLES
  stage,    \* "read", "coords" (DIMACS's second file), "built" or "failed"
  options,  \* [format, profile, metric]
  count,    \* how many elements have been read
  places,   \* OSM's nodes, DIMACS's coordinates: from ids to places
  roads,    \* OSM's accepted ways, DIMACS's arcs, as read
  size,     \* DIMACS's n
  graph     \* the result

ivars == <<stage, options, count, places, roads, size, graph>>

OSM == options.format = "osm"

\* ---------------------------------------------------------------------------
\* OSM

\* A way has the tags highway (a representative of the values treated alike),
\* closed (access or area), forbids (the profiles whose own tag says "no"),
\* maxspeed, oneway, and the profile-specific onewayFoot and onewayBicycle.
isRoutable(t, profile) ==
  /\ ~t.closed /\ profile \notin t.forbids
  /\ CASE profile = "walk" -> t.highway \notin {"", "motorway", "trunk", "construction"}
       [] profile = "bike" -> t.highway \notin {"", "motorway", "construction", "steps"}
       [] OTHER -> t.highway \in {"motorway", "trunk", "residential"}

onewayDirection(t, profile) ==
  IF \/ profile = "walk" /\ t.onewayFoot = "no"
     \/ profile = "bike" /\ t.onewayBicycle = "no"
  THEN "both"
  ELSE CASE t.oneway = "-1" -> "back"
         [] t.oneway = "yes" \/ t.roundabout -> "forth"
         [] OTHER -> "both"

Speed(t, profile) ==
  CASE profile = "walk" -> 1
    [] profile = "bike" -> 3
    [] OTHER -> IF t.maxspeed > 0 THEN t.maxspeed ELSE IF t.highway = "motorway" THEN 10 ELSE 4

\* Rounded up, so that a cost is never 0.
Cost(meters, t) ==
  LET speed == IF options.metric = "time" THEN Speed(t, options.profile) ELSE 1
  IN  (meters * PerUnit + speed - 1) \div speed

ReadNode(x) ==
  /\ OSM /\ x.kind = "node"
  /\ places' = [i \in DOMAIN places \cup {x.id} |-> IF i = x.id THEN x.place ELSE places[i]]
  /\ UNCHANGED <<stage, roads, size, graph>>

ReadWay(x) ==
  /\ OSM /\ x.kind = "way"
  /\ roads' = IF isRoutable(x.tags, options.profile) /\ Len(x.refs) >= 2
              THEN Append(roads, x) ELSE roads
  /\ UNCHANGED <<stage, places, size, graph>>

\* The nodes of accepted ways that the file defines, by id.
Used == {i \in DOMAIN places : \E k \in DOMAIN roads : i \in ToSet(roads[k].refs)}
UsedIds == InOrder(SetToSeq(Used), {p \in Used \X Used : p[1] <= p[2]})

\* One stretch of road between two consecutive nodes of a way.
Stretches(way) == [i \in 1 .. Len(way.refs) - 1 |->
                     [a |-> way.refs[i], b |-> way.refs[i + 1], tags |-> way.tags]]
Usable(s) == s.a \in Used /\ s.b \in Used /\ places[s.a] # places[s.b]

\* The arcs of a stretch, between ids.
ArcsOf(s) ==
  LET cost == Cost(Meters(places[s.a], places[s.b]), s.tags)
      forth == <<s.a, s.b, cost>>
      back == <<s.b, s.a, cost>>
  IN  CASE onewayDirection(s.tags, options.profile) = "forth" -> <<forth>>
        [] onewayDirection(s.tags, options.profile) = "back" -> <<back>>
        [] OTHER -> <<forth, back>>

OSMArcs ==
  FlattenSeq([k \in DOMAIN roads |->
    LET all == Stretches(roads[k])
    IN  FlattenSeq([i \in DOMAIN all |-> IF Usable(all[i]) THEN ArcsOf(all[i]) ELSE <<>>])])

\* Adjacency lists over the nodes with the given ids, in that order: each arc is
\* appended to the list of its tail.
Lists(ids, arcs) ==
  LET index(i) == CHOOSE v \in DOMAIN ids : ids[v] = i
      adj[k \in 0 .. Len(arcs)] ==
        IF k = 0 THEN [v \in DOMAIN ids |-> <<>>]
        ELSE [adj[k - 1] EXCEPT ![index(arcs[k][1])] =
                Append(@, [to |-> index(arcs[k][2]), cost |-> arcs[k][3]])]
  IN  adj[Len(arcs)]

Fail == stage' = "failed" /\ UNCHANGED graph
Built(g) == IF g.ok THEN stage' = "built" /\ graph' = g ELSE Fail

EndOSM ==
  /\ OSM /\ stage = "read"
  /\ IF DOMAIN places = {} \/ roads = <<>> THEN Fail
     ELSE Built(Finalize([v \in DOMAIN UsedIds |-> [id |-> UsedIds[v], place |-> places[UsedIds[v]]]],
                         Lists(UsedIds, OSMArcs)))
  /\ UNCHANGED <<options, count, places, roads, size>>

\* ---------------------------------------------------------------------------
\* DIMACS

\* A problem line may come anywhere; the last one counts.
ReadProblem(x) ==
  /\ ~OSM /\ stage = "read" /\ x.kind = "p"
  /\ size' = x.n
  /\ UNCHANGED <<stage, places, roads, graph>>

ReadArc(x) ==
  /\ ~OSM /\ stage = "read" /\ x.kind = "a"
  /\ roads' = Append(roads, x.arc)
  /\ UNCHANGED <<stage, places, size, graph>>

Ids == 1 .. size
OutOfRange == \E k \in DOMAIN roads : roads[k][1] \notin Ids \/ roads[k][2] \notin Ids

\* The graph file has ended; every node is at latitude and longitude 0.
EndArcs(origin) ==
  /\ ~OSM /\ stage = "read"
  /\ IF size = 0 \/ OutOfRange
     THEN stage' = "failed" /\ UNCHANGED places
     ELSE stage' = "coords" /\ places' = [i \in Ids |-> origin]
  /\ UNCHANGED <<options, count, roads, size, graph>>

ReadCoord(x) ==
  /\ ~OSM /\ stage = "coords" /\ x.kind = "node"
  /\ IF x.id \in Ids
     THEN places' = [places EXCEPT ![x.id] = x.place] /\ UNCHANGED stage
     ELSE stage' = "failed" /\ UNCHANGED places
  /\ UNCHANGED <<roads, size, graph>>

EndCoords ==
  /\ ~OSM /\ stage = "coords"
  /\ Built(Finalize([v \in Ids |-> [id |-> v, place |-> places[v]]],
                    Lists([v \in Ids |-> v], roads)))
  /\ UNCHANGED <<options, count, places, roads, size>>

\* ---------------------------------------------------------------------------

\* A malformed element ends the import.
ReadMalformed(x) ==
  /\ x.kind = "malformed"
  /\ Fail
  /\ UNCHANGED <<places, roads, size>>

Read ==
  /\ stage \in {"read", "coords"} /\ count < MaxElements
  /\ count' = count + 1 /\ UNCHANGED options
  /\ \E x \in Elements :
       ReadNode(x) \/ ReadWay(x) \/ ReadProblem(x) \/ ReadArc(x) \/ ReadCoord(x) \/ ReadMalformed(x)

ImportInit(setups) ==
  /\ stage = "read" /\ options \in setups /\ count = 0
  /\ places = <<>> /\ roads = <<>> /\ size = 0 /\ graph = NoGraph

Import(origin) == Read \/ EndOSM \/ EndArcs(origin) \/ EndCoords

\* ---------------------------------------------------------------------------
\* Properties

\* The arcs asked for, by id: between neighbours on a way that may be driven in
\* that sense, or the lines of the file, each pair at its least cost.
Driven ==
  LET Neighbours(w, u, v) ==
        \E i \in 1 .. Len(w.refs) - 1 :
          \/ <<u, v>> = <<w.refs[i], w.refs[i + 1]>>
               /\ onewayDirection(w.tags, options.profile) # "back"
          \/ <<v, u>> = <<w.refs[i], w.refs[i + 1]>>
               /\ onewayDirection(w.tags, options.profile) # "forth"
      Pairs(w) == {p \in (DOMAIN places) \X (DOMAIN places) :
                     places[p[1]] # places[p[2]] /\ Neighbours(w, p[1], p[2])}
  IN  UNION {{<<p[1], p[2], Cost(Meters(places[p[1]], places[p[2]]), w.tags)>> : p \in Pairs(w)} :
               w \in ToSet(roads)}
Cheapest(all) == {a \in all : \A b \in all : b[1] = a[1] /\ b[2] = a[2] => a[3] <= b[3]}
Wanted == Cheapest(IF OSM THEN Driven ELSE ToSet(roads))

Increasing(edges) == \A i, j \in 1 .. Len(edges) : i < j => edges[i].to < edges[j].to

HasExactly(g, wanted) ==
  LET V == DOMAIN g.nodes
      id(v) == g.nodes[v].id
  IN  /\ UNION {{<<id(v), id(e.to), e.cost>> : e \in ToSet(OutEdges(g, v))} : v \in V} = wanted
      /\ UNION {{<<id(e.to), id(v), e.cost>> : e \in ToSet(InEdges(g, v))} : v \in V} = wanted
      /\ \A v \in V : Increasing(OutEdges(g, v)) /\ Increasing(InEdges(g, v))
      /\ g.edgeCount = Cardinality(wanted)
      /\ g.directed <=> \E a \in wanted : \A b \in wanted : <<b[1], b[2]>> # <<a[2], a[1]>>

\* Both directions of the compacted graph hold exactly the roads of the file,
\* under the file's ids and at their least costs, in whatever order nodes, ways,
\* problem lines and arcs came, and each array is sorted, with one arc for a pair
\* (graph.go:94-151; ImportOSMXML, ImportDIMACS).
RoadsAreArcs == stage = "built" => HasExactly(graph, Wanted)

\* The assumptions of the searches on a graph of n nodes.
Search(n) == INSTANCE SearchQuery WITH Node <- 1 .. n

\* What the searches assume of their queries holds of every graph an importer
\* builds, for every source and target: positive costs, and lower bounds and a
\* balanced potential that stay consistent when rounded down (graph.go:113-127,
\* acbs.go:554-613, dijkstra.go:68-85).
GraphsMeetSearch ==
  stage = "built" =>
    LET n == Len(graph.nodes)
    IN  \A s, t \in 1 .. n :
          LET q == QueryOn(graph, s, t)
          IN  Search(n)!IsQuery(q) /\ Search(n)!Consistent(q) /\ Search(n)!BoundsConsistent(q)
=============================================================================
