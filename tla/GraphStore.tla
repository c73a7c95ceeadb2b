----------------------------- MODULE GraphStore -----------------------------
(***************************************************************************)
(* The graph file (binary.go): an import command builds a graph and saves  *)
(* it under a path (main.go:82-140), while another process may load that   *)
(* path.  Save truncates the file and writes it through a buffer; the disk *)
(* may be full at any point of it and the process may be killed.           *)
(*                                                                         *)
(* A file is the sequence of the values written to it.  The four strings   *)
(* of the header count as one.                                             *)
(***************************************************************************)
EXTENDS GraphImport

CONSTANTS
  BufferSize,  \* of the writer and of the reader, in values
  Rooms,       \* how many values fit on the disk
  Saved        \* the graphs the path may hold at the start

ASSUME BufferAssumption == BufferSize \in Nat \ {0} /\ Rooms \subseteq Nat

\* What Finalize has left: finalizing the arcs that leave each node restores it.
IsFinished(g) ==
  /\ g.ok /\ g.nodes \in Seq(ToSet(g.nodes))
  /\ \A v \in DOMAIN g.nodes :
       /\ g.nodes[v] = [id |-> g.nodes[v].id, place |-> g.nodes[v].place]
       /\ OutEdges(g, v) \in Seq([to : DOMAIN g.nodes, cost : Nat \ {0}])
  /\ g = Finalize(g.nodes, [v \in DOMAIN g.nodes |-> OutEdges(g, v)])

ASSUME SavedAssumption == \A g \in Saved : IsFinished(g)

VARIABLES
  file,     \* what the path holds
  room,     \* how many values the disk takes
  todo,     \* what Save has still to hand to the buffer's disk
  verdict,  \* of the import command: "none", "created" or "failed"
  reading,  \* a Load is under way
  got,      \* what it has read
  torn,     \* (history) the file was truncated under it
  loaded    \* what Load returned: a graph, or NoGraph for an error

fvars == <<file, room, todo, verdict, reading, got, torn, loaded>>
gvars == <<ivars, fvars>>

Nothing == [ok |-> FALSE, none |-> TRUE]   \* no Load has returned yet
Mixed == [ok |-> TRUE, mixed |-> TRUE]     \* what parts of two files spell together

\* The edges of a node that are saved.
StoredReverse(g, v) == InEdges(g, v)   \* fault: of the wrong arrays
Stored(g, v) == OutEdges(g, v)

\* The values of a graph's file, in the order of writing.
Values(g) ==
  <<<<"magic">>, <<"text">>, <<"n", Len(g.nodes)>>, <<"m", g.edgeCount>>>>
    \o [v \in DOMAIN g.nodes |-> <<"node", g.nodes[v].id, g.nodes[v].place>>]
    \o FlattenSeq([v \in DOMAIN g.nodes |->
         LET edges == Stored(g, v)
         IN  <<<<"degree", Len(edges)>>>>
               \o [k \in DOMAIN edges |-> <<"edge", edges[k].to, edges[k].cost>>]])

\* ---------------------------------------------------------------------------
\* Save

\* What reaches the disk of a piece that is flushed.
Fits(piece) ==
  LET free == IF room > Len(file) THEN room - Len(file) ELSE 0
  IN  IF Len(piece) <= free THEN piece ELSE SubSeq(piece, 1, free)

\* os.Create empties the file that is there.  The importer's maps are gone.
Create ==
  /\ stage = "built"
  /\ stage' = "saving"
  /\ file' = <<>> /\ todo' = Values(graph)
  /\ torn' = (torn \/ reading)
  /\ count' = 0 /\ places' = <<>> /\ roads' = <<>> /\ size' = 0
  /\ UNCHANGED <<options, graph, room, verdict, reading, got, loaded>>

\* Another value does not fit the buffer, which is written out first.  A write
\* error makes Save return, and the command fail.
Spill ==
  /\ stage = "saving" /\ Len(todo) > BufferSize
  /\ LET piece == SubSeq(todo, 1, BufferSize)
         ok == Fits(piece) = piece
     IN  /\ file' = file \o Fits(piece)
         /\ todo' = IF ok THEN SubSeq(todo, BufferSize + 1, Len(todo)) ELSE <<>>
         /\ stage' = IF ok THEN "saving" ELSE "ended"
         /\ verdict' = IF ok THEN verdict ELSE "failed"
  /\ UNCHANGED <<options, count, places, roads, size, graph, room, reading, got, torn, loaded>>

\* Everything is in the buffer: Save returns nil, and the deferred Flush and Close
\* write the rest, or do not: their errors are dropped.
Finish ==
  /\ stage = "saving" /\ Len(todo) <= BufferSize
  /\ file' = file \o Fits(todo)
  /\ todo' = <<>> /\ stage' = "ended" /\ verdict' = "created"
  /\ UNCHANGED <<options, count, places, roads, size, graph, room, reading, got, torn, loaded>>

\* The process is killed; what is in the buffer is lost.
Kill ==
  /\ stage = "saving"
  /\ stage' = "ended" /\ todo' = <<>>
  /\ UNCHANGED <<options, count, places, roads, size, graph, file, room, verdict,
                 reading, got, torn, loaded>>

\* ---------------------------------------------------------------------------
\* Load

\* The n values from position i on, as long as they last.
Slice(s, i, n) == SubSeq(s, i, IF i + n - 1 <= Len(s) THEN i + n - 1 ELSE Len(s))
Take(s, i, n) == [ok |-> i + n - 1 <= Len(s), vals |-> Slice(s, i, n)]

\* The adjacency lists of the nodes v .. n, from position i on.
Parse(s) ==
  LET n == s[3][2]
      header == Take(s, 5, n)
      \* where the list of node v starts, or 0 when the file ends before
      start[v \in 1 .. n + 1] ==
        IF v = 1 THEN 5 + n
        ELSE IF start[v - 1] = 0 THEN 0
        ELSE LET d == Take(s, start[v - 1], 1)
                 l == Take(s, start[v - 1] + 1, IF d.vals = <<>> THEN 0 ELSE d.vals[1][2])
             IN  IF d.ok /\ l.ok THEN start[v - 1] + 1 + Len(l.vals) ELSE 0
      list(v) == [k \in 1 .. start[v + 1] - start[v] - 1 |->
                    LET e == s[start[v] + k] IN [to |-> e[2], cost |-> e[3]]]
  IN  IF Len(s) < 4 THEN NoGraph
      ELSE IF ~header.ok \/ start[n + 1] = 0 THEN NoGraph
      ELSE LET g == Finalize([v \in 1 .. n |-> [id |-> s[4 + v][2], place |-> s[4 + v][3]]],
                             [v \in 1 .. n |-> list(v)])
           IN  IF g.ok /\ g.edgeCount = s[4][2] THEN g ELSE NoGraph

Open ==
  /\ ~reading /\ loaded = Nothing
  /\ reading' = TRUE /\ got' = <<>> /\ torn' = FALSE
  /\ UNCHANGED <<ivars, file, room, todo, verdict, loaded>>

\* The buffer is filled from where it stopped, until the file has no more.
Fetch ==
  /\ reading /\ Len(got) < Len(file)
  /\ got' = got \o Slice(file, Len(got) + 1, BufferSize)
  /\ UNCHANGED <<ivars, file, room, todo, verdict, reading, torn, loaded>>

Return ==
  /\ reading /\ Len(got) >= Len(file)
  /\ reading' = FALSE /\ got' = <<>>
  /\ loaded' = IF torn THEN Mixed ELSE Parse(got)
  /\ UNCHANGED <<ivars, file, room, todo, verdict, torn>>

\* ---------------------------------------------------------------------------

StoreInit(setups) ==
  /\ ImportInit(setups)
  /\ file \in {<<>>} \cup {Values(g) : g \in Saved}
  /\ room \in Rooms
  /\ todo = <<>> /\ verdict = "none"
  /\ reading = FALSE /\ got = <<>> /\ torn = FALSE /\ loaded = Nothing

StoreNext(origin) ==
  \/ Import(origin) /\ UNCHANGED fvars
  \/ Create \/ Spill \/ Finish \/ Kill
  \/ Open \/ Fetch \/ Return

\* The import of files under one of the given options.
StoreSpec(setups, origin) == StoreInit(setups) /\ [][StoreNext(origin)]_gvars

\* ---------------------------------------------------------------------------
\* Properties

\* A Load that nobody overtook returns an error or a graph that was saved, with
\* the arrays of both directions: no prefix of a file loads, at whatever value the
\* disk was full or the process killed, and Save and Load agree (binary.go:13-147).
LoadedWasSaved ==
  loaded.ok /\ ~torn => loaded \in Saved \cup {graph}

\* A graph whose creation was reported can be loaded as long as the file is left
\* alone (graph_test.go:25-31; main.go:112-115).
CreatedLoads == verdict = "created" => Parse(file) = graph
=============================================================================
