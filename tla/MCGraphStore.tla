---------------------------- MODULE MCGraphStore ----------------------------
(***************************************************************************)
(* Short OSM and DIMACS files over four places, saved to a path that may   *)
(* hold a graph already.                                                   *)
(***************************************************************************)
EXTENDS GraphStore

\* Three places on a line and one beside it; the metric is that of a chess king.
MCPlace == {<<0, 0>>, <<2, 0>>, <<5, 0>>, <<2, 3>>}
Abs(x) == IF x < 0 THEN -x ELSE x
MCMeters(p, q) == Max({Abs(p[1] - q[1]), Abs(p[2] - q[2])})
Origin == <<0, 0>>

Street == [highway |-> "residential", closed |-> FALSE, forbids |-> {}, maxspeed |-> 0,
           oneway |-> "", roundabout |-> FALSE, onewayFoot |-> "no", onewayBicycle |-> ""]

Way(refs, tags) == [kind |-> "way", refs |-> refs, tags |-> tags]
Point(id, place) == [kind |-> "node", id |-> id, place |-> place]

\* Nodes that ways refer to, one moved by a later element, and one that only
\* shares a place; streets in either sense, fast, slow, closed, and too short.
MCElements ==
  {Point(1, <<0, 0>>), Point(2, <<2, 0>>), Point(3, <<2, 3>>), Point(3, <<2, 0>>),
   Way(<<1, 2, 3>>, Street), Way(<<3, 2, 1>>, [Street EXCEPT !.oneway = "yes"]),
   Way(<<1, 3, 1>>, [Street EXCEPT !.highway = "motorway", !.oneway = "-1"]),
   Way(<<2, 1, 9>>, [Street EXCEPT !.maxspeed = 7, !.roundabout = TRUE, !.onewayBicycle = "no"]),
   [kind |-> "p", n |-> 3], [kind |-> "p", n |-> 2],
   [kind |-> "a", arc |-> <<1, 2, 7>>], [kind |-> "a", arc |-> <<1, 2, 5>>],
   [kind |-> "a", arc |-> <<3, 1, 4>>], [kind |-> "a", arc |-> <<2, 2, 1>>],
   [kind |-> "malformed"]}

MCSetups ==
  {[format |-> "osm", profile |-> p, metric |-> "time"] : p \in {"car", "bike", "walk"}}
    \cup {[format |-> "osm", profile |-> "car", metric |-> "distance"],
          [format |-> "dimacs", profile |-> "road", metric |-> "distance"]}

MCSaved ==
  {Finalize(<<[id |-> 1, place |-> <<0, 0>>], [id |-> 2, place |-> <<5, 0>>]>>,
            <<<<[to |-> 2, cost |-> 9]>>, <<>>>>)}

\* StoreSpec(MCSetups, Origin), in parts.
Init == StoreInit(MCSetups)
Next == StoreNext(Origin)
Spec == Init /\ [][Next]_gvars
=============================================================================
