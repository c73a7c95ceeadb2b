---------------------------- MODULE MCBaselines ----------------------------
(***************************************************************************)
(* The baselines on the graphs of MCCoupledSearch.                         *)
(***************************************************************************)
EXTENDS MCCoupledSearch, Dispatch

\* A large road graph with travel times, on a route of medium length.
Road == [alg |-> "aegis-portfolio", small |-> FALSE, perMeter |-> TRUE, diameter |-> TRUE,
         strength |-> 25, time |-> TRUE, ratio |-> 43]

\* Every search by name, A* without geometry too, and the portfolio on graphs
\* next to each of its thresholds.
LadderCalls ==
  {[Road EXCEPT !.alg = a] : a \in Baseline \cup Single}
    \cup {[Road EXCEPT !.alg = "astar", !.perMeter = FALSE]}
    \cup {Road, [Road EXCEPT !.small = TRUE], [Road EXCEPT !.ratio = 44],
          [Road EXCEPT !.time = FALSE, !.strength = 17],
          [Road EXCEPT !.time = FALSE, !.strength = 18],
          [Road EXCEPT !.strength = 4, !.ratio = 20], [Road EXCEPT !.diameter = FALSE]}

\* For the heap: every node leads to all later ones, at costs that keep several
\* entries of a node in the queue.
FanQueries ==
  QueriesOver([{a \in MCNode \X MCNode : a[1] < a[2]} -> {1, 4, 8}], {<<1, 4>>},
              {b \in Bounds : b.toDst[1] <= 2}, {FALSE})

AllQueries == LadderQueries \cup FanQueries

MCCalls(q) ==
  IF DOMAIN q.cost \subseteq Ladder THEN LadderCalls
  ELSE {[Road EXCEPT !.alg = a] : a \in Single}

\* Multi-bound alone.
MCBoundCalls(q) == {[Road EXCEPT !.alg = a] : a \in Reduced}

\* No key of these queries leaves the word of 100: the instance that is proved exact.
ASSUME BoundAssumption == \A q \in AllQueries : BoundedBy(q, 8, 6)
=============================================================================
