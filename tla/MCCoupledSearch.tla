-------------------------- MODULE MCCoupledSearch --------------------------
(***************************************************************************)
(* CoupledSearch on every graph over a small skeleton of arcs, with each   *)
(* consistent potential out of a small set.                                *)
(***************************************************************************)
EXTENDS CoupledSearch, TLC

MCNode == 1 .. 4

\* Two ways from 1 to 4 that share a crossing in the middle: the cheapest route
\* may use either side, the crossing in either sense, or not exist at all.
Ladder == {<<1, 2>>, <<1, 3>>, <<2, 3>>, <<3, 2>>, <<2, 4>>, <<3, 4>>}

Graphs(skeleton, costs) == UNION {[A -> costs] : A \in SUBSET skeleton}

\* Lower bounds to the target and from the source, as the geometry would give
\* them: none at all, the nodes on a line, and a skewed placement.
Bounds ==
  {[toDst |-> <<0, 0, 0, 0>>, fromSrc |-> <<0, 0, 0, 0>>],
   [toDst |-> <<2, 1, 1, 0>>, fromSrc |-> <<0, 1, 1, 2>>],
   [toDst |-> <<3, 3, 1, 0>>, fromSrc |-> <<0, 0, 2, 3>>]}

\* Steeper ones, for the long arcs below.
SteepBounds ==
  {[toDst |-> <<8, 4, 4, 0>>, fromSrc |-> <<0, 4, 4, 8>>],
   [toDst |-> <<6, 3, 6, 0>>, fromSrc |-> <<0, 0, 0, 0>>],
   [toDst |-> <<0, 0, 0, 0>>, fromSrc |-> <<0, 6, 3, 6>>]}

QueriesOver(graphs, ends, bounds, prune) ==
  {q \in {[src |-> e[1], dst |-> e[2], cost |-> c,
           phi |-> [v \in MCNode |-> b.toDst[v] - b.fromSrc[v]],
           toDst |-> b.toDst, fromSrc |-> b.fromSrc, prune |-> p] :
             e \in ends, c \in graphs, b \in bounds, p \in prune} :
     Consistent(q) /\ BoundsConsistent(q)}

\* Every graph on the ladder, and one query that is answered without a search.
LadderQueries ==
  QueriesOver(Graphs(Ladder, {1, 3}), {<<1, 4>>}, Bounds, {FALSE})
    \cup QueriesOver({[a \in Ladder |-> 1]}, {<<2, 2>>}, Bounds, {FALSE})

\* Arcs so long that a key leaves the word of 15 although the distances fit it,
\* with the pruning ablation and without, the ladder once more with it, and a query
\* that is answered without a search.
LongQueries ==
  QueriesOver(Graphs(Ladder, {1, 6}), {<<1, 4>>}, Bounds \cup SteepBounds, BOOLEAN)
    \cup QueriesOver(Graphs(Ladder, {1, 3}), {<<1, 4>>}, Bounds, {TRUE})
    \cup QueriesOver({[a \in Ladder |-> 1]}, {<<2, 2>>}, Bounds, BOOLEAN)

\* AnswersExactly of the finished call alone, for every distance that fits the word:
\* a key that had to be clamped (acbs.go:881-920) costs work, never exactness.
AnswersDespiteClamping ==
  pc = "done" /\ Oracle!Distance(query) < inf => Oracle!Correct(query, result)

\* Every call that is not starved returns.
Terminates == <>(pc = "done")
=============================================================================
