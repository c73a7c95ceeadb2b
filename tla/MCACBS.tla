------------------------------- MODULE MCACBS -------------------------------
(***************************************************************************)
(* ACBS on two-rail corridors, for each variant of the scheduler.  Eight   *)
(* nodes give up to fourteen pops, enough chunks of one or two pops for    *)
(* the warm-up, the forced alternation and the guard's whole window.       *)
(***************************************************************************)
EXTENDS ACBS, TLC

MCNode == 1 .. 8

\* 1 -> {2, 3} -> {4, 5} -> {6, 7} -> 8, with rungs between the rails.  The arcs
\* of one end may be far longer than those of the other, so that one direction
\* gains more per unit of work, and the upper rail is dearer than the lower one.
Rails == {<<1, 2>>, <<2, 4>>, <<4, 6>>, <<6, 8>>, <<1, 3>>, <<3, 5>>, <<5, 7>>, <<7, 8>>}
Rungs == {<<3, 2>>, <<4, 5>>, <<7, 6>>}

Corridors ==
  {[a \in Rails \cup Rungs |->
      IF a \in Rungs THEN rung[a]
      ELSE (IF a[1] <= 3 THEN ends[1] ELSE ends[2]) + (a[2] % 2)] :
     rung \in [Rungs -> {1, 5}], ends \in {<<3, 3>>, <<1, 9>>, <<9, 1>>, <<2, 4>>}}

\* No geometry, and the nodes on a line.
Potentials ==
  {[toDst |-> [v \in MCNode |-> 0], fromSrc |-> [v \in MCNode |-> 0]],
   [toDst |-> [v \in MCNode |-> 4 - v \div 2], fromSrc |-> [v \in MCNode |-> v \div 2]]}

MCQueries ==
  {q \in {[src |-> e[1], dst |-> e[2], cost |-> c,
           phi |-> [v \in MCNode |-> p.toDst[v] - p.fromSrc[v]],
           toDst |-> p.toDst, fromSrc |-> p.fromSrc, prune |-> FALSE] :
             c \in Corridors, p \in Potentials, e \in {<<1, 8>>, <<8, 1>>, <<4, 4>>}} :
     Consistent(q) /\ BoundsConsistent(q)}

Production ==
  [adaptive |-> TRUE, guard |-> "none", noDeadBand |-> FALSE, noAlternation |-> FALSE,
   instantScore |-> FALSE, fixedBudget |-> FALSE]

\* The published variants (acbs.go:44-117), each one option away from production.
MCOptions ==
  {Production,
   [Production EXCEPT !.adaptive = FALSE],
   [Production EXCEPT !.guard = "bounded"],
   [Production EXCEPT !.guard = "untilUpper"],
   [Production EXCEPT !.noDeadBand = TRUE],
   [Production EXCEPT !.noAlternation = TRUE],
   [Production EXCEPT !.instantScore = TRUE],
   [Production EXCEPT !.fixedBudget = TRUE]}

\* The scheduled search returns, whatever the schedule.
Terminates == <>(pc = "done")
=============================================================================
