------------------------------- MODULE MCRace -------------------------------
(***************************************************************************)
(* A race and one other caller, over graphs of one and of two nodes.       *)
(***************************************************************************)
EXTENDS Race

\* The two graphs share node 1, with a potential and a bound of its own in each.
MCQueries == {[n |-> 1, phi |-> <<5>>, bound |-> <<7>>],
              [n |-> 2, phi |-> <<3, -3>>, bound |-> <<4, 1>>]}

\* The raced graph is the small one, so that a workspace goes from either size to
\* the other between the racers and the caller.
MCRaceQueries == {q \in MCQueries : q.n = 1}

\* Bound: PB and CATCH, whose pools no other search uses, are served without a race
\* and without other searches, so that the pools do not fill in all combinations.
Apart ==
  (\E w \in Workspace : store[w].kind \in {"pb", "scratch"}) =>
    stage = "idle" /\ \A w \in Workspace : store[w].kind \in {"none", "pb", "scratch"}
=============================================================================
