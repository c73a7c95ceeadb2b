------------------------------ MODULE SearchRun ------------------------------
(***************************************************************************)
(* What the tools of internal/bench see of a search: a result or an error  *)
(* (a timeout, a cancellation).  The tools exist because a result might be *)
(* wrong, so any outcome is possible here: valid is what Validate says of  *)
(* the path, ns the time that has passed.                                  *)
(***************************************************************************)
EXTENDS Integers, Sequences

Result == [ok : BOOLEAN, reachable : BOOLEAN, distance : Nat, valid : BOOLEAN, ns : Nat]

\* The zero Result, beside an error.
ResultZero == [ok |-> FALSE, reachable |-> FALSE, distance |-> 0, valid |-> TRUE, ns |-> 0]

VARIABLE cfg   \* the configuration of the tool, and the outcomes of its searches

\* The same answer: both find no route, or routes of one length.
Agrees(r, expected) ==
  r.reachable = expected.reachable /\ (expected.reachable => r.distance = expected.distance)

\* Run measures at least one nanosecond, even where the clock is coarse.
Measured(ns) == IF ns < 1 THEN 1 ELSE ns

\* The i-th rotation of a list.
Rotated(list, i) ==
  [k \in DOMAIN list |-> list[((k - 1 + i) % Len(list)) + 1]]
=============================================================================
