----------------------------- MODULE Traveller -----------------------------
(***************************************************************************)
(* The search of CoupledSearch, and a traveller who waits for the answer   *)
(* and then drives through the graph as he likes.  Whatever he drives is   *)
(* a walk, and every walk can be driven: that he never reaches the target  *)
(* for less than the reported distance, nor at all when the search found   *)
(* no route, says that the answer is optimal - without a definition of     *)
(* shortest paths.                                                         *)
(***************************************************************************)
EXTENDS SearchInRange

CONSTANT MaxDriven   \* the traveller's budget: every walk of this cost is driven

ASSUME BudgetAssumption == MaxDriven \in Nat

VARIABLES at,     \* where the traveller is
          driven  \* the cost of the walk so far

tvars == <<vars, at, driven>>

TInit == Init /\ at = query.src /\ driven = 0

Drive ==
  /\ pc = "done"
  /\ \E a \in Arcs :
       /\ a[1] = at /\ driven + query.cost[a] <= MaxDriven
       /\ at' = a[2]
       /\ driven' = driven + query.cost[a]
  /\ UNCHANGED vars

TNext == (Next /\ UNCHANGED <<at, driven>>) \/ Drive

TSpec == TInit /\ [][TNext]_tvars

\* The search keeps running; the traveller may rest for ever.
TFairSpec == TSpec /\ WF_tvars(Work /\ UNCHANGED <<at, driven>>)

Answered == pc = "done" /\ result.status \in {"reachable", "unreachable"}

\* The answer is optimal: a traveller at the target has driven at least the
\* reported distance, and there is none when the target was called unreachable
\* (README.md, "Exact routing": acbs.go:181-195 and 489-511).
NoShortcut ==
  Answered /\ at = query.dst =>
    result.status = "reachable" /\ result.distance <= driven

-----------------------------------------------------------------------------
(* The inductive invariant.                                                *)

\* A call without a search answers with the empty walk.
AnswerShape ==
  ~Started /\ pc = "done" => result.status = "reachable" /\ result.distance = 0

Certified ==
  Started /\ pc \notin {"start", "search"} /\ result # Cancelled => Certificate(at, driven)

TravellerOK ==
  /\ at \in Node /\ driven \in Nat
  /\ pc # "done" => at = query.src /\ driven = 0
  /\ pc \notin {"start", "done"} => Started

TInv == IInv /\ AnswerShape /\ TravellerOK /\ Certified
=============================================================================
