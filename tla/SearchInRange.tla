--------------------------- MODULE SearchInRange ---------------------------
(***************************************************************************)
(* CoupledSearch as the production variants run it - without the pruning   *)
(* ablation - on queries whose keys fit the word, and the inductive        *)
(* invariant from which its properties follow.                             *)
(***************************************************************************)
EXTENDS CoupledSearch

CONSTANTS MaxCost,  \* no arc costs more
          MaxPhi    \* no two potentials differ by more

MaxLabel == MaxCost * Cardinality(Node)

InRange(q) ==
  /\ \A a \in DOMAIN q.cost : q.cost[a] <= MaxCost
  /\ \A u, v \in Node : q.phi[u] - q.phi[v] <= MaxPhi
  /\ ~q.prune

ASSUME RangeAssumption ==
  /\ MaxCost \in Nat /\ MaxPhi \in Nat
  /\ 4 * MaxLabel + 3 * MaxPhi < MaxUint64
  /\ \A q \in Queries : InRange(q)

\* A label on the scale of the keys, before any clamping.
Reduced(d, v) == 2 * dist[d][v] + Shift(d, v)

\* The largest label the search can have written so far.
Cap(d) == MaxCost * Cardinality(settled[d])

Labelled(d) == {v \in Node : dist[d][v] # inf}

Started == pc # "start" /\ query.src # query.dst

\* Nothing has happened before Begin, nor after AnswerTrivial.
Idle ==
  ~Started =>
    /\ pc \in {"start", "done"}
    /\ \A d \in Dir : Labelled(d) = {} /\ settled[d] = {}
    /\ best = inf /\ meet = NoNode /\ bestReduced = inf
    /\ scan = {}

RootsLabelled == Started => \A d \in Dir : dist[d][Root(d)] = 0

LabelsBounded ==
  \A d \in Dir :
    /\ settled[d] \subseteq Labelled(d)
    /\ \A v \in Labelled(d) : dist[d][v] <= Cap(d) /\ Reduced(d, v) >= 0

SettledFirst ==
  \A d \in Dir : \A u \in settled[d], v \in Open(d) : Reduced(d, u) <= Reduced(d, v)

\* The node being scanned is the last one settled, and its label is one arc
\* short of the bound.
ScanOK ==
  scan # {} =>
    /\ pc = "search"
    /\ cur \in settled[dir]
    /\ dist[dir][cur] + MaxCost <= Cap(dir)
    /\ \A u \in settled[dir] : Reduced(dir, u) <= Reduced(dir, cur)

\* Every edge of a settled node has been relaxed, or is about to be.
EdgesRelaxed ==
  \A d \in Dir : \A a \in Arcs :
    From(d, a) \in settled[d] =>
      \/ d = dir /\ a \in scan
      \/ dist[d][To(d, a)] <= dist[d][From(d, a)] + query.cost[a]

\* A call that has returned an answer was entitled to: a heap is empty, or the
\* coupled bound has reached the incumbent.
Stopped ==
  \/ Exhausted
  \/ \E f \in Front("F"), b \in Front("B") : BoundReached(f, b)

AnswerOK ==
  /\ pc # "done" => result = Pending
  /\ Started /\ pc \notin {"start", "search"} /\ result # Cancelled =>
       Stopped /\ scan = {}

\* The path p goes through the meeting node along arcs of the graph; each arc
\* accounts for the difference of the forward labels of its ends before the
\* meeting node, and of the backward labels after it, so that the costs
\* telescope to the incumbent.
Spelled(p) ==
  \E k \in 1 .. Len(p) :
    /\ p[k] = meet
    /\ \A i \in 1 .. Len(p) - 1 :
         /\ <<p[i], p[i + 1]>> \in Arcs
         /\ IF i < k
            THEN dist["F"][p[i + 1]] = dist["F"][p[i]] + query.cost[<<p[i], p[i + 1]>>]
            ELSE dist["B"][p[i]] = dist["B"][p[i + 1]] + query.cost[<<p[i], p[i + 1]>>]

\* The walk only stands on labelled nodes, and the answer it ends in is the
\* incumbent.
PathOK ==
  /\ pc \in {"left", "right"} =>
       /\ best # inf /\ path # <<>> /\ Spelled(path)
       /\ path[1] \in Labelled("F") /\ path[Len(path)] \in Labelled("B")
  /\ pc = "right" => path[1] = query.src
  /\ pc = "done" /\ result.status = "unreachable" => best = inf
  /\ pc = "done" /\ result.status = "reachable" /\ Started =>
       /\ best # inf /\ result.distance = best
       /\ result.path # <<>> /\ Spelled(result.path)
       /\ result.path[1] = query.src /\ result.path[Len(result.path)] = query.dst

InRangeNow == InRange(query)

IInv ==
  /\ TypeOK /\ InRangeNow /\ Idle /\ RootsLabelled /\ LabelsBounded
  /\ SettledFirst /\ ScanOK /\ EdgesRelaxed /\ IncumbentTight /\ ParentsTight
  /\ AnswerOK /\ PathOK
-----------------------------------------------------------------------------
(* Dual certificates, one for each way the loop ends: lower bounds for     *)
(* every walk from the source that no arc can break.  They speak of a walk *)
(* of cost c that has come to v.                                           *)

\* The walk on the scale of the keys.
Walked(v, c) == 2 * c + Shift("F", v)

\* While f and b are the fronts, the walk has not come past them for less than they
\* or the incumbent say.
FrontCertificate(f, b, v, c) ==
  /\ v \in settled["F"] => Reduced("F", v) <= Walked(v, c)
  /\ v \notin settled["F"] => Reduced("F", f) <= Walked(v, c)
  /\ v \notin settled["F"] /\ v \in Labelled("B") =>
       \/ Reduced("F", f) + Reduced("B", b) <= Walked(v, c) + Reduced("B", v)
       \/ best # inf /\ bestReduced <= Walked(v, c) + Reduced("B", v)

ForwardCertificate(v, c) ==
  Open("F") = {} /\ v \in settled["F"] /\ dist["F"][v] <= c

BackwardCertificate(v, c) ==
  /\ Open("B") = {}
  /\ v \in settled["B"] =>
       query.src \in settled["B"] /\ dist["B"][query.src] <= c + dist["B"][v]

Certificate(v, c) ==
  \/ \E f \in Front("F"), b \in Front("B") : BoundReached(f, b) /\ FrontCertificate(f, b, v, c)
  \/ ForwardCertificate(v, c)
  \/ BackwardCertificate(v, c)
=============================================================================
