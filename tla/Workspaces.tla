----------------------------- MODULE Workspaces -----------------------------
(***************************************************************************)
(* The pooled search workspaces (workspace.go, pb_workspace.go, catch.go). *)
(* Searches run concurrently and each needs label arrays as long as its    *)
(* graph; instead of allocating them a search takes a workspace out of a   *)
(* sync.Pool, notes the nodes it touches and, when it ends in whatever     *)
(* way, resets just those and puts the workspace back.  ACBS also keeps    *)
(* the potential of a node there once it has been computed, and that value *)
(* belongs to one query only.                                              *)
(*                                                                         *)
(* A record stands for a workspace of one of four kinds: of the            *)
(* single-source and the bidirectional searches, of PB, and the cache in   *)
(* which CATCH keeps its bounds.  Its arrays are functions on              *)
(* 1 .. capacity; the search sees the nodes 1 .. len.  label is dist or    *)
(* df with the parent array written along with it; the backward arrays     *)
(* are treated like the forward ones and are left out.  PB has one list    *)
(* for both, and resets both labels of each node on it, which changes      *)
(* nothing for the one of which the node was not noted.                    *)
(***************************************************************************)
EXTENDS Integers, FiniteSets

CONSTANTS
  Searcher,      \* the goroutines that search
  Algs,          \* the algorithms they are asked for
  Workspace,     \* names for the workspaces alive at a time
  NoWorkspace,
  Queries,       \* records [n, phi, bound]: nodes, potential, lower bounds
  Labels         \* finite labels; a larger one is replaced by a smaller one

inf == -1        \* the label of an unreached node, which no distance equals

ASSUME WorkspaceAssumption ==
  /\ IsFiniteSet(Workspace) /\ NoWorkspace \notin Workspace
  /\ Labels \subseteq Nat
  /\ \A q \in Queries :
       /\ q.n \in Nat \ {0}
       /\ q.phi \in [1 .. q.n -> Int] /\ q.bound \in [1 .. q.n -> Nat]

VARIABLES
  store,   \* store[w]: the workspace of that name
  pool,    \* the workspaces in the pools, told apart by their kind
  run      \* run[s]: the search s is running

wvars == <<store, pool, run>>

\* A CATCH search also holds a workspace of the other bidirectional searches and
\* uses it as they do; here another goroutine stands for that.
Kind(alg) ==
  CASE alg \in {"dijkstra", "astar"} -> "single"
    [] alg = "pb" -> "pb"
    [] alg = "catch" -> "scratch"
    [] OTHER -> "bi"

Blank(kind, n) ==
  [kind |-> kind, capacity |-> n, len |-> n,
   label |-> [v \in 1 .. n |-> inf], settled |-> [v \in 1 .. n |-> FALSE],
   phi |-> [v \in 1 .. n |-> 0], phiKnown |-> [v \in 1 .. n |-> FALSE],
   h |-> [v \in 1 .. n |-> 0], hKnown |-> [v \in 1 .. n |-> FALSE],
   touched |-> {}, touchedPhi |-> {}, queued |-> {}]

NotRunning == [alg |-> "none", query |-> [n |-> 0], id |-> NoWorkspace]

Searching(s) == run[s].id # NoWorkspace
Mine(s) == store[run[s].id]
Nodes(s) == 1 .. run[s].query.n

\* ---------------------------------------------------------------------------
\* Acquire

\* A workspace that is too small gets new arrays, another one is cut to size.
\* What is beyond its length stays as it was.  PB's settled flags are cleared now.
PreparedAsSettled(w, n) ==   \* fault: the flags are left as they were
  IF w.capacity < n THEN Blank(w.kind, n)
  ELSE [w EXCEPT !.len = n, !.touched = {}, !.touchedPhi = {}, !.queued = {}]
Prepared(w, n) ==
  IF w.capacity < n THEN Blank(w.kind, n)
  ELSE [w EXCEPT !.len = n, !.touched = {}, !.touchedPhi = {}, !.queued = {},
                 !.settled = [v \in 1 .. w.capacity |-> @[v] /\ (w.kind = "pb" => v > n)]]

Held == {run[s].id : s \in {t \in Searcher : Searching(t)}}
Unborn == Workspace \ (pool \cup Held)

\* Pool.Get gives a workspace that was put back, or else a new one: the choice
\* is the runtime's, which may also have dropped any that was put back.
Reused(kind) == {w \in pool : store[w].kind = kind}
New == IF Unborn = {} THEN pool ELSE {CHOOSE w \in Unborn : TRUE}

RemainingShared(w) == pool \cup {w}   \* fault: released at once, not deferred
Remaining(w) == pool \ {w}

Acquire(s, alg, q) ==
  /\ ~Searching(s)
  /\ \E w \in Workspace :
       /\ \/ /\ w \in Reused(Kind(alg))
             /\ store' = [store EXCEPT ![w] = Prepared(@, q.n)]
          \/ /\ w \in New
             /\ store' = [store EXCEPT ![w] = Prepared(Blank(Kind(alg), 0), q.n)]
       /\ pool' = Remaining(w)
       /\ run' = [run EXCEPT ![s] = [alg |-> alg, query |-> q, id |-> w]]

\* ---------------------------------------------------------------------------
\* Use

Update(s, w) == store' = [store EXCEPT ![run[s].id] = w] /\ UNCHANGED <<pool, run>>

\* touch is called before the label is written: a node is noted when it leaves inf.
touchLate(w, v) == w                  \* fault: called after the label is written
touch(w, v) ==
  IF w.label[v] = inf THEN [w EXCEPT !.touched = @ \cup {v}] ELSE w

\* A root or an improved head gets a label and a queue entry.
Label(s, v, d) ==
  /\ Searching(s) /\ v \in Nodes(s) /\ Mine(s).kind # "scratch"
  /\ Mine(s).label[v] = inf \/ d < Mine(s).label[v]
  /\ Update(s, [touch(Mine(s), v) EXCEPT !.label[v] = d, !.queued = @ \cup {v}])

\* A pop; the bidirectional searches mark the node settled.
Pop(s, v) ==
  /\ Searching(s) /\ v \in Mine(s).queued
  /\ Update(s, [Mine(s) EXCEPT !.queued = @ \ {v},
                               !.settled[v] = Mine(s).kind # "single" \/ @])

\* The potential of v, computed once and kept.
cachedPhi(w, q, v) ==
  IF w.phiKnown[v] THEN w
  ELSE [w EXCEPT !.phi[v] = q.phi[v], !.phiKnown[v] = TRUE,
                 !.touchedPhi = @ \cup {v}]

potential(s, v) ==
  /\ Searching(s) /\ run[s].alg = "acbs" /\ v \in Nodes(s)
  /\ ~Mine(s).phiKnown[v]
  /\ Update(s, cachedPhi(Mine(s), run[s].query, v))

\* The lower bounds of v, kept likewise.  There is no list of their own: the
\* potential is cached with them so that v is on the list of touched ones.
cachedBoundsAlone(w, q, v) ==         \* fault: the potential is left for later
  [w EXCEPT !.h[v] = q.bound[v], !.hKnown[v] = TRUE]
cachedBounds(w, q, v) ==
  [cachedPhi(w, q, v) EXCEPT !.h[v] = q.bound[v], !.hKnown[v] = TRUE]

heuristicBounds(s, v) ==
  /\ Searching(s) /\ run[s].alg = "acbs" /\ v \in Nodes(s)
  /\ ~Mine(s).hKnown[v]
  /\ Update(s, cachedBounds(Mine(s), run[s].query, v))

\* CATCH's bound of v, which is noted nowhere but in the flag beside it.
est(s, v) ==
  /\ Searching(s) /\ Mine(s).kind = "scratch" /\ v \in Nodes(s)
  /\ ~Mine(s).hKnown[v]
  /\ Update(s, [Mine(s) EXCEPT !.h[v] = run[s].query.bound[v], !.hKnown[v] = TRUE])

\* ---------------------------------------------------------------------------
\* Release

Erase(f, nodes, blank) == [v \in DOMAIN f |-> IF v \in nodes THEN blank ELSE f[v]]

\* The nodes whose bounds are forgotten: the listed ones, or those with the flag.
Bounded(w) == IF w.kind = "scratch" THEN {v \in 1 .. w.len : w.hKnown[v]} ELSE w.touchedPhi

\* What goes back: the touched entries are reset, nothing else is looked at, and
\* PB's settled flags not at all.
Cleaned(w) ==
  [w EXCEPT !.label = Erase(@, w.touched, inf),
            !.settled = Erase(@, IF w.kind = "pb" THEN {} ELSE w.touched, FALSE),
            !.phi = Erase(@, w.touchedPhi, 0),
            !.phiKnown = Erase(@, w.touchedPhi, FALSE),
            !.h = Erase(@, Bounded(w), 0),
            !.hKnown = Erase(@, Bounded(w), FALSE),
            !.touched = {}, !.touchedPhi = {}, !.queued = {}]

\* Deferred, so it happens however the search ends: a route, none, or cancelled.
Release(s) ==
  /\ Searching(s)
  /\ store' = [store EXCEPT ![run[s].id] = Cleaned(@)]
  /\ pool' = pool \cup {run[s].id}
  /\ run' = [run EXCEPT ![s] = NotRunning]

\* ---------------------------------------------------------------------------

WInit ==
  /\ store = [w \in Workspace |-> Blank("none", 0)]
  /\ pool = {}
  /\ run = [s \in Searcher |-> NotRunning]

\* What a search does between acquiring and releasing its workspace.
Use(s) ==
  \E v \in Nodes(s) :
    \/ \E d \in Labels : Label(s, v, d)
    \/ Pop(s, v)
    \/ potential(s, v)
    \/ heuristicBounds(s, v)
    \/ est(s, v)

\* A goroutine serves one query after the other.
Serve(s) ==
  \/ \E alg \in Algs, q \in Queries : Acquire(s, alg, q)
  \/ Searching(s) /\ Use(s)
  \/ Release(s)

WNext == \E s \in Searcher : Serve(s)

WSpec == WInit /\ [][WNext]_wvars

\* ---------------------------------------------------------------------------
\* Properties

\* The names and the shapes: who searches holds a workspace at least as long as
\* its graph, and the lists never name a node beyond it.
WTypeOK ==
  /\ pool \subseteq Workspace
  /\ \A w \in Workspace : LET x == store[w] IN
       /\ x.kind \in {"none", "single", "bi", "pb", "scratch"}
       /\ x.capacity \in Nat /\ x.len \in 0 .. x.capacity
       /\ x.label \in [1 .. x.capacity -> Labels \cup {inf}]
       /\ x.settled \in [1 .. x.capacity -> BOOLEAN]
       /\ x.phi \in [1 .. x.capacity -> Int] /\ x.h \in [1 .. x.capacity -> Int]
       /\ x.phiKnown \in [1 .. x.capacity -> BOOLEAN]
       /\ x.hKnown \in [1 .. x.capacity -> BOOLEAN]
       /\ x.touched \cup x.touchedPhi \cup x.queued \subseteq 1 .. x.len
  /\ \A s \in Searcher :
       \/ run[s] = NotRunning
       \/ run[s].query \in Queries /\ run[s].id \in Workspace

\* Nothing of a query is left in a workspace that is back in the pool, not even
\* beyond the length of the last graph, so the next query starts from scratch
\* though acquire resets no array; but for PB's settled flags, which it does reset
\* (workspace.go:20-53, 70-175, pb_workspace.go:13-56, catch.go:72-101).
CleanInPool ==
  \A w \in pool :
    store[w] = [Blank(store[w].kind, store[w].capacity)
                  EXCEPT !.len = store[w].len,
                         !.settled = IF store[w].kind = "pb" THEN store[w].settled ELSE @]

\* A cached potential or bound is that of the query that reads it, and a node is
\* settled only in a search that has labelled it, whoever used the workspace before
\* and on whatever graph (workspace.go:121-146, pb_workspace.go:37-38, catch.go:42-58).
CachesAreOwn ==
  \A s \in Searcher : Searching(s) =>
    \A v \in Nodes(s) :
      /\ Mine(s).phiKnown[v] => Mine(s).phi[v] = run[s].query.phi[v]
      /\ Mine(s).hKnown[v] => Mine(s).h[v] = run[s].query.bound[v]
      /\ Mine(s).settled[v] => Mine(s).label[v] # inf

\* A workspace in use is in nobody else's hands and in no pool, also while the
\* loser of a race is still searching after the race has returned.
Exclusive ==
  \A s \in Searcher : Searching(s) =>
    /\ run[s].id \notin pool
    /\ \A t \in Searcher \ {s} : run[t].id # run[s].id
=============================================================================
