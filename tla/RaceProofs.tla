----------------------------- MODULE RaceProofs -----------------------------
(***************************************************************************)
(* The pooled workspaces and the race portfolio, which searches in two of  *)
(* them at once.                                                           *)
(*                                                                         *)
(* Isolation holds for any number of goroutines, any queries on graphs of  *)
(* any size and any choice of the pool: a workspace is clean when it is    *)
(* handed out, nobody else holds it, and what is cached in it belongs to   *)
(* the query of its holder.  For the race, for any other callers: the      *)
(* reply is an answer whenever one of the searches has one, the            *)
(* cancellation among the two never shows, and the loser that goes on      *)
(* searching disturbs nobody's workspace.                                  *)
(***************************************************************************)
EXTENDS Race, TLAPS

-----------------------------------------------------------------------------
(* The workspaces                                                          *)

Kinds == {"none", "single", "bi", "pb", "scratch"}
AllAlgs == Algs \cup {"none", "bidijkstra", "astar", "dijkstra"}

\* The workspaces of capacity n.
OfCapacity(n) ==
  [kind : Kinds, capacity : {n}, len : 0 .. n,
   label : [1 .. n -> Labels \cup {inf}], settled : [1 .. n -> BOOLEAN],
   phi : [1 .. n -> Int], phiKnown : [1 .. n -> BOOLEAN],
   h : [1 .. n -> Int], hKnown : [1 .. n -> BOOLEAN],
   touched : SUBSET (1 .. n), touchedPhi : SUBSET (1 .. n), queued : SUBSET (1 .. n)]

\* What the lists do not name is as in a new workspace, but for PB's settled flags.
Tidy(x) ==
  /\ x.touched \cup x.touchedPhi \subseteq 1 .. x.len
  /\ x.queued \subseteq x.touched
  /\ \A v \in 1 .. x.capacity : x.label[v] = inf <=> v \notin x.touched
  /\ \A v \in 1 .. x.capacity : v \notin x.touched /\ x.kind # "pb" => x.settled[v] = FALSE
  /\ \A v \in 1 .. x.capacity : v \notin x.touchedPhi => x.phi[v] = 0 /\ x.phiKnown[v] = FALSE
  /\ \A v \in 1 .. x.capacity : v \notin Bounded(x) => x.h[v] = 0 /\ x.hKnown[v] = FALSE

Sound(x) == x.capacity \in Nat /\ x \in OfCapacity(x.capacity) /\ Tidy(x)

Empty(x) == x.touched = {} /\ x.touchedPhi = {} /\ x.queued = {} /\ Bounded(x) = {}

\* x may serve q: it is cut to the graph and holds nothing of another query.
Serves(x, q) ==
  /\ x.len = q.n
  /\ \A v \in 1 .. q.n :
       /\ x.phiKnown[v] => x.phi[v] = q.phi[v]
       /\ x.hKnown[v] => x.h[v] = q.bound[v]
       /\ v \notin x.touched => x.settled[v] = FALSE

Runs == [alg : AllAlgs, query : Queries, id : Workspace]

\* CleanInPool is not inductive: that a release leaves nothing behind needs the
\* lists of the workspaces in use to be complete.
IInv ==
  /\ store \in [Workspace -> UNION {OfCapacity(n) : n \in Nat}]
  /\ pool \subseteq Workspace
  /\ run \in [Searcher -> Runs \cup {NotRunning}]
  /\ \A w \in Workspace : Sound(store[w])
  /\ \A w \in pool : Empty(store[w])
  /\ \A s \in Searcher : Searching(s) => Serves(Mine(s), run[s].query)
  /\ Exclusive

-----------------------------------------------------------------------------
(* What each operation does to one workspace.                              *)

LEMMA SoundType ==
  ASSUME NEW x, Sound(x)
  PROVE  x \in UNION {OfCapacity(n) : n \in Nat}
BY DEF Sound

\* New arrays are tidy.
LEMMA BlankSound ==
  ASSUME NEW kind \in Kinds, NEW n \in Nat
  PROVE  /\ Sound(Blank(kind, n)) /\ Empty(Blank(kind, n))
         /\ Blank(kind, n).kind = kind /\ Blank(kind, n).capacity = n
         /\ Blank(kind, n).len = n
BY DEF Sound, OfCapacity, Tidy, Empty, Blank, inf, Bounded

\* A workspace without notes serves any query once it is cut or regrown.
LEMMA PreparedServes ==
  ASSUME NEW x, Sound(x), Empty(x), NEW q \in Queries
  PROVE  Sound(Prepared(x, q.n)) /\ Serves(Prepared(x, q.n), q)
<1>1. q.n \in Nat \ {0}  BY WorkspaceAssumption
<1>2. CASE x.capacity < q.n
  <2>1. x.kind \in Kinds  BY DEF Sound, OfCapacity
  <2>2. Prepared(x, q.n) = Blank(x.kind, q.n)  BY <1>2 DEF Prepared
  <2>3. Sound(Blank(x.kind, q.n))  BY <2>1, <1>1, BlankSound
  <2>4. Serves(Blank(x.kind, q.n), q)  BY <1>1 DEF Serves, Blank
  <2> QED  BY <2>2, <2>3, <2>4
<1>3. CASE ~(x.capacity < q.n)
  <2> DEFINE set == [v \in 1 .. x.capacity |-> x.settled[v] /\ (x.kind = "pb" => v > q.n)]
             y == [x EXCEPT !.len = q.n, !.touched = {}, !.touchedPhi = {},
                            !.queued = {}, !.settled = set]
  <2>1. Prepared(x, q.n) = y  BY <1>3 DEF Prepared
  <2>2. q.n \in 0 .. x.capacity  BY <1>1, <1>3 DEF Sound
  <2>3. /\ set \in [1 .. x.capacity -> BOOLEAN]
        /\ \A v \in 1 .. x.capacity : set[v] => x.settled[v] /\ (x.kind = "pb" => v > q.n)
    BY DEF Sound, OfCapacity
  <2> HIDE DEF set
  <2>4. /\ y \in OfCapacity(x.capacity) /\ y.capacity = x.capacity
        /\ y.kind = x.kind /\ y.len = q.n /\ y.label = x.label /\ y.settled = set
        /\ y.touched = {} /\ y.touchedPhi = {} /\ y.queued = {}
        /\ y.phi = x.phi /\ y.phiKnown = x.phiKnown /\ y.h = x.h /\ y.hKnown = x.hKnown
    BY <2>2, <2>3 DEF Sound, OfCapacity
  <2> HIDE DEF y
  <2>5. \A v \in 1 .. x.capacity : x.hKnown[v] = FALSE
    BY DEF Sound, Tidy, Empty
  <2>6. Bounded(y) = {}
    BY <2>2, <2>4, <2>5 DEF Bounded, Sound
  <2>7. Tidy(y)
    BY <2>3, <2>4, <2>6 DEF Sound, Tidy, Empty
  <2>8. Serves(y, q)
    BY <2>2, <2>3, <2>4, <2>5 DEF Sound, Tidy, Empty, Serves
  <2> QED  BY <2>1, <2>4, <2>7, <2>8 DEF Sound
<1> QED  BY <1>2, <1>3

\* The note precedes the label.
LEMMA LabelSound ==
  ASSUME NEW x, Sound(x), NEW v \in 1 .. x.len, NEW d \in Labels,
         NEW q, Serves(x, q)
  PROVE  LET y == [touch(x, v) EXCEPT !.label[v] = d, !.queued = @ \cup {v}]
         IN  Sound(y) /\ Serves(y, q)
<1> DEFINE t == touch(x, v)
           y == [t EXCEPT !.label[v] = d, !.queued = @ \cup {v}]
<1>1. v \in 1 .. x.capacity  BY DEF Sound, OfCapacity
<1>2. /\ t \in OfCapacity(x.capacity) /\ t.capacity = x.capacity
      /\ t.touched = x.touched \cup {v}
      /\ t.label = x.label /\ t.queued = x.queued /\ t.len = x.len
      /\ t.settled = x.settled /\ t.touchedPhi = x.touchedPhi
      /\ t.phi = x.phi /\ t.phiKnown = x.phiKnown
      /\ t.h = x.h /\ t.hKnown = x.hKnown /\ t.kind = x.kind
  <2>1. CASE x.label[v] = inf  BY <1>1, <2>1 DEF Sound, OfCapacity, touch
  <2>2. CASE x.label[v] # inf
    <3>1. v \in x.touched  BY <1>1, <2>2 DEF Sound, Tidy
    <3>2. t = x  BY <2>2 DEF touch
    <3> QED  BY <3>1, <3>2 DEF Sound
  <2> QED  BY <2>1, <2>2
<1> HIDE DEF t
<1>3. /\ y \in OfCapacity(x.capacity) /\ y.capacity = x.capacity
      /\ y.touched = t.touched /\ y.label = [t.label EXCEPT ![v] = d]
      /\ y.queued = t.queued \cup {v} /\ y.len = t.len
      /\ y.settled = t.settled /\ y.touchedPhi = t.touchedPhi
      /\ y.phi = t.phi /\ y.phiKnown = t.phiKnown
      /\ y.h = t.h /\ y.hKnown = t.hKnown /\ y.kind = t.kind
  BY <1>1, <1>2 DEF OfCapacity
<1> HIDE DEF y
<1>4. d # inf  BY WorkspaceAssumption DEF inf
<1>5. Bounded(y) = Bounded(x)  BY <1>2, <1>3 DEF Bounded
<1>6. Tidy(y)  BY <1>1, <1>2, <1>3, <1>4, <1>5 DEF Sound, OfCapacity, Tidy
<1>7. Serves(y, q)  BY <1>2, <1>3 DEF Serves
<1>8. Sound(y)  BY <1>3, <1>6 DEF Sound
<1> QED  BY <1>7, <1>8 DEF y, t

\* Only noted nodes are queued, so only noted nodes are settled.
LEMMA PopSound ==
  ASSUME NEW x, Sound(x), NEW v \in x.queued, NEW b \in BOOLEAN,
         NEW q, Serves(x, q)
  PROVE  LET y == [x EXCEPT !.queued = @ \ {v}, !.settled[v] = b]
         IN  Sound(y) /\ Serves(y, q)
<1> DEFINE y == [x EXCEPT !.queued = @ \ {v}, !.settled[v] = b]
<1>1. v \in x.touched /\ v \in 1 .. x.capacity  BY DEF Sound, OfCapacity, Tidy
<1>2. /\ y \in OfCapacity(x.capacity) /\ y.capacity = x.capacity
      /\ y.queued = x.queued \ {v} /\ y.settled = [x.settled EXCEPT ![v] = b]
      /\ y.touched = x.touched /\ y.label = x.label /\ y.len = x.len
      /\ y.touchedPhi = x.touchedPhi /\ y.phi = x.phi /\ y.phiKnown = x.phiKnown
      /\ y.h = x.h /\ y.hKnown = x.hKnown /\ y.kind = x.kind
  BY <1>1 DEF Sound, OfCapacity
<1> HIDE DEF y
<1>3. Bounded(y) = Bounded(x)  BY <1>2 DEF Bounded
<1>4. Tidy(y)  BY <1>1, <1>2, <1>3 DEF Sound, OfCapacity, Tidy
<1>5. Serves(y, q)  BY <1>1, <1>2 DEF Sound, OfCapacity, Serves
<1>6. Sound(y)  BY <1>2, <1>4 DEF Sound
<1> QED  BY <1>5, <1>6 DEF y

\* Caching a potential notes the node.
LEMMA CachedPhiSound ==
  ASSUME NEW x, Sound(x), NEW q \in Queries, Serves(x, q), NEW v \in 1 .. q.n
  PROVE  LET y == cachedPhi(x, q, v)
         IN  /\ Sound(y) /\ Serves(y, q)
             /\ v \in y.touchedPhi /\ y.capacity = x.capacity /\ y.len = x.len
<1>1. v \in 1 .. x.capacity /\ v \in 1 .. x.len
  BY DEF Sound, OfCapacity, Serves
<1>2. q.phi[v] \in Int  BY WorkspaceAssumption
<1>3. CASE x.phiKnown[v]
  <2>1. v \in x.touchedPhi  BY <1>1, <1>3 DEF Sound, Tidy
  <2> QED  BY <1>3, <2>1 DEF cachedPhi
<1>4. CASE ~x.phiKnown[v]
  <2> DEFINE y == [x EXCEPT !.phi[v] = q.phi[v], !.phiKnown[v] = TRUE,
                            !.touchedPhi = @ \cup {v}]
  <2>1. cachedPhi(x, q, v) = y  BY <1>4 DEF cachedPhi
  <2>2. /\ y \in OfCapacity(x.capacity) /\ y.capacity = x.capacity
        /\ y.phi = [x.phi EXCEPT ![v] = q.phi[v]]
        /\ y.phiKnown = [x.phiKnown EXCEPT ![v] = TRUE]
        /\ y.touchedPhi = x.touchedPhi \cup {v}
        /\ y.touched = x.touched /\ y.queued = x.queued /\ y.label = x.label
        /\ y.settled = x.settled /\ y.len = x.len
        /\ y.h = x.h /\ y.hKnown = x.hKnown /\ y.kind = x.kind
    BY <1>1, <1>2 DEF Sound, OfCapacity
  <2> HIDE DEF y
  <2>3. Bounded(x) \subseteq Bounded(y)  BY <2>2 DEF Bounded
  <2>4. Tidy(y)  BY <1>1, <2>2, <2>3 DEF Sound, OfCapacity, Tidy
  <2>5. Serves(y, q)  BY <1>1, <2>2 DEF Sound, OfCapacity, Serves
  <2>6. Sound(y)  BY <2>2, <2>4 DEF Sound
  <2> QED  BY <2>1, <2>2, <2>5, <2>6
<1> QED  BY <1>3, <1>4

\* Bounds are only cached beside a potential, so their node is noted too.
LEMMA CachedBoundsSound ==
  ASSUME NEW x, Sound(x), NEW q \in Queries, Serves(x, q), NEW v \in 1 .. q.n
  PROVE  LET y == cachedBounds(x, q, v) IN Sound(y) /\ Serves(y, q)
<1> DEFINE p == cachedPhi(x, q, v)
           y == [p EXCEPT !.h[v] = q.bound[v], !.hKnown[v] = TRUE]
<1>1. /\ Sound(p) /\ Serves(p, q) /\ v \in p.touchedPhi
      /\ p.capacity = x.capacity /\ p.len = x.len
  BY CachedPhiSound
<1>2. q.bound[v] \in Int  BY WorkspaceAssumption
<1> HIDE DEF p
<1>3. v \in 1 .. p.capacity  BY <1>1 DEF Sound, OfCapacity
<1>4. /\ y \in OfCapacity(p.capacity) /\ y.capacity = p.capacity
      /\ y.h = [p.h EXCEPT ![v] = q.bound[v]]
      /\ y.hKnown = [p.hKnown EXCEPT ![v] = TRUE]
      /\ y.touched = p.touched /\ y.queued = p.queued /\ y.label = p.label
      /\ y.settled = p.settled /\ y.len = p.len /\ y.touchedPhi = p.touchedPhi
      /\ y.phi = p.phi /\ y.phiKnown = p.phiKnown /\ y.kind = p.kind
  BY <1>1, <1>2, <1>3 DEF Sound, OfCapacity
<1> HIDE DEF y
<1>5. v \in 1 .. y.len  BY <1>1, <1>4 DEF Serves
<1>6. Bounded(p) \cup {v} \subseteq Bounded(y)
  BY <1>1, <1>3, <1>4, <1>5 DEF Bounded, Sound, OfCapacity
<1>7. Tidy(y)  BY <1>1, <1>3, <1>4, <1>6 DEF Sound, OfCapacity, Tidy
<1>8. Serves(y, q)  BY <1>1, <1>3, <1>4 DEF Sound, OfCapacity, Serves
<1>9. Sound(y)  BY <1>1, <1>4, <1>7 DEF Sound
<1> QED  BY <1>8, <1>9 DEF cachedBounds, y, p

\* CATCH's bounds need no note: their flags are all looked at.
LEMMA EstSound ==
  ASSUME NEW x, Sound(x), x.kind = "scratch", NEW q \in Queries, Serves(x, q), NEW v \in 1 .. q.n
  PROVE  LET y == [x EXCEPT !.h[v] = q.bound[v], !.hKnown[v] = TRUE]
         IN  Sound(y) /\ Serves(y, q)
<1> DEFINE y == [x EXCEPT !.h[v] = q.bound[v], !.hKnown[v] = TRUE]
<1>1. v \in 1 .. x.capacity /\ v \in 1 .. x.len
  BY DEF Sound, OfCapacity, Serves
<1>2. q.bound[v] \in Int  BY WorkspaceAssumption
<1>3. /\ y \in OfCapacity(x.capacity) /\ y.capacity = x.capacity
      /\ y.h = [x.h EXCEPT ![v] = q.bound[v]]
      /\ y.hKnown = [x.hKnown EXCEPT ![v] = TRUE]
      /\ y.touched = x.touched /\ y.queued = x.queued /\ y.label = x.label
      /\ y.settled = x.settled /\ y.len = x.len /\ y.touchedPhi = x.touchedPhi
      /\ y.phi = x.phi /\ y.phiKnown = x.phiKnown /\ y.kind = x.kind
  BY <1>1, <1>2 DEF Sound, OfCapacity
<1> HIDE DEF y
<1>4. /\ x.hKnown \in [1 .. x.capacity -> BOOLEAN] /\ x.h \in [1 .. x.capacity -> Int]
      /\ x.len \in 0 .. x.capacity /\ x.capacity \in Nat
  BY DEF Sound, OfCapacity
<1>5. Bounded(x) \cup {v} \subseteq Bounded(y)
  BY <1>1, <1>3, <1>4 DEF Bounded
<1>6. Tidy(y)  BY <1>1, <1>3, <1>4, <1>5 DEF Sound, Tidy
<1>7. Serves(y, q)  BY <1>1, <1>3, <1>4 DEF Serves
<1>8. Sound(y)  BY <1>3, <1>6 DEF Sound
<1> QED  BY <1>7, <1>8 DEF y

\* A release resets all that the lists name, hence everything.
LEMMA CleanedSound ==
  ASSUME NEW x, Sound(x)
  PROVE  Sound(Cleaned(x)) /\ Empty(Cleaned(x))
<1> DEFINE n == x.capacity
           y == Cleaned(x)
           lab == Erase(x.label, x.touched, inf)
           set == Erase(x.settled, IF x.kind = "pb" THEN {} ELSE x.touched, FALSE)
           ph == Erase(x.phi, x.touchedPhi, 0)
           hh == Erase(x.h, Bounded(x), 0)
           pk == Erase(x.phiKnown, x.touchedPhi, FALSE)
           hk == Erase(x.hKnown, Bounded(x), FALSE)
<1>1. /\ n \in Nat /\ x \in OfCapacity(n)
      /\ x.label \in [1 .. n -> Labels \cup {inf}]
      /\ x.settled \in [1 .. n -> BOOLEAN]
      /\ x.phi \in [1 .. n -> Int] /\ x.h \in [1 .. n -> Int]
      /\ x.phiKnown \in [1 .. n -> BOOLEAN] /\ x.hKnown \in [1 .. n -> BOOLEAN]
  BY DEF Sound, OfCapacity
<1>2. /\ lab \in [1 .. n -> Labels \cup {inf}]
      /\ \A v \in 1 .. n : lab[v] = IF v \in x.touched THEN inf ELSE x.label[v]
  BY <1>1 DEF Erase
<1>3. /\ set \in [1 .. n -> BOOLEAN]
      /\ x.kind # "pb" =>
           \A v \in 1 .. n : set[v] = IF v \in x.touched THEN FALSE ELSE x.settled[v]
  BY <1>1 DEF Erase
<1>4. /\ ph \in [1 .. n -> Int]
      /\ \A v \in 1 .. n : ph[v] = IF v \in x.touchedPhi THEN 0 ELSE x.phi[v]
  BY <1>1 DEF Erase
<1>5. /\ hh \in [1 .. n -> Int]
      /\ \A v \in 1 .. n : hh[v] = IF v \in Bounded(x) THEN 0 ELSE x.h[v]
  BY <1>1 DEF Erase
<1>6. /\ pk \in [1 .. n -> BOOLEAN]
      /\ \A v \in 1 .. n : pk[v] = IF v \in x.touchedPhi THEN FALSE ELSE x.phiKnown[v]
  BY <1>1 DEF Erase
<1>7. /\ hk \in [1 .. n -> BOOLEAN]
      /\ \A v \in 1 .. n : hk[v] = IF v \in Bounded(x) THEN FALSE ELSE x.hKnown[v]
  BY <1>1 DEF Erase
<1>8. y = [x EXCEPT !.label = lab, !.settled = set, !.phi = ph, !.h = hh,
                    !.phiKnown = pk, !.hKnown = hk,
                    !.touched = {}, !.touchedPhi = {}, !.queued = {}]
  BY DEF Cleaned
<1> HIDE DEF lab, set, ph, hh, pk, hk, y
<1>9. /\ y \in OfCapacity(n) /\ y.capacity = n
      /\ y.label = lab /\ y.settled = set /\ y.phi = ph /\ y.h = hh
      /\ y.phiKnown = pk /\ y.hKnown = hk
      /\ y.touched = {} /\ y.touchedPhi = {} /\ y.queued = {} /\ y.len = x.len
      /\ y.kind = x.kind
  BY <1>1, <1>2, <1>3, <1>4, <1>5, <1>6, <1>7, <1>8 DEF OfCapacity
<1>10. ASSUME NEW v \in 1 .. n
       PROVE  y.label[v] = inf /\ (y.kind # "pb" => y.settled[v] = FALSE)
  <2>1. v \notin x.touched =>
          x.label[v] = inf /\ (x.kind # "pb" => x.settled[v] = FALSE)
    BY DEF Sound, Tidy
  <2>2. y.label[v] = inf  BY <1>2, <1>9, <2>1
  <2>3. y.kind # "pb" => y.settled[v] = FALSE  BY <1>3, <1>9, <2>1
  <2> QED  BY <2>2, <2>3
<1>11. ASSUME NEW v \in 1 .. n
       PROVE  /\ y.phi[v] = 0 /\ y.h[v] = 0
              /\ y.phiKnown[v] = FALSE /\ y.hKnown[v] = FALSE
  <2>1. y.phi[v] = 0 /\ y.phiKnown[v] = FALSE
    <3>1. v \notin x.touchedPhi => x.phi[v] = 0 /\ x.phiKnown[v] = FALSE  BY DEF Sound, Tidy
    <3> QED  BY <1>4, <1>6, <1>9, <3>1
  <2>2. CASE v \in Bounded(x)
    BY <1>5, <1>7, <1>9, <2>1, <2>2
  <2>3. CASE v \notin Bounded(x)
    <3>1. x.h[v] = 0 /\ x.hKnown[v] = FALSE
      BY <2>3 DEF Sound, Tidy
    <3> QED  BY <1>5, <1>7, <1>9, <2>1, <2>3, <3>1
  <2> QED  BY <2>2, <2>3
<1>12. Bounded(y) = {}
  <2>1. y.len \in 0 .. n /\ n \in Nat  BY <1>1, <1>9 DEF OfCapacity
  <2>2. 1 .. y.len \subseteq 1 .. n  BY <2>1
  <2>3. \A v \in 1 .. y.len : y.hKnown[v] = FALSE  BY <1>11, <2>2
  <2> QED  BY <1>9, <2>3 DEF Bounded
<1>13. Tidy(y)  BY <1>9, <1>10, <1>11 DEF Tidy
<1> QED  BY <1>1, <1>9, <1>13, <1>12 DEF Sound, Empty, y

-----------------------------------------------------------------------------
(* The actions.                                                            *)

\* A holder's workspace is a workspace, its query a query.
LEMMA Holding ==
  ASSUME IInv, NEW s \in Searcher, Searching(s)
  PROVE  /\ run[s] \in Runs /\ run[s].id \in Workspace /\ run[s].query \in Queries
         /\ run[s].id \notin pool
         /\ Sound(Mine(s)) /\ Serves(Mine(s), run[s].query)
         /\ Mine(s).len = run[s].query.n
<1>1. run[s] # NotRunning  BY DEF Searching, NotRunning
<1>2. run[s] \in Runs  BY <1>1 DEF IInv
<1>3. run[s].id \in Workspace /\ run[s].query \in Queries  BY <1>2 DEF Runs
<1> QED  BY <1>2, <1>3 DEF IInv, Exclusive, Mine, Serves

\* Who holds nothing is not running.
LEMMA NotHolding ==
  ASSUME IInv, NEW s \in Searcher, ~Searching(s)
  PROVE  run[s] = NotRunning
<1>1. ASSUME run[s] \in Runs PROVE FALSE
  BY <1>1, WorkspaceAssumption DEF Searching, Runs
<1> QED  BY <1>1 DEF IInv

\* A step inside a search that leaves its workspace sound and serving its query.
LEMMA UpdateStep ==
  ASSUME IInv, NEW s \in Searcher, Searching(s), NEW x,
         Sound(x), Serves(x, run[s].query), Update(s, x)
  PROVE  IInv'
<1>1. /\ run[s].id \in Workspace /\ run[s].id \notin pool  BY Holding
<1>2. /\ store' = [store EXCEPT ![run[s].id] = x]
      /\ pool' = pool /\ run' = run
  BY DEF Update
<1>3. store' \in [Workspace -> UNION {OfCapacity(n) : n \in Nat}]
  BY <1>1, <1>2, SoundType DEF IInv
<1>4. \A w \in Workspace : store'[w] = IF w = run[s].id THEN x ELSE store[w]
  BY <1>1, <1>2 DEF IInv
<1>5. \A w \in Workspace : Sound(store'[w])  BY <1>4 DEF IInv
<1>6. \A w \in pool' : Empty(store'[w])  BY <1>1, <1>2, <1>4 DEF IInv
<1>7. ASSUME NEW t \in Searcher, Searching(t)'
      PROVE  Serves(Mine(t)', run[t].query')
  <2>1. Searching(t)  BY <1>2, <1>7 DEF Searching
  <2>2. run[t].id \in Workspace /\ Serves(Mine(t), run[t].query)  BY <2>1, Holding
  <2>3. Mine(t)' = store'[run[t].id]  BY <1>2 DEF Mine
  <2>4. CASE t = s  BY <1>1, <1>2, <1>4, <2>3, <2>4
  <2>5. CASE t # s
    <3>1. run[t].id # run[s].id  BY <2>1, <2>5 DEF IInv, Exclusive
    <3>2. Mine(t)' = Mine(t)  BY <1>4, <2>2, <2>3, <3>1 DEF Mine
    <3> QED  BY <1>2, <2>2, <3>2
  <2> QED  BY <2>4, <2>5
<1>8. Exclusive'  BY <1>2 DEF IInv, Exclusive, Searching
<1>9. /\ pool' \subseteq Workspace
      /\ run' \in [Searcher -> Runs \cup {NotRunning}]
  BY <1>2 DEF IInv
<1> QED  BY <1>3, <1>5, <1>6, <1>7, <1>8, <1>9 DEF IInv

\* What a search does with its workspace keeps the invariant.
LEMMA UseStep ==
  ASSUME IInv, NEW s \in Searcher, Searching(s), Use(s)
  PROVE  IInv'
<1> DEFINE x == Mine(s)
           q == run[s].query
<1>1. /\ q \in Queries /\ Sound(x) /\ Serves(x, q) /\ x.len = q.n  BY Holding
<1>2. PICK v \in Nodes(s) : \/ \E d \in Labels : Label(s, v, d)
                            \/ Pop(s, v)
                            \/ potential(s, v)
                            \/ heuristicBounds(s, v)
                            \/ est(s, v)
  BY DEF Use
<1>3. v \in 1 .. q.n /\ v \in 1 .. x.len  BY <1>1, <1>2 DEF Nodes
<1>4. CASE \E d \in Labels : Label(s, v, d)
  <2>1. PICK d \in Labels : Label(s, v, d)  BY <1>4
  <2> DEFINE y == [touch(x, v) EXCEPT !.label[v] = d, !.queued = @ \cup {v}]
  <2>2. Update(s, y)  BY <2>1 DEF Label
  <2>3. Sound(y) /\ Serves(y, q)  BY <1>1, <1>3, LabelSound
  <2> HIDE DEF y
  <2> QED  BY <2>2, <2>3, UpdateStep
<1>5. CASE Pop(s, v)
  <2> DEFINE b == x.kind # "single" \/ x.settled[v]
             y == [x EXCEPT !.queued = @ \ {v}, !.settled[v] = b]
  <2>1. v \in x.queued  BY <1>5 DEF Pop
  <2>2. Update(s, y)  BY <1>5 DEF Pop
  <2>3. b \in BOOLEAN  OBVIOUS
  <2> HIDE DEF b
  <2>4. Sound(y) /\ Serves(y, q)  BY <1>1, <2>1, <2>3, PopSound
  <2> HIDE DEF y
  <2> QED  BY <2>2, <2>4, UpdateStep
<1>6. CASE potential(s, v)
  <2>1. Update(s, cachedPhi(x, q, v))  BY <1>6 DEF potential
  <2>2. Sound(cachedPhi(x, q, v)) /\ Serves(cachedPhi(x, q, v), q)
    BY <1>1, <1>3, CachedPhiSound
  <2> QED  BY <2>1, <2>2, UpdateStep
<1>7. CASE heuristicBounds(s, v)
  <2>1. Update(s, cachedBounds(x, q, v))  BY <1>7 DEF heuristicBounds
  <2>2. Sound(cachedBounds(x, q, v)) /\ Serves(cachedBounds(x, q, v), q)
    BY <1>1, <1>3, CachedBoundsSound
  <2> QED  BY <2>1, <2>2, UpdateStep
<1>8. CASE est(s, v)
  <2> DEFINE y == [x EXCEPT !.h[v] = q.bound[v], !.hKnown[v] = TRUE]
  <2>1. Update(s, y) /\ x.kind = "scratch"  BY <1>8 DEF est
  <2>2. Sound(y) /\ Serves(y, q)  BY <1>1, <1>3, <2>1, EstSound
  <2> HIDE DEF y
  <2> QED  BY <2>1, <2>2, UpdateStep
<1> QED  BY <1>2, <1>4, <1>5, <1>6, <1>7, <1>8

\* A release puts a clean workspace back.
LEMMA ReleaseStep ==
  ASSUME IInv, NEW s \in Searcher, Release(s)
  PROVE  IInv'
<1> DEFINE i == run[s].id
<1>1. Searching(s) /\ i \in Workspace  BY Holding DEF Release
<1>2. /\ store' = [store EXCEPT ![i] = Cleaned(Mine(s))]
      /\ pool' = pool \cup {i}
      /\ run' = [run EXCEPT ![s] = NotRunning]
  BY DEF Release, Mine
<1>3. Sound(Cleaned(Mine(s))) /\ Empty(Cleaned(Mine(s)))
  BY <1>1, Holding, CleanedSound
<1>4. store' \in [Workspace -> UNION {OfCapacity(n) : n \in Nat}]
  BY <1>1, <1>2, <1>3, SoundType DEF IInv
<1>5. \A w \in Workspace : store'[w] = IF w = i THEN Cleaned(Mine(s)) ELSE store[w]
  BY <1>1, <1>2 DEF IInv
<1>6. /\ run' \in [Searcher -> Runs \cup {NotRunning}]
      /\ \A t \in Searcher : run'[t] = IF t = s THEN NotRunning ELSE run[t]
  BY <1>2 DEF IInv
<1>7. ASSUME NEW t \in Searcher, Searching(t)'
      PROVE  /\ t # s /\ Searching(t) /\ run'[t] = run[t]
             /\ run[t].id # i /\ run[t].id \notin pool /\ run[t].id \in Workspace
             /\ Mine(t)' = Mine(t) /\ Serves(Mine(t), run[t].query)
  <2>1. t # s  BY <1>6, <1>7 DEF Searching, NotRunning
  <2>2. Searching(t) /\ run'[t] = run[t]  BY <1>6, <1>7, <2>1 DEF Searching
  <2>3. run[t].id # i  BY <1>1, <2>1, <2>2 DEF IInv, Exclusive
  <2>4. run[t].id \notin pool /\ run[t].id \in Workspace
        /\ Serves(Mine(t), run[t].query)
    BY <2>2, Holding
  <2>5. Mine(t)' = Mine(t)  BY <1>5, <2>2, <2>3, <2>4 DEF Mine
  <2> QED  BY <2>1, <2>2, <2>3, <2>4, <2>5
<1>8. \A w \in Workspace : Sound(store'[w])  BY <1>3, <1>5 DEF IInv
<1>9. \A w \in pool' : Empty(store'[w])  BY <1>1, <1>2, <1>3, <1>5 DEF IInv
<1>10. \A t \in Searcher : Searching(t)' => Serves(Mine(t)', run'[t].query)
  BY <1>7
<1>11. Exclusive'
  <2>1. ASSUME NEW t \in Searcher, Searching(t)'
        PROVE  /\ run'[t].id \notin pool'
               /\ \A u \in Searcher \ {t} : run'[u].id # run'[t].id
    <3>1. run'[t].id \notin pool'  BY <1>2, <1>7, <2>1
    <3>2. ASSUME NEW u \in Searcher \ {t} PROVE run'[u].id # run'[t].id
      <4>1. CASE u = s
        BY <1>6, <1>7, <2>1, <4>1, WorkspaceAssumption DEF NotRunning
      <4>2. CASE u # s
        BY <1>6, <1>7, <2>1, <4>2 DEF IInv, Exclusive
      <4> QED  BY <4>1, <4>2
    <3> QED  BY <3>1, <3>2
  <2> QED  BY <2>1 DEF Exclusive
<1>12. pool' \subseteq Workspace  BY <1>1, <1>2 DEF IInv
<1> QED  BY <1>4, <1>6, <1>8, <1>9, <1>10, <1>11, <1>12 DEF IInv

\* A workspace that is handed out is clean, and nobody has it.
LEMMA AcquireStep ==
  ASSUME IInv, NEW s \in Searcher, NEW alg \in AllAlgs, NEW q \in Queries,
         Acquire(s, alg, q)
  PROVE  IInv'
<1>1. ~Searching(s)  BY DEF Acquire
<1>2. PICK w \in Workspace :
        /\ \/ /\ w \in Reused(Kind(alg))
              /\ store' = [store EXCEPT ![w] = Prepared(@, q.n)]
           \/ /\ w \in New
              /\ store' = [store EXCEPT ![w] = Prepared(Blank(Kind(alg), 0), q.n)]
        /\ pool' = Remaining(w)
        /\ run' = [run EXCEPT ![s] = [alg |-> alg, query |-> q, id |-> w]]
  BY DEF Acquire
<1>3. \A t \in Searcher : Searching(t) => run[t].id # w
  <2>1. CASE w \in pool  BY <2>1 DEF IInv, Exclusive
  <2>2. CASE w \notin pool
    <3>1. w \in New  BY <1>2, <2>2 DEF Reused
    <3>2. w \in Unborn  BY <2>2, <3>1 DEF New
    <3> QED  BY <3>2 DEF Unborn, Held
  <2> QED  BY <2>1, <2>2
<1>4. PICK x : /\ store' = [store EXCEPT ![w] = x]
               /\ Sound(x) /\ Serves(x, q)
  <2>1. CASE /\ w \in Reused(Kind(alg))
             /\ store' = [store EXCEPT ![w] = Prepared(@, q.n)]
    <3>1. Sound(store[w]) /\ Empty(store[w])  BY <2>1 DEF Reused, IInv
    <3> QED  BY <2>1, <3>1, PreparedServes
  <2>2. CASE store' = [store EXCEPT ![w] = Prepared(Blank(Kind(alg), 0), q.n)]
    <3>1. Kind(alg) \in Kinds  BY DEF Kind, Kinds
    <3>2. Sound(Blank(Kind(alg), 0)) /\ Empty(Blank(Kind(alg), 0))
      BY <3>1, BlankSound
    <3> QED  BY <2>2, <3>2, PreparedServes
  <2> QED  BY <1>2, <2>1, <2>2
<1>5. store' \in [Workspace -> UNION {OfCapacity(n) : n \in Nat}]
  BY <1>4, SoundType DEF IInv
<1>6. \A u \in Workspace : store'[u] = IF u = w THEN x ELSE store[u]
  BY <1>4 DEF IInv
<1>7. [alg |-> alg, query |-> q, id |-> w] \in Runs  BY DEF Runs
<1>8. /\ run' \in [Searcher -> Runs \cup {NotRunning}]
      /\ \A t \in Searcher :
           run'[t] = IF t = s THEN [alg |-> alg, query |-> q, id |-> w] ELSE run[t]
  BY <1>2, <1>7 DEF IInv
<1>9. pool' = pool \ {w}  BY <1>2 DEF Remaining
<1>10. \A u \in Workspace : Sound(store'[u])  BY <1>4, <1>6 DEF IInv
<1>11. \A u \in pool' : Empty(store'[u])  BY <1>6, <1>9 DEF IInv
<1>12. ASSUME NEW t \in Searcher, t # s, Searching(t)'
       PROVE  /\ Searching(t) /\ run'[t] = run[t] /\ run[t].id # w
              /\ run[t].id \notin pool /\ Mine(t)' = Mine(t)
              /\ Serves(Mine(t), run[t].query)
  <2>1. run'[t] = run[t]  BY <1>8, <1>12
  <2>2. Searching(t)  BY <1>12, <2>1 DEF Searching
  <2>3. run[t].id # w  BY <1>3, <2>2
  <2>4. run[t].id \in Workspace /\ run[t].id \notin pool
        /\ Serves(Mine(t), run[t].query)
    BY <2>2, Holding
  <2>5. Mine(t)' = Mine(t)  BY <1>6, <2>1, <2>3, <2>4 DEF Mine
  <2> QED  BY <2>1, <2>2, <2>3, <2>4, <2>5
<1>13. \A t \in Searcher : Searching(t)' => Serves(Mine(t)', run'[t].query)
  <2>1. Mine(s)' = x /\ run'[s].query = q  BY <1>6, <1>8 DEF Mine
  <2> QED  BY <1>4, <1>12, <2>1
<1>14. Exclusive'
  <2>1. ASSUME NEW t \in Searcher, Searching(t)'
        PROVE  /\ run'[t].id \notin pool'
               /\ \A u \in Searcher \ {t} : run'[u].id # run'[t].id
    <3>1. CASE t = s
      <4>1. run'[t].id = w  BY <1>8, <3>1
      <4>2. ASSUME NEW u \in Searcher \ {t} PROVE run'[u].id # w
        <5>1. run'[u] = run[u]  BY <1>8, <3>1
        <5>2. CASE Searching(u)  BY <1>3, <5>1, <5>2
        <5>3. CASE ~Searching(u)
          BY <5>1, <5>3, WorkspaceAssumption DEF Searching
        <5> QED  BY <5>2, <5>3
      <4> QED  BY <1>9, <4>1, <4>2
    <3>2. CASE t # s
      <4>1. run'[t].id \notin pool'  BY <1>9, <1>12, <2>1, <3>2
      <4>2. ASSUME NEW u \in Searcher \ {t} PROVE run'[u].id # run'[t].id
        <5>1. CASE u = s  BY <1>8, <1>12, <2>1, <3>2, <5>1
        <5>2. CASE u # s  BY <1>8, <1>12, <2>1, <3>2, <5>2 DEF IInv, Exclusive
        <5> QED  BY <5>1, <5>2
      <4> QED  BY <4>1, <4>2
    <3> QED  BY <3>1, <3>2
  <2> QED  BY <2>1 DEF Exclusive
<1>15. pool' \subseteq Workspace  BY <1>9 DEF IInv
<1> QED  BY <1>5, <1>8, <1>10, <1>11, <1>13, <1>14, <1>15 DEF IInv

-----------------------------------------------------------------------------
(* The theorems.                                                           *)

\* Before the first search nothing is held and nothing pooled.
LEMMA InitIInv == WInit => IInv
<1> SUFFICES ASSUME WInit PROVE IInv  OBVIOUS
<1>1. \A w \in Workspace : store[w] = Blank("none", 0)  BY DEF WInit
<1>2. Sound(Blank("none", 0))  BY BlankSound DEF Kinds
<1>3. store \in [Workspace -> UNION {OfCapacity(n) : n \in Nat}]
  BY <1>2, SoundType DEF WInit
<1>4. \A s \in Searcher : run[s] = NotRunning /\ ~Searching(s)
  BY DEF WInit, Searching, NotRunning
<1> QED  BY <1>1, <1>2, <1>3, <1>4 DEF IInv, WInit, Exclusive

\* Every step of every goroutine keeps the invariant.
LEMMA NextIInv == IInv /\ [WNext]_wvars => IInv'
<1> SUFFICES ASSUME IInv, [WNext]_wvars PROVE IInv'  OBVIOUS
<1>1. CASE UNCHANGED wvars
  BY <1>1 DEF wvars, IInv, Exclusive, Searching, Mine
<1>2. CASE WNext
  <2>1. PICK s \in Searcher : Serve(s)  BY <1>2 DEF WNext
  <2>2. CASE \E alg \in Algs, q \in Queries : Acquire(s, alg, q)
    BY <2>2, AcquireStep DEF AllAlgs
  <2>3. CASE Searching(s) /\ Use(s)  BY <2>3, UseStep
  <2>4. CASE Release(s)  BY <2>4, ReleaseStep
  <2> QED  BY <2>1, <2>2, <2>3, <2>4 DEF Serve
<1> QED  BY <1>1, <1>2

\* The invariant of the pools.
THEOREM Isolation == WSpec => []IInv
BY InitIInv, NextIInv, PTL DEF WSpec

\* Type correctness: the lists stay within the graph, the arrays within their
\* capacity, and who searches has a workspace (workspace.go:20-53, 70-175).
THEOREM WorkspacesTypeCorrect == WSpec => []WTypeOK
<1>1. ASSUME IInv PROVE WTypeOK
  <2>1. ASSUME NEW w \in Workspace
        PROVE  LET x == store[w] IN
               /\ x.kind \in {"none", "single", "bi", "pb", "scratch"}
               /\ x.capacity \in Nat /\ x.len \in 0 .. x.capacity
               /\ x.label \in [1 .. x.capacity -> Labels \cup {inf}]
               /\ x.settled \in [1 .. x.capacity -> BOOLEAN]
               /\ x.phi \in [1 .. x.capacity -> Int] /\ x.h \in [1 .. x.capacity -> Int]
               /\ x.phiKnown \in [1 .. x.capacity -> BOOLEAN]
               /\ x.hKnown \in [1 .. x.capacity -> BOOLEAN]
               /\ x.touched \cup x.touchedPhi \cup x.queued \subseteq 1 .. x.len
    <3> DEFINE x == store[w]
    <3>1. Sound(x)  BY <1>1 DEF IInv
    <3> HIDE DEF x
    <3>2. x.touched \cup x.touchedPhi \cup x.queued \subseteq 1 .. x.len
      BY <3>1 DEF Sound, Tidy
    <3>3. /\ x.capacity \in Nat /\ x.kind \in Kinds /\ x.len \in 0 .. x.capacity
          /\ x.label \in [1 .. x.capacity -> Labels \cup {inf}]
          /\ x.settled \in [1 .. x.capacity -> BOOLEAN]
          /\ x.phi \in [1 .. x.capacity -> Int] /\ x.h \in [1 .. x.capacity -> Int]
          /\ x.phiKnown \in [1 .. x.capacity -> BOOLEAN]
          /\ x.hKnown \in [1 .. x.capacity -> BOOLEAN]
      BY <3>1 DEF Sound, OfCapacity
    <3> QED  BY <3>2, <3>3 DEF x, Kinds
  <2>2. ASSUME NEW s \in Searcher
        PROVE  \/ run[s] = NotRunning
               \/ run[s].query \in Queries /\ run[s].id \in Workspace
    BY <1>1 DEF IInv, Runs
  <2>3. pool \subseteq Workspace  BY <1>1 DEF IInv
  <2> QED  BY <2>1, <2>2, <2>3 DEF WTypeOK
<1>2. IInv => WTypeOK  BY <1>1
<1> QED  BY <1>2, Isolation, PTL

LEMMA InvariantCleansPool == IInv => CleanInPool
<1> DEFINE Settled(x) == IF x.kind = "pb" THEN x.settled ELSE [v \in 1 .. x.capacity |-> FALSE]
<1> SUFFICES ASSUME IInv, NEW w \in pool
             PROVE  store[w] = [Blank(store[w].kind, store[w].capacity)
                                  EXCEPT !.len = store[w].len, !.settled = Settled(store[w])]
  BY DEF CleanInPool, Blank
<1> DEFINE x == store[w]
<1>1. Sound(x) /\ Empty(x)  BY DEF IInv
<1> HIDE DEF x
<1>2. /\ x.label = [v \in 1 .. x.capacity |-> inf]
      /\ x.kind # "pb" => x.settled = [v \in 1 .. x.capacity |-> FALSE]
      /\ x.phi = [v \in 1 .. x.capacity |-> 0]
      /\ x.phiKnown = [v \in 1 .. x.capacity |-> FALSE]
      /\ x.h = [v \in 1 .. x.capacity |-> 0]
      /\ x.hKnown = [v \in 1 .. x.capacity |-> FALSE]
  BY <1>1 DEF Sound, OfCapacity, Tidy, Empty
<1>3. x = [kind |-> x.kind, capacity |-> x.capacity, len |-> x.len,
           label |-> x.label, settled |-> x.settled,
           phi |-> x.phi, phiKnown |-> x.phiKnown, h |-> x.h, hKnown |-> x.hKnown,
           touched |-> x.touched, touchedPhi |-> x.touchedPhi, queued |-> x.queued]
  BY <1>1 DEF Sound, OfCapacity
<1> DEFINE none == [v \in 1 .. x.capacity |-> FALSE]
<1>4. Blank(x.kind, x.capacity) =
        [kind |-> x.kind, capacity |-> x.capacity, len |-> x.capacity,
         label |-> x.label, settled |-> none,
         phi |-> x.phi, phiKnown |-> x.phiKnown, h |-> x.h, hKnown |-> x.hKnown,
         touched |-> {}, touchedPhi |-> {}, queued |-> {}]
  BY <1>2, Zenon DEF Blank
<1>5. Settled(x) = x.settled
  BY <1>2
<1> HIDE DEF none, Settled
<1>6. [Blank(x.kind, x.capacity) EXCEPT !.len = x.len, !.settled = x.settled] =
        [kind |-> x.kind, capacity |-> x.capacity, len |-> x.len,
         label |-> x.label, settled |-> x.settled,
         phi |-> x.phi, phiKnown |-> x.phiKnown, h |-> x.h, hKnown |-> x.hKnown,
         touched |-> {}, touchedPhi |-> {}, queued |-> {}]
  <2> DEFINE b == Blank(x.kind, x.capacity)
             c == [b EXCEPT !.len = x.len]
  <2>1. c = [kind |-> x.kind, capacity |-> x.capacity, len |-> x.len,
             label |-> x.label, settled |-> none,
             phi |-> x.phi, phiKnown |-> x.phiKnown, h |-> x.h, hKnown |-> x.hKnown,
             touched |-> {}, touchedPhi |-> {}, queued |-> {}]
    BY <1>4, SMT
  <2>2. [c EXCEPT !.settled = x.settled] =
          [kind |-> x.kind, capacity |-> x.capacity, len |-> x.len,
           label |-> x.label, settled |-> x.settled,
           phi |-> x.phi, phiKnown |-> x.phiKnown, h |-> x.h, hKnown |-> x.hKnown,
           touched |-> {}, touchedPhi |-> {}, queued |-> {}]
    <3> HIDE DEF c
    <3> QED  BY <2>1, SMT
  <2> QED  BY <2>2
<1>7. x = [Blank(x.kind, x.capacity) EXCEPT !.len = x.len, !.settled = Settled(x)]
  BY <1>1, <1>3, <1>6, <1>5 DEF Empty
<1> QED  BY <1>7 DEF x

\* Whatever searches ran on whatever graphs, and in whatever order they ended, a
\* pooled workspace is as good as new (workspace.go:44-53, 148-175).
THEOREM AlwaysCleanInPool == WSpec => []CleanInPool
<1>1. IInv => CleanInPool
  BY InvariantCleansPool
<1> QED  BY <1>1, Isolation, PTL

\* What a search finds is its own: its workspace serves it.
LEMMA InvariantKeepsOwn == IInv => CachesAreOwn
<1> SUFFICES ASSUME IInv, NEW s \in Searcher, Searching(s), NEW v \in Nodes(s)
             PROVE  /\ Mine(s).phiKnown[v] => Mine(s).phi[v] = run[s].query.phi[v]
                    /\ Mine(s).hKnown[v] => Mine(s).h[v] = run[s].query.bound[v]
                    /\ Mine(s).settled[v] => Mine(s).label[v] # inf
  BY DEF CachesAreOwn
<1> DEFINE x == Mine(s)
<1>1. Sound(x) /\ Serves(x, run[s].query)  BY Holding
<1>2. v \in 1 .. run[s].query.n  BY DEF Nodes
<1> HIDE DEF x
<1>3. v \in 1 .. x.capacity  BY <1>1, <1>2 DEF Sound, OfCapacity, Serves
<1>4. /\ x.phiKnown[v] => x.phi[v] = run[s].query.phi[v]
      /\ x.hKnown[v] => x.h[v] = run[s].query.bound[v]
      /\ x.settled[v] => x.label[v] # inf
  BY <1>1, <1>2, <1>3 DEF Sound, Tidy, Serves
<1> QED  BY <1>4 DEF x

\* A search reads potentials and bounds of its own query only, and finds no node
\* settled by another, though caches and flags outlive it (workspace.go:121-146,
\* pb_workspace.go:37-38, catch.go:42-58).
THEOREM CachesAlwaysOwn == WSpec => []CachesAreOwn
<1>1. IInv => CachesAreOwn
  BY InvariantKeepsOwn
<1> QED  BY <1>1, Isolation, PTL

\* No two searches ever work on one workspace.
THEOREM AlwaysExclusive == WSpec => []Exclusive
<1>1. IInv => Exclusive  BY DEF IInv
<1> QED  BY <1>1, Isolation, PTL

-----------------------------------------------------------------------------
(* The race                                                                *)

Stages == {"idle", "first", "second", "returned"}
States == {"none", "spawned", "running", "sending", "ended"}

RTypes ==
  /\ stage \in Stages
  /\ goroutine \in [Racers -> States]
  /\ outcome \in [Racers -> {"none", "ok", "error"}]
  /\ ch \in Seq(Racers)
  /\ \A a \in Racers : outcome[a] # "none" <=> goroutine[a] \in {"sending", "ended"}

\* Before race is called it has spawned nothing.
Idle == stage = "idle" => \A a \in Racers : goroutine[a] = "none"

\* The channel holds every racer at most once, and only one that has sent.
Channel ==
  /\ \A k \in 1 .. Len(ch) : goroutine[ch[k]] = "ended"
  /\ \A j, k \in 1 .. Len(ch) : ch[j] = ch[k] => j = k

\* The error that is kept back came from a racer that sends no more.
KeptBack ==
  stage = "second" =>
    \E b \in Racers :
      /\ goroutine[b] = "ended" /\ outcome[b] = "error"
      /\ \A k \in 1 .. Len(ch) : ch[k] # b

\* Until race returns, nobody but the caller has cancelled anything.
Private ==
  stage # "returned" =>
    /\ cancelled => callerGone
    /\ \A a \in Racers : outcome[a] = "error" => callerGone

\* ReplyIsAnAnswer is not inductive: that the second error is another racer's needs
\* what the channel still holds, and that an error means the caller has gone needs
\* who may have cancelled.
RInv ==
  RTypes /\ Idle /\ Channel /\ KeptBack /\ Private /\ ReplyIsAnAnswer /\ ErrorOnlyIfCallerGone

LEMMA RInit == Init => RInv
BY DEF Init, RInv, RTypes, Idle, Channel, KeptBack, Private, ReplyIsAnAnswer, ErrorOnlyIfCallerGone,
       Stages, States

LEMMA CallKeeps == RInv /\ Call => RInv'
BY DEF RInv, Call, RTypes, Idle, Channel, KeptBack, Private, ReplyIsAnAnswer, ErrorOnlyIfCallerGone,
       Stages, States, Spawned

LEMMA CallerLeavesKeeps == RInv /\ CallerLeaves => RInv'
BY DEF RInv, CallerLeaves, RTypes, Idle, Channel, KeptBack, Private, ReplyIsAnAnswer,
       ErrorOnlyIfCallerGone, Stages, States

LEMMA BeginKeeps == ASSUME RInv, NEW a \in Racers, Begin(a) PROVE RInv'
BY DEF RInv, Begin, RTypes, Idle, Channel, KeptBack, Private, ReplyIsAnAnswer, ErrorOnlyIfCallerGone,
       Stages, States

LEMMA EndKeeps == ASSUME RInv, NEW a \in Racers, End(a) PROVE RInv'
<1> USE DEF RInv
<1>1. /\ goroutine[a] = "running" /\ outcome[a] = "none"
      /\ goroutine' = [goroutine EXCEPT ![a] = "sending"]
      /\ UNCHANGED <<stage, ch, cancelled, callerGone, reply>>
  BY DEF End, RTypes
<1>2. PICK o \in {"ok", "error"} :
        outcome' = [outcome EXCEPT ![a] = o] /\ (o = "error" => cancelled)
  BY DEF End
<1>3. RTypes' /\ Idle'
  BY <1>1, <1>2 DEF RTypes, Idle, States
<1>4. Channel'
  BY <1>1 DEF Channel, RTypes
<1>5. KeptBack'
  BY <1>1, <1>2 DEF KeptBack, RTypes
<1>6. Private'
  BY <1>1, <1>2 DEF Private, RTypes
<1>7. ReplyIsAnAnswer' /\ ErrorOnlyIfCallerGone'
  BY <1>1, <1>2 DEF ReplyIsAnAnswer, ErrorOnlyIfCallerGone, RTypes
<1>8. QED
  BY <1>3, <1>4, <1>5, <1>6, <1>7

LEMMA SendKeeps == ASSUME RInv, NEW a \in Racers, Send(a) PROVE RInv'
<1> USE DEF RInv
<1>1. /\ goroutine[a] = "sending" /\ goroutine' = [goroutine EXCEPT ![a] = "ended"]
      /\ ch' = Append(ch, a)
      /\ UNCHANGED <<stage, outcome, cancelled, callerGone, reply>>
  BY DEF Send
<1>2. /\ ch' \in Seq(Racers) /\ Len(ch') = Len(ch) + 1 /\ Len(ch) \in Nat
      /\ ch'[Len(ch) + 1] = a /\ \A k \in 1 .. Len(ch) : ch'[k] = ch[k]
  BY <1>1 DEF RTypes
<1>3. \A k \in 1 .. Len(ch) : ch[k] \in Racers /\ ch[k] # a
  BY <1>1 DEF RTypes, Channel
<1>4. RTypes' /\ Idle'
  BY <1>1, <1>2 DEF RTypes, Idle, States
<1>5. Channel'
  BY <1>1, <1>2, <1>3 DEF Channel, RTypes
<1>6. KeptBack'
  BY <1>1, <1>2, <1>3 DEF KeptBack, RTypes
<1>7. Private' /\ ReplyIsAnAnswer' /\ ErrorOnlyIfCallerGone'
  BY <1>1 DEF Private, ReplyIsAnAnswer, ErrorOnlyIfCallerGone
<1>8. QED
  BY <1>4, <1>5, <1>6, <1>7

LEMMA ReceiveKeeps == ASSUME RInv, Receive PROVE RInv'
<1> USE DEF RInv
<1> DEFINE a == Head(ch)
<1>1. /\ stage \in {"first", "second"} /\ ch # <<>> /\ ch' = Tail(ch)
      /\ UNCHANGED <<goroutine, outcome, callerGone>>
      /\ stage = "first" => First(a)
      /\ stage = "second" => Second(a)
  BY DEF Receive, Receiving
<1>2. /\ ch' \in Seq(Racers) /\ Len(ch') = Len(ch) - 1 /\ Len(ch) \in Nat \ {0}
      /\ a = ch[1] /\ a \in Racers
      /\ \A k \in 1 .. Len(ch') : ch'[k] = ch[k + 1]
  BY <1>1 DEF RTypes
<1>3. goroutine[a] = "ended" /\ outcome[a] \in {"ok", "error"}
      /\ \A k \in 1 .. Len(ch') : ch'[k] # a
  BY <1>2 DEF RTypes, Channel
<1>4. Channel'
  BY <1>1, <1>2 DEF Channel
<1>5. CASE outcome[a] = "ok"
  <2>1. stage' = "returned" /\ reply' = Answer(a)
    BY <1>1, <1>5 DEF First, Second, Return
  <2>2. reply'.err = FALSE /\ reply'.selected = a
    BY <2>1 DEF Answer
  <2>3. RTypes' /\ Idle' /\ KeptBack' /\ Private'
    BY <1>1, <1>2, <2>1 DEF RTypes, Idle, KeptBack, Private, Stages
  <2>4. ReplyIsAnAnswer' /\ ErrorOnlyIfCallerGone'
    BY <1>1, <1>2, <1>5, <2>2 DEF ReplyIsAnAnswer, ErrorOnlyIfCallerGone
  <2>5. QED
    BY <1>4, <2>3, <2>4
<1>6. CASE outcome[a] = "error" /\ stage = "first"
  <2>1. stage' = "second" /\ UNCHANGED <<reply, cancelled>>
    BY <1>1, <1>6 DEF First
  <2>2. RTypes' /\ Idle' /\ Private'
    BY <1>1, <1>2, <1>6, <2>1 DEF RTypes, Idle, Private, Stages
  <2>3. KeptBack'
    BY <1>1, <1>2, <1>3, <1>6, <2>1 DEF KeptBack
  <2>4. ReplyIsAnAnswer' /\ ErrorOnlyIfCallerGone'
    BY <2>1 DEF ReplyIsAnAnswer, ErrorOnlyIfCallerGone
  <2>5. QED
    BY <1>4, <2>2, <2>3, <2>4
<1>7. CASE outcome[a] = "error" /\ stage = "second"
  <2>1. stage' = "returned" /\ reply' = Failure
    BY <1>1, <1>7 DEF Second, Return
  <2>2. reply'.err = TRUE
    BY <2>1 DEF Failure
  <2>3. PICK b \in Racers : outcome[b] = "error" /\ \A k \in 1 .. Len(ch) : ch[k] # b
    BY <1>7 DEF KeptBack
  <2>4. a # b
    BY <1>2, <2>3
  <2>5. \A c \in Racers : c = a \/ c = b
    BY <1>2, <2>3, <2>4 DEF Racers
  <2>6. (\A c \in Racers : outcome'[c] = "error") /\ callerGone'
    BY <1>1, <1>2, <1>7, <2>3, <2>5 DEF Private
  <2>7. RTypes' /\ Idle' /\ KeptBack' /\ Private'
    BY <1>1, <1>2, <2>1 DEF RTypes, Idle, KeptBack, Private, Stages
  <2>8. ReplyIsAnAnswer' /\ ErrorOnlyIfCallerGone'
    BY <2>2, <2>6 DEF ReplyIsAnAnswer, ErrorOnlyIfCallerGone
  <2>9. QED
    BY <1>4, <2>7, <2>8
<1>8. QED
  BY <1>1, <1>3, <1>5, <1>6, <1>7

LEMMA RNext == RInv /\ [Next]_vars => RInv'
<1> SUFFICES ASSUME RInv, [Next]_vars
             PROVE  RInv'
  OBVIOUS
<1>1. ASSUME UNCHANGED rvars
      PROVE  RInv'
  BY <1>1 DEF rvars, RInv, RTypes, Idle, Channel, KeptBack, Private, ReplyIsAnAnswer, ErrorOnlyIfCallerGone
<1>2. CASE \E a \in Racers : Search(a)
  BY <1>1, <1>2 DEF Search
<1>3. CASE \E c \in Callers : Serve(c) /\ UNCHANGED rvars
  BY <1>1, <1>3
<1>4. CASE UNCHANGED vars
  BY <1>1, <1>4 DEF vars
<1>5. QED
  BY <1>2, <1>3, <1>4, CallKeeps, CallerLeavesKeeps, BeginKeeps, EndKeeps, SendKeeps, ReceiveKeeps
     DEF Next

\* The invariant of the portfolio.
THEOREM RaceInvariance == Spec => []RInv
BY RInit, RNext, PTL DEF Spec

\* race returns the result of a search that succeeded and fails only when both did
\* (race.go:28-43).
THEOREM ReplyAlwaysAnAnswer == Spec => []ReplyIsAnAnswer
<1>1. RInv => ReplyIsAnAnswer
  BY DEF RInv
<1>2. QED
  BY <1>1, RaceInvariance, PTL

\* race fails only when the caller's own context has ended (race.go:16-30).
THEOREM ErrorsNeedTheCallerGone == Spec => []ErrorOnlyIfCallerGone
<1>1. RInv => ErrorOnlyIfCallerGone
  BY DEF RInv
<1>2. QED
  BY <1>1, RaceInvariance, PTL

-----------------------------------------------------------------------------
(* The workspaces under the race.                                          *)

LEMMA IsolationUnderRace == IInv /\ [Next]_vars => IInv'
<1> SUFFICES ASSUME IInv, [Next]_vars
             PROVE  IInv'
  OBVIOUS
<1>1. Racers \subseteq Searcher /\ Callers \subseteq Searcher /\ Racers \subseteq AllAlgs
  BY RaceAssumption DEF Racers, AllAlgs
<1>2. ASSUME UNCHANGED wvars
      PROVE  IInv'
  BY <1>2 DEF wvars, IInv, Exclusive, Searching, Mine
<1>3. CASE Call \/ CallerLeaves \/ Receive \/ UNCHANGED vars
  BY <1>2, <1>3 DEF Call, CallerLeaves, Receive, vars
<1>4. ASSUME NEW a \in Racers, Begin(a)
      PROVE  IInv'
  <2>1. PICK q \in RaceQueries : Acquire(a, a, q)
    BY <1>4 DEF Begin
  <2>2. QED
    BY <1>1, <2>1, AcquireStep, RaceAssumption
<1>5. ASSUME NEW a \in Racers, Search(a) \/ End(a) \/ Send(a)
      PROVE  IInv'
  BY <1>1, <1>2, <1>5, UseStep, ReleaseStep DEF Search, End, Send
<1>6. ASSUME NEW c \in Callers, Serve(c)
      PROVE  IInv'
  BY <1>1, <1>6, NextIInv DEF WNext
<1>7. QED
  BY <1>3, <1>4, <1>5, <1>6 DEF Next

\* The workspaces stay isolated while the loser of a race goes on and other callers
\* are served: what is in the pool is clean, no two searches share a workspace, and
\* what is cached is the holder's (race.go:18-26, workspace.go:20-175).
THEOREM RaceIsolates == Spec => [](Exclusive /\ CleanInPool /\ CachesAreOwn)
<1>1. IInv => Exclusive
  BY DEF IInv
<1>2. IInv => CleanInPool
  BY InvariantCleansPool
<1>3. IInv => CachesAreOwn
  BY InvariantKeepsOwn
<1>4. Init => IInv
  BY InitIInv DEF Init
<1>5. QED
  BY <1>1, <1>2, <1>3, <1>4, IsolationUnderRace, PTL DEF Spec
=============================================================================
