-------------------------------- MODULE ACBS --------------------------------
(***************************************************************************)
(* acbsWithOptions (internal/search/acbs.go:127-511) with everything it    *)
(* schedules by: the two heaps with their stale entries, the outer loop    *)
(* that picks a direction and an edge budget, the inner loop that spends   *)
(* it, the efficiency scores, the connection guard and the options of the  *)
(* published variants.  It implements CoupledSearch, where the schedule is *)
(* free; the answer is therefore right under every schedule made here.     *)
(*                                                                         *)
(* The tuning numbers of the code are parameters, so that chunks, guard    *)
(* windows and forced alternations happen on graphs of a few nodes.        *)
(***************************************************************************)
EXTENDS CoupledSearch

CONSTANTS Options,         \* the acbsOptions to run, guard eligibility included
          BaseEdgeBudget,  \* acbsBaseEdgeBudget: 256, 1024 or 2048
          MaxConsecutive,  \* forced alternation: 6
          GuardStart,      \* connectionGuardStartChunk: 32, 40 or 48
          GuardWindow,     \* connectionGuardMaxChunks of a bounded guard: 8 or 16
          PollEvery,       \* the context is polled when Expanded % 1024 = 0
          Scale            \* fixed-point factor of the scores: 1_000_000

\* Which guard an option set arms: none, one that lasts GuardWindow chunks, or
\* one that lasts until a connection is found.
Guards == {"none", "bounded", "untilUpper"}

IsOptions(o) ==
  /\ o.guard \in Guards
  /\ {o.adaptive, o.noDeadBand, o.noAlternation, o.instantScore, o.fixedBudget}
       \subseteq BOOLEAN

ASSUME TuningAssumption ==
  /\ Node \subseteq Nat /\ \A o \in Options : IsOptions(o)
  /\ {BaseEdgeBudget, MaxConsecutive, GuardStart, GuardWindow, PollEvery, Scale}
       \subseteq Nat \ {0}

VARIABLES
  opts,         \* the options of the call
  heap,         \* heap[d]: the entries <<node, distance>> of qf, qb
  phase,        \* "outer" or "chunk": which loop runs
  used, budget, \* edge work of the chunk and its allowance
  chunks, switches, guardChunks,  \* stats.Chunks, .DirectionSwitches, .ConnectionGuardChunks
  last, consecutive,              \* lastDirection and its run length
  score, sampled,                 \* per direction: efficiency estimate, and whether it has one
  guard,        \* guardTriggered, guardActive, guardRemaining, connectionGuardActive
  expanded,     \* stats.Expanded
  relaxed,      \* edges relaxed in this chunk
  mark          \* lower bound, expansions and queue length when the chunk began

chunkVars == <<used, budget, relaxed, mark>>
schedVars == <<chunks, switches, guardChunks, last, consecutive, score, sampled, guard>>
avars == <<vars, opts, heap, phase, expanded, chunkVars, schedVars>>

Wrap(x) == x % (MaxUint64 + 1)
Degree(d, v) == Cardinality(Edges(d, v))

-----------------------------------------------------------------------------
(* The heaps.                                                              *)

EntryKey(d, e) == doubledPlusSigned(e[2], Shift(d, e[1]))

FreshUnchecked(d) == heap[d]   \* fault: stale entries are delivered
Fresh(d) == {e \in heap[d] : e[2] = dist[d][e[1]] /\ e[1] \notin settled[d]}

\* The entries peekValid may return.
Tops(d) == {e \in Fresh(d) : \A f \in Fresh(d) : EntryKey(d, e) <= EntryKey(d, f)}

\* What peekValid leaves in the heap: the stale entries ahead of the front are
\* gone, and of those with the front's own key the ones that lay above it.
Peeked(d) ==
  LET stale == heap[d] \ Fresh(d)
  IN  IF Fresh(d) = {} THEN {{}}
      ELSE LET k == EntryKey(d, CHOOSE e \in Tops(d) : TRUE)
               ahead == {e \in stale : EntryKey(d, e) < k}
               level == {e \in stale : EntryKey(d, e) = k}
           IN  {heap[d] \ (ahead \cup s) : s \in SUBSET level}
PeekedBoth == {[d \in Dir |-> IF d = "F" THEN f ELSE b] :
                 f \in Peeked("F"), b \in Peeked("B")}

LowerBound(f, b) == saturatingAdd(EntryKey("F", f), EntryKey("B", b))
Reached(f, b) == bestReduced # inf /\ LowerBound(f, b) >= bestReduced
DryBoth == \A d \in Dir : Fresh(d) = {}   \* fault: waits for the other heap
Dry == \E d \in Dir : Fresh(d) = {}

-----------------------------------------------------------------------------
(* The scheduler.                                                          *)

\* chooseACBSStaticDirection: the lower key, then the smaller degree, then the
\* shorter queue, then forward.
StaticDirection(f, b, h) ==
  LET keyF == EntryKey("F", f)      keyB == EntryKey("B", b)
      degF == Degree("F", f[1])     degB == Degree("B", b[1])
      forward == \/ keyF < keyB
                 \/ keyF = keyB /\ degF < degB
                 \/ keyF = keyB /\ degF = degB /\ Cardinality(h["F"]) <= Cardinality(h["B"])
  IN  IF forward THEN "F" ELSE "B"

Margin(s) == IF opts.noDeadBand THEN s ELSE Wrap(s + s \div 10)

\* chooseACBSDirection: warm both directions up, refresh the idle one, follow
\* the efficiency outside the dead band, and break ties like the static rule.
AdaptiveWithoutAlternation(f, b, h) ==   \* fault: never refreshes the idle side
  IF ~sampled["F"] THEN "F" ELSE IF ~sampled["B"] THEN "B"
  ELSE IF score["F"] > Margin(score["B"]) THEN "F"
  ELSE IF score["B"] > Margin(score["F"]) THEN "B"
  ELSE StaticDirection(f, b, h)
AdaptiveDirection(f, b, h) ==
  IF ~sampled["F"] THEN "F" ELSE IF ~sampled["B"] THEN "B"
  ELSE IF ~opts.noAlternation /\ consecutive >= MaxConsecutive
    THEN IF last = "F" THEN "B" ELSE "F"
  ELSE IF score["F"] > Margin(score["B"]) THEN "F"
  ELSE IF score["B"] > Margin(score["F"]) THEN "B"
  ELSE StaticDirection(f, b, h)

\* acbsEdgeBudget: an efficient direction gets two or four times the base, but
\* never more than two times once there is an incumbent.
EdgeBudget(d) ==
  LET chosen == score[d]     other == score[Other(d)]
      factor == IF other > 0 /\ chosen >= Wrap(other * 4) THEN 4
                ELSE IF other > 0 /\ chosen >= Wrap(other * 2) THEN 2
                ELSE 1
  IN  BaseEdgeBudget * (IF bestReduced # inf /\ factor > 2 THEN 2 ELSE factor)

\* shouldEngageConnectionGuard: a long search that oscillates between two
\* directions of similar efficiency.
ShouldEngage ==
  LET hi == IF score["F"] < score["B"] THEN score["B"] ELSE score["F"]
      lo == IF score["F"] < score["B"] THEN score["F"] ELSE score["B"]
  IN  /\ chunks >= GuardStart
      /\ sampled["F"] /\ sampled["B"] /\ lo # 0
      /\ switches * 2 >= chunks
      /\ hi <= Wrap(lo + lo \div 4)

\* The guard on entry to a chunk, before a direction is chosen.
GuardEntered ==
  IF opts.guard # "none" /\ ~guard.triggered /\ bestReduced = inf /\ ShouldEngage
  THEN [triggered |-> TRUE, active |-> TRUE, now |-> TRUE,
        left |-> IF opts.guard = "bounded" THEN GuardWindow ELSE 0]
  ELSE [triggered |-> guard.triggered, active |-> guard.active,
        left |-> guard.left, now |-> guard.active /\ bestReduced = inf]

\* The guard on leaving a chunk: it ends with a connection or with its window.
GuardForgetful == guard   \* fault: the window is never closed
GuardLeft ==
  IF ~guard.now THEN guard
  ELSE IF bestReduced # inf
    THEN [triggered |-> guard.triggered, active |-> FALSE, left |-> guard.left, now |-> TRUE]
  ELSE [triggered |-> guard.triggered, active |-> guard.left # 1, now |-> TRUE,
        left |-> IF guard.left > 0 THEN guard.left - 1 ELSE 0]

schedulerWork(edges, expansions, growth) ==
  LET w == edges + expansions * 4
      all == IF growth > 0 THEN saturatingAdd(w, growth * 2) ELSE w
  IN  IF all = 0 THEN 1 ELSE all

efficiencyScore(gain, work) ==
  IF gain > MaxUint64 \div Scale THEN MaxUint64 ELSE (gain * Scale) \div work

emaScore(previous, current, initialized) ==
  IF ~initialized THEN current ELSE previous - previous \div 4 + current \div 4

-----------------------------------------------------------------------------
(* The call.                                                               *)

ACBSInit ==
  /\ Init
  /\ opts \in Options
  /\ heap = [d \in Dir |-> {}]
  /\ phase = "outer" /\ used = 0 /\ budget = 0 /\ expanded = 0 /\ relaxed = 0
  /\ chunks = 0 /\ switches = 0 /\ guardChunks = 0
  /\ last = "none" /\ consecutive = 0
  /\ score = [d \in Dir |-> 0] /\ sampled = [d \in Dir |-> FALSE]
  /\ guard = [triggered |-> FALSE, active |-> FALSE, left |-> 0, now |-> FALSE]
  /\ mark = [lower |-> 0, expanded |-> 0, len |-> 0]

Trivial ==
  AnswerTrivial /\ UNCHANGED <<opts, heap, phase, expanded, chunkVars, schedVars>>

Enter ==
  /\ Begin
  /\ heap' = [d \in Dir |-> {<<Root(d), 0>>}]
  /\ UNCHANGED <<opts, phase, expanded, chunkVars, schedVars>>

Searching(p) == pc = "search" /\ phase = p /\ scan = {}

\* The top of the outer loop: a heap has run dry, or the bound is reached.
Stop ==
  /\ Searching("outer")
  /\ heap' \in PeekedBoth
  /\ \/ Dry /\ Conclude(best)
     \/ \E f \in Tops("F"), b \in Tops("B") :
          LET bound == reducedToOriginalLowerBound(
                         LowerBound(f, b), query.phi[query.src], query.phi[query.dst])
          IN  Reached(f, b) /\ Conclude(IF bound > best THEN best ELSE bound)
  /\ UNCHANGED <<query, searchVars, opts, phase, expanded, chunkVars, schedVars>>

\* Neither, and the poll that is due finds the context cancelled.
Poll ==
  /\ Searching("outer") /\ expanded % PollEvery = 0
  /\ heap' \in PeekedBoth
  /\ \E f \in Tops("F"), b \in Tops("B") : ~Reached(f, b)
  /\ pc' = "done" /\ result' = Cancelled
  /\ UNCHANGED <<query, searchVars, lower, path, opts, phase, expanded, chunkVars, schedVars>>

\* Otherwise a direction and an edge budget are chosen for the next chunk.
BeginChunk ==
  /\ Searching("outer")
  /\ heap' \in PeekedBoth
  /\ guard' = GuardEntered
  /\ \E f \in Tops("F"), b \in Tops("B") :
       LET d == IF guard'.now \/ ~opts.adaptive THEN StaticDirection(f, b, heap')
                ELSE AdaptiveDirection(f, b, heap')
       IN  /\ ~Reached(f, b)
           /\ last' = d
           /\ consecutive' = IF d = last THEN consecutive + 1 ELSE 1
           /\ switches' = switches + (IF last \notin {d, "none"} THEN 1 ELSE 0)
           /\ budget' = IF ~opts.adaptive \/ guard'.now \/ opts.fixedBudget
                        THEN BaseEdgeBudget ELSE EdgeBudget(d)
           /\ mark' = [lower |-> LowerBound(f, b), expanded |-> expanded,
                       len |-> Cardinality(heap'["F"]) + Cardinality(heap'["B"])]
  /\ guardChunks' = guardChunks + (IF guard'.now THEN 1 ELSE 0)
  /\ chunks' = chunks + 1
  /\ phase' = "chunk" /\ used' = 0 /\ relaxed' = 0
  /\ UNCHANGED <<vars, opts, expanded, score, sampled>>

\* The inner loop pops the front of the chosen direction; an entry without
\* edges costs one unit of the budget all the same.
Pop ==
  /\ Searching("chunk") /\ used < budget
  /\ \E h \in PeekedBoth, f \in Tops("F"), b \in Tops("B") :
       LET e == IF last = "F" THEN f ELSE b
           v == e[1]
           degree == Degree(last, v)
       IN  /\ ~Reached(f, b)
           /\ heap' = [h EXCEPT ![last] = @ \ {e}]
           /\ dir' = last /\ cur' = v
           /\ settled' = [settled EXCEPT ![last] = @ \cup {v}]
           /\ UpdateBest(v, dist)
           /\ IF Pruned(last, v, dist[last][v], best')
              THEN scan' = {} /\ used' = used + 1 /\ UNCHANGED expanded
              ELSE /\ scan' = Edges(last, v)
                   /\ used' = used + (IF degree = 0 THEN 1 ELSE degree)
                   /\ expanded' = expanded + 1
  /\ UNCHANGED <<query, pc, dist, parent, lower, path, result, opts, phase, budget,
                 relaxed, mark, schedVars>>

\* The heap once v has been pushed with a new label.
PushedFirstOnly(d, v, label) ==   \* fault: a node that is queued already stays as it is
  IF \E e \in heap[d] : e[1] = v THEN heap
  ELSE [heap EXCEPT ![d] = @ \cup {<<v, label>>}]
Pushed(d, v, label) == [heap EXCEPT ![d] = @ \cup {<<v, label>>}]

\* The edges of the popped node are relaxed in the order of the CSR arrays; a
\* label that improves is pushed, and its old entry stays behind.
RelaxAndPush ==
  /\ pc = "search" /\ phase = "chunk"
  /\ \E a \in scan :
       LET v     == To(dir, a)
           label == dist[dir][cur] + query.cost[a]
           fits  == dist[dir][cur] <= inf - query.cost[a]
           write == fits /\ label < dist[dir][v] /\ ~Pruned(dir, v, label, best)
       IN  /\ \A x \in scan : v <= To(dir, x)
           /\ scan' = scan \ {a}
           /\ dist' = IF write THEN [dist EXCEPT ![dir][v] = label] ELSE dist
           /\ parent' = IF write THEN [parent EXCEPT ![dir][v] = cur] ELSE parent
           /\ heap' = IF write THEN Pushed(dir, v, label) ELSE heap
           /\ IF fits /\ dist[Other(dir)][v] # inf THEN UpdateBest(v, dist')
              ELSE UNCHANGED <<best, meet, bestReduced>>
  /\ relaxed' = relaxed + 1
  /\ UNCHANGED <<query, pc, settled, dir, cur, lower, path, result, opts, phase, used,
                 budget, expanded, mark, schedVars>>

\* The chunk is over: its gain of lower bound per unit of work becomes the new
\* estimate of its direction.
EndChunk ==
  /\ Searching("chunk")
  /\ heap' \in PeekedBoth
  /\ LET over(bound) ==
           LET gain == IF bound > mark.lower THEN bound - mark.lower ELSE 0
               work == schedulerWork(relaxed, expanded - mark.expanded,
                         Cardinality(heap'["F"]) + Cardinality(heap'["B"]) - mark.len)
               instant == efficiencyScore(gain, work)
               new == IF opts.instantScore THEN instant
                      ELSE emaScore(score[last], instant, sampled[last])
           IN  IF opts.adaptive THEN /\ score' = [score EXCEPT ![last] = new]
                                     /\ sampled' = [sampled EXCEPT ![last] = TRUE]
               ELSE UNCHANGED <<score, sampled>>
     IN  \/ Dry /\ over(mark.lower)
         \/ \E f \in Tops("F"), b \in Tops("B") :
              (used >= budget \/ Reached(f, b)) /\ over(LowerBound(f, b))
  /\ guard' = GuardLeft
  /\ phase' = "outer"
  /\ UNCHANGED <<vars, opts, expanded, chunkVars, chunks, switches, guardChunks, last,
                 consecutive>>

\* The path is read off the parents.
Walk ==
  /\ WalkLeft \/ WalkRight
  /\ UNCHANGED <<opts, heap, phase, expanded, chunkVars, schedVars>>

Finished == Returned /\ UNCHANGED avars

Run ==
  \/ Trivial \/ Enter
  \/ BeginChunk \/ Pop \/ RelaxAndPush \/ EndChunk
  \/ Stop \/ Walk

ACBSNext == Run \/ Poll \/ Finished

ACBSSpec == ACBSInit /\ [][ACBSNext]_avars /\ WF_avars(Run)
-----------------------------------------------------------------------------
(* Properties.  That the scheduled search is a CoupledSearch at all is its *)
(* refinement of Spec.                                                     *)

\* No label is lost between the heaps and the arrays: every node that is still
\* to be settled has exactly one live entry, whatever was left behind stale.
LabelsQueued ==
  pc = "search" =>
    \A d \in Dir : /\ \A v \in Open(d) : <<v, dist[d][v]>> \in heap[d]
                   /\ \A e \in heap[d] : dist[d][e[1]] <= e[2]

\* Neither direction starves (docs/PAPER.md 3.3, rule 2): outside the guard and
\* the variants that give the alternation up, no direction runs more than
\* MaxConsecutive chunks in a row.
NoStarvation ==
  opts.adaptive /\ ~opts.noAlternation /\ guardChunks = 0 =>
    consecutive <= MaxConsecutive

\* The connection guard engages late and, being armed once, decides for no more
\* chunks than its window in the whole call (acbs.go:204-222, 477-486).
GuardContained ==
  /\ opts.guard = "bounded" => guardChunks <= GuardWindow
  /\ opts.guard = "none" => guardChunks = 0
  /\ guardChunks > 0 => chunks > GuardStart
=============================================================================
