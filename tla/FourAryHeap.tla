---------------------------- MODULE FourAryHeap ----------------------------
(***************************************************************************)
(* The queue of Dijkstra's algorithm and A* (heap.go): an implicit heap in *)
(* a slice, here a sequence, whose i-th item lies above HeapArity others.  *)
(* The code swaps an item up or down level by level; the loops end where   *)
(* the path below ends, and the items on it have moved by one level.       *)
(***************************************************************************)
EXTENDS Integers, Sequences

CONSTANT HeapArity   \* the const heapArity

ASSUME ArityAssumption == HeapArity \in Nat \ {0}

lessItem(a, b) ==
  \/ a.priority < b.priority
  \/ a.priority = b.priority /\ a.distance < b.distance

Above(i) == (i - 2) \div HeapArity + 1

\* The item rises while it is less than the one above it.
push(h, x) ==
  LET n == Len(h) + 1
      path[i \in 1 .. n] ==
        IF i > 1 /\ lessItem(x, h[Above(i)]) THEN path[Above(i)] \cup {i} ELSE {}
      top == CHOOSE i \in 1 .. n :
               i \notin path[n] /\ (i = n \/ \E j \in path[n] : Above(j) = i)
  IN  [i \in 1 .. n |-> IF i = top THEN x ELSE IF i \in path[n] THEN h[Above(i)] ELSE h[i]]


\* The last item takes the place of the first one and sinks past the least of
\* the items below it, the leftmost among equals, while that is less.
pop(h) ==
  LET n == Len(h) - 1
      last == h[n + 1]
      Below(i) == {c \in 2 .. n : Above(c) = i}
      Least(i) == CHOOSE c \in Below(i) :
                    \A x \in Below(i) : ~lessItem(h[x], h[c]) /\ (x < c => lessItem(h[c], h[x]))
      path[i \in 1 .. n] ==
        IF Below(i) # {} /\ lessItem(h[Least(i)], last) THEN path[Least(i)] \cup {i} ELSE {}
  IN  IF n = 0 THEN <<>>
      ELSE [i \in 1 .. n |->
              IF i \in path[1] THEN h[Least(i)]
              ELSE IF i = 1 \/ (Above(i) \in path[1] /\ Least(Above(i)) = i) THEN last
              ELSE h[i]]
=============================================================================
