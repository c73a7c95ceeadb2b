----------------------------- MODULE RadixHeap -----------------------------
(***************************************************************************)
(* The monotone priority queue of ACBS (internal/search/radix.go): a key   *)
(* lies in the bucket given by the highest bit in which it differs from    *)
(* last, and the lowest bucket in use is spread over the ones below it     *)
(* when a minimum is wanted.  The word has Width bits instead of 64.       *)
(*                                                                         *)
(* The environment is one direction of the search: it pushes the nodes it  *)
(* labels with keys no smaller than that of the node it has popped.        *)
(***************************************************************************)
EXTENDS Integers, Sequences, SequencesExt

CONSTANTS Width,  \* bits of a key
          Id,     \* the nodes in the queue
          NoItem  \* radixPeek's (item{}, false)

ASSUME WidthAssumption == Width \in Nat \ {0}

Buckets == 0 .. Width

\* The value of a bit.
Power[b \in Buckets] == IF b = 0 THEN 1 ELSE 2 * Power[b - 1]

Key == 0 .. Power[Width] - 1
Item == Key \X Id

ASSUME ItemAssumption == NoItem \notin Item

VARIABLES
  buckets,   \* the items of each bucket, in order
  last, size,
  out,       \* what the last call returned
  held,      \* the key of the item removed last: the node being expanded
  peeked,    \* has the front been looked at since?
  panicked   \* radixPush has panicked

vars == <<buckets, last, size, out, held, peeked, panicked>>

Contents == UNION {Range(buckets[b]) : b \in Buckets}
Live == {x[2] : x \in Contents}

\* bits.Len64(key ^ last): the number of low bits in which the two may differ.
radixBucketByPairs(key, base) ==   \* fault: two bits per bucket
  CHOOSE b \in Buckets :
    /\ b % 2 = 0 \/ b = Width
    /\ key \div Power[b] = base \div Power[b]
    /\ \A c \in Buckets : c < b /\ c % 2 = 0 => key \div Power[c] # base \div Power[c]
radixBucket(key, base) ==
  CHOOSE b \in Buckets :
    /\ key \div Power[b] = base \div Power[b]
    /\ \A c \in Buckets : c < b => key \div Power[c] # base \div Power[c]

\* The bucket to spread: the lowest one in use above bucket zero.
LowestUsed ==
  CHOOSE b \in Buckets \ {0} :
    buckets[b] # <<>> /\ \A c \in Buckets : 0 < c /\ c < b => buckets[c] = <<>>

\* The items of the lowest bucket are filed anew, one after the other.
Refiled(items, base) ==
  LET filed[i \in 0 .. Len(items)] ==
        IF i = 0 THEN [buckets EXCEPT ![LowestUsed] = <<>>]
        ELSE [filed[i - 1] EXCEPT ![radixBucket(items[i][1], base)] = Append(@, items[i])]
  IN  filed[Len(items)]

\* prepareMin: when bucket zero is empty, the least key of the lowest bucket
\* becomes last and the items of that bucket are filed by it.
PreparedToFirst ==   \* fault: the first item is taken for the least
  IF buckets[0] # <<>> \/ size = 0 THEN [last |-> last, buckets |-> buckets]
  ELSE LET items == buckets[LowestUsed]
       IN  [last |-> items[1][1], buckets |-> Refiled(items, items[1][1])]
LeastKey(items) ==
  CHOOSE k \in Key : (\E x \in Range(items) : x[1] = k) /\ \A x \in Range(items) : k <= x[1]
Prepared ==
  IF buckets[0] # <<>> \/ size = 0 THEN [last |-> last, buckets |-> buckets]
  ELSE LET items == buckets[LowestUsed]
       IN  [last |-> LeastKey(items), buckets |-> Refiled(items, LeastKey(items))]

-----------------------------------------------------------------------------
Init ==
  /\ buckets = [b \in Buckets |-> <<>>]
  /\ last = 0 /\ size = 0 /\ out = NoItem
  /\ held = 0 /\ peeked = FALSE /\ panicked = FALSE

radixPush(x) ==
  /\ IF x[1] < last
     THEN panicked' = TRUE /\ UNCHANGED <<buckets, size>>
     ELSE /\ buckets' = [buckets EXCEPT ![radixBucket(x[1], last)] = Append(@, x)]
          /\ size' = size + 1
          /\ UNCHANGED panicked
  /\ out' = NoItem
  /\ UNCHANGED <<last, held, peeked>>

radixPeek ==
  /\ LET p == Prepared
     IN  /\ last' = p.last /\ buckets' = p.buckets
         /\ out' = IF size = 0 THEN NoItem ELSE Last(p.buckets[0])
  /\ peeked' = TRUE
  /\ UNCHANGED <<size, held, panicked>>

radixPop ==
  /\ size > 0
  /\ LET p == Prepared
         x == Last(p.buckets[0])
     IN  /\ last' = p.last
         /\ buckets' = [p.buckets EXCEPT ![0] = Front(@)]
         /\ out' = x /\ held' = x[1]
  /\ size' = size - 1
  /\ peeked' = FALSE
  /\ UNCHANGED panicked

\* The workspace is handed to the next query.
resetKeepingLast ==   \* fault: the next query inherits last
  /\ buckets' = [b \in Buckets |-> <<>>]
  /\ size' = 0 /\ out' = NoItem
  /\ held' = 0 /\ peeked' = FALSE
  /\ UNCHANGED <<last, panicked>>
reset ==
  /\ buckets' = [b \in Buckets |-> <<>>]
  /\ last' = 0 /\ size' = 0 /\ out' = NoItem
  /\ held' = 0 /\ peeked' = FALSE
  /\ UNCHANGED panicked

\* What the search pushes: nodes relaxed from the one popped last, before it
\* looks at the front again (acbs.go:284-341).
Relaxed(k) == k >= held /\ ~peeked

\* What the comment of the type allows: "newly inserted keys are never smaller
\* than the most recently removed key", be the front looked at since or not.
Documented(k) == k >= held /\ (peeked => held > 0)

Calls == radixPeek \/ radixPop \/ reset

Next ==
  \/ \E x \in Item : x[2] \notin Live /\ Relaxed(x[1]) /\ radixPush(x)
  \/ Calls

DocumentedNext ==
  \/ \E x \in Item : x[2] \notin Live /\ Documented(x[1]) /\ radixPush(x)
  \/ Calls

Spec == Init /\ [][Next]_vars

DocumentedSpec == Init /\ [][~panicked /\ DocumentedNext]_vars
-----------------------------------------------------------------------------
\* Every item is filed under the bit in which its key differs from last, which
\* no key has fallen behind, so that the lowest bucket in use holds the minimum;
\* and size counts the items, so that the heap looks empty only when it is.
FiledByLast ==
  /\ size = Cardinality(Contents)
  /\ \A b \in Buckets : \A x \in Range(buckets[b]) :
       x[1] >= last /\ radixBucket(x[1], last) = b

\* Spreading a bucket never appends to it: prepareMin reuses its backing array
\* while it still reads from it (radix.go:60-65).
SpreadsDownwards ==
  [][last' > last => buckets'[LowestUsed] = <<>>]_vars

\* The search never makes the queue panic (radix.go:33-39).
NeverPanics == ~panicked

\* It is a priority queue.
PQ == INSTANCE PriorityQueue WITH queued <- Contents
IsPriorityQueue == PQ!Spec
=============================================================================
