SPECIFICATION DispatchSpec
CONSTANTS
  MaxUint64 = 100
  Node <- MCNode
  NoNode = 0
  Queries <- LadderQueries
  Calls <- MCBoundCalls
  HeapArity = 2
INVARIANTS
  PublishedBoundHolds
