SPECIFICATION DispatchSpec
CONSTANTS
  MaxUint64 = 100
  Node <- MCNode
  NoNode = 0
  Queries <- AllQueries
  Calls <- MCCalls
  HeapArity = 2
INVARIANTS
  QueuesMonotone
  NoConnectionMissed
  DifferencesFit
PROPERTIES
  BaselinesExact
  Terminates
