SPECIFICATION Spec
CONSTANTS
  MaxUint64 = 15
  Node <- MCNode
  NoNode = 0
  Queries <- LongQueries
INVARIANTS
  AnswersDespiteClamping
