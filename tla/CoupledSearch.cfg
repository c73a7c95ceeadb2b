SPECIFICATION TFairSpec
CONSTANTS
  MaxUint64 = 100
  Node <- MCNode
  NoNode = 0
  Queries <- LadderQueries
  MaxCost = 3
  MaxPhi = 6
  MaxDriven = 9
INVARIANTS
  TypeOK
  KeysMonotone
  IncumbentTight
  ParentsTight
  IncumbentReconstructs
  LowerBoundValid
  NoShortcut
PROPERTIES
  SettledIsFinal
  AnswersExactly
  Terminates
