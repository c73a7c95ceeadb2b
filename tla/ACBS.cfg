SPECIFICATION ACBSSpec
CONSTANTS
  MaxUint64 = 255
  Node <- MCNode
  NoNode = 0
  Queries <- MCQueries
  Options <- MCOptions
  BaseEdgeBudget = 1
  MaxConsecutive = 2
  GuardStart = 2
  GuardWindow = 2
  PollEvery = 2
  Scale = 20
INVARIANTS
  LabelsQueued
  NoStarvation
  GuardContained
PROPERTIES
  Spec
  Terminates
