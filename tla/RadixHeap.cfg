SPECIFICATION Spec
CONSTANTS
  Width = 4
  Id = {n1, n2, n3}
  NoItem = NoItem
INVARIANTS
  FiledByLast
  NeverPanics
PROPERTIES
  SpreadsDownwards
  IsPriorityQueue
