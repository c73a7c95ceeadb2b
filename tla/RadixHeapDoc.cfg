SPECIFICATION DocumentedSpec
CONSTANTS
  Width = 3
  Id = {n1, n2, n3}
  NoItem = NoItem
INVARIANTS
  NeverPanics
