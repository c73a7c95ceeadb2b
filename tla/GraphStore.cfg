SPECIFICATION Spec
CONSTANTS
  Place <- MCPlace
  Meters <- MCMeters
  Elements <- MCElements
  MaxElements = 5
  PerUnit = 5
  BufferSize = 3
  Rooms = {0, 4, 100}
  Saved <- MCSaved
INVARIANTS
  RoadsAreArcs
  GraphsMeetSearch
  LoadedWasSaved
CHECK_DEADLOCK FALSE
