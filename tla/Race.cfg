SPECIFICATION FairSpec
CONSTANTS
  Searcher = {"bidijkstra", "astar", "caller"}
  Algs = {"acbs", "pb", "catch"}
  Workspace = {1, 2, 3}
  NoWorkspace = 0
  Queries <- MCQueries
  Labels = {0}
  Callers = {"caller"}
  Geometry = TRUE
  RaceQueries <- MCRaceQueries
INVARIANTS
  Exclusive
  ReplyIsAnAnswer
  ErrorOnlyIfCallerGone
  CleanInPool
  CachesAreOwn
PROPERTIES
  NobodyBlocks
CONSTRAINT Apart
